---------------------- MODULE ConversationStorageProofs ----------------------
(* ConversationStorage for any number of turns, faults and any length of the *)
(* messages: a stop leaves nothing behind, and what a turn recalls is what   *)
(* the compiler makes of the whole conversation its client saw.              *)
EXTENDS ConversationStorage, FiniteSetTheorems, SequenceTheorems, WellFoundedInduction, TLAPS

Pcs == {"new", "locking", "waiting", "reading", "recalling", "speaking", "publishing",
        "committed", "over"}
Histories == {<<>>} \cup {Newest(InOrder(S), FetchLimit) : S \in SUBSET Sequences}
TurnStates == [pc : Pcs, prior : SUBSET Sequences, history : Histories]
\* A name for BOOLEAN that the provers need not look into.
Flags == BOOLEAN
Recorders == [pending : Seq(Flags), task : {"asleep", "persisting", "ended"},
              wake : Flags, closed : Flags]

Types ==
    /\ generation \in 0..MaxTurns /\ accepted \in 0..generation
    /\ turn \in [Turns -> TurnStates]
    /\ lock \in 0..MaxTurns
    /\ writes \in [Sequences -> {"none", "running", "stored", "failed"}]
    /\ saves \in Nat /\ orphans \in Nat /\ faults \in Nat
    /\ published \subseteq Turns
    /\ phase \in {"up", "failing", "closing", "down", "closed", "stopped"}
    /\ recorder \in Recorders

-----------------------------------------------------------------------------
(* The inductive invariant                                                   *)

\* The actor has cancelled the turns.
Cancelled == phase \in {"down", "closed", "stopped"}

\* Cancelled turns do nothing more and hold no lock.
CancelledAreOver == Cancelled => lock = 0 /\ \A t \in Turns : turn[t].pc \in {"new", "over"}

\* Behind the drain there is no worker, and the recorder takes nothing any more.
ClosedIsDrained == phase \in {"closed", "stopped"} => WorkersDrained /\ recorder.closed

\* The recorder's task ends only when it is closed and empty; stop() waits for it.
RecorderEnds ==
    /\ recorder.task = "ended" => recorder.closed /\ recorder.pending = <<>>
    /\ phase = "stopped" => recorder.task = "ended"

\* A turn has a task once the actor has handled it, in the order of the turns.
AcceptedHaveTasks == \A t \in Turns : turn[t].pc = "new" <=> t > accepted

\* registration_lock is held from before the publication until the write is registered.
LockHeld == \A t \in Turns : lock = t <=> turn[t].pc \in {"publishing", "committed"}

\* A user message is written from the moment its turn is accepted.
UserWrites == \A t \in Turns : writes[2 * t - 1] /= "none" <=> t <= accepted

\* An utterance is written if it was published, and a published one is, except between the
\* publication and the registration.
UtteranceWrites ==
    \A t \in Turns :
        /\ writes[2 * t] /= "none" \/ turn[t].pc = "committed" => t \in published
        /\ t \in published => \/ writes[2 * t] /= "none"
                              \/ turn[t].pc = "committed"
                              \/ Cancelled

\* A turn that has collected the older writes waits for those under way, and no older turn
\* has anything left to register.
Collected(t) == turn[t].pc \in {"waiting", "reading", "recalling"}

PriorsKnown ==
    \A t \in Turns : Collected(t) =>
        /\ \A s \in Sequences : s < 2 * t - 1 /\ writes[s] = "running" =>
              turn[t].pc = "waiting" /\ s \in turn[t].prior
        /\ \A u \in Turns : u < t => turn[u].pc /= "committed"

\* The messages before turn t that its client saw and whose write did not fail.
ConversationSet(t) ==
    {s \in Sequences :
        /\ s < 2 * t - 1 /\ writes[s] /= "failed"
        /\ IF s % 2 = 1 THEN (s + 1) \div 2 <= accepted ELSE s \div 2 \in published}

\* What list_recent_before gave a turn is the newest part of the conversation its client saw:
\* neither a write still under way nor a published utterance not yet registered is missing
\* (load_recent_history and registration_lock in conversation_storage.py).
RecallsConversation ==
    \A t \in Turns : turn[t].pc = "recalling" =>
        turn[t].history = Newest(Conversation(t), FetchLimit)

IInv ==
    /\ Types /\ CancelledAreOver /\ ClosedIsDrained /\ RecorderEnds
    /\ AcceptedHaveTasks /\ LockHeld /\ UserWrites /\ UtteranceWrites
    /\ PriorsKnown /\ RecallsConversation

-----------------------------------------------------------------------------
(* The operators                                                             *)

USE DEF session

LEMMA FlagValues == TRUE \in Flags /\ FALSE \in Flags
  BY DEF Flags

LEMMA LeastNumber ==
    ASSUME NEW T, T \subseteq Nat, T /= {}
    PROVE  \E x \in T : \A y \in T : x <= y
  <1>1. PICK x \in T : \A y \in T : <<y, x>> \notin OpToRel(<, Nat)
    BY NatLessThanWellFounded, WFMin
  <1>2. \A y \in T : ~(y < x)
    BY <1>1 DEF OpToRel
  <1> QED BY <1>2

\* observe keeps the recorder a recorder, and does nothing to one that is closed.
LEMMA ObserveFacts ==
    ASSUME NEW r \in Recorders, NEW d \in Flags
    PROVE  /\ Observe(r, d) \in Recorders
           /\ Observe(r, d).closed = r.closed /\ Observe(r, d).task = r.task
           /\ r.closed => Observe(r, d) = r
  <1> DEFINE oldest == CHOOSE k \in Displaceable(r.pending) :
                           \A j \in Displaceable(r.pending) : k <= j
             queued(pending) == [r EXCEPT !.pending = Append(pending, d), !.wake = TRUE]
  <1>1. ASSUME NEW pending \in Seq(Flags)
        PROVE  /\ queued(pending) \in Recorders
               /\ queued(pending).closed = r.closed /\ queued(pending).task = r.task
    <2>1. Append(pending, d) \in Seq(Flags)
      OBVIOUS
    <2> QED BY <2>1, FlagValues DEF Recorders
  <1>2. r.pending \in Seq(Flags)
    BY DEF Recorders
  <1>3. Displaceable(r.pending) /= {} => RemoveAt(r.pending, oldest) \in Seq(Flags)
    <2> SUFFICES ASSUME Displaceable(r.pending) /= {} PROVE RemoveAt(r.pending, oldest) \in Seq(Flags)
      OBVIOUS
    <2>1. Displaceable(r.pending) \subseteq 1..Len(r.pending) /\ Len(r.pending) \in Nat
      BY <1>2 DEF Displaceable
    <2>2. Displaceable(r.pending) \subseteq Nat
      BY <2>1
    <2>3. \E k \in Displaceable(r.pending) : \A j \in Displaceable(r.pending) : k <= j
      BY <2>2, LeastNumber
    <2>4. oldest \in Displaceable(r.pending)
      BY <2>3
    <2> HIDE DEF oldest
    <2>5. oldest \in 1..Len(r.pending)
      BY <2>1, <2>4
    <2>6. /\ SubSeq(r.pending, 1, oldest - 1) \in Seq(Flags)
          /\ SubSeq(r.pending, oldest + 1, Len(r.pending)) \in Seq(Flags)
      BY <1>2, <2>1, <2>5, SubSeqProperties
    <2> QED BY <2>6, ConcatProperties DEF RemoveAt
  <1> QED BY <1>1, <1>2, <1>3 DEF Observe

\* _run keeps it one, and ends only closed and empty.
LEMMA LooksFacts ==
    ASSUME NEW r \in Recorders
    PROVE  /\ Looks(r) \in Recorders
           /\ Looks(r).closed = r.closed
           /\ Looks(r).task = "ended" /\ r.task /= "ended" => r.closed /\ Looks(r).pending = <<>>
  <1>1. r.pending \in Seq(Flags)
    BY DEF Recorders
  <1>2. r.pending /= <<>> => Tail(r.pending) \in Seq(Flags)
    BY <1>1
  <1> QED BY <1>1, <1>2, FlagValues DEF Looks, Recorders

\* A sequence number is that of a user message or of an utterance, of one turn.
LEMMA Numbers ==
    ASSUME NEW s \in Sequences
    PROVE  \/ \E u \in Turns : s = 2 * u - 1 /\ s % 2 = 1 /\ (s + 1) \div 2 = u
           \/ \E u \in Turns : s = 2 * u /\ s % 2 = 0 /\ s \div 2 = u
  BY ConversationAssumption DEF Sequences, Turns

\* The recorder's part of the invariant.
GoodRecorder(r) ==
    r \in Recorders /\ (r.task = "ended" => r.closed /\ r.pending = <<>>)

LEMMA PublishKeepsRecorder ==
    ASSUME IInv, NEW t \in Turns, Publishes(t, TRUE)
    PROVE  GoodRecorder(recorder') /\ recorder'.closed = recorder.closed
  <1>1. GoodRecorder(recorder)
    BY DEF IInv, Types, RecorderEnds, GoodRecorder, Recorders
  <1>2. recorder' = Observe(recorder, TRUE) \/ recorder' = recorder
    BY DEF Publishes
  <1>3. /\ Observe(recorder, TRUE) \in Recorders
        /\ Observe(recorder, TRUE).closed = recorder.closed
        /\ Observe(recorder, TRUE).task = recorder.task
        /\ recorder.closed => Observe(recorder, TRUE) = recorder
    BY <1>1, ObserveFacts, FlagValues DEF GoodRecorder
  <1> QED BY <1>1, <1>2, <1>3 DEF GoodRecorder

LEMMA ObservedRecorder ==
    ASSUME IInv, recorder' = Observe(recorder, FALSE)
    PROVE  GoodRecorder(recorder')
  <1>1. /\ Observe(recorder, FALSE) \in Recorders
        /\ Observe(recorder, FALSE).closed = recorder.closed
        /\ Observe(recorder, FALSE).task = recorder.task
        /\ recorder.closed => Observe(recorder, FALSE) = recorder
    BY ObserveFacts, FlagValues DEF IInv, Types
  <1> QED BY <1>1 DEF IInv, RecorderEnds, GoodRecorder

-----------------------------------------------------------------------------
(* The conversation before a turn does not change once the turn has read it  *)

LEMMA ConversationIsSorted ==
    ASSUME NEW t \in Turns PROVE Conversation(t) = InOrder(ConversationSet(t))
  BY DEF Conversation, ConversationSet

LEMMA ConversationStable ==
    ASSUME Types, Types', NEW t \in Turns, t <= accepted, accepted <= accepted',
           \A s \in Sequences : s < 2 * t - 1 => (writes'[s] = "failed" <=> writes[s] = "failed"),
           \A u \in Turns : u < t => (u \in published' <=> u \in published)
    PROVE  Conversation(t)' = Conversation(t)
  <1>1. ASSUME NEW s \in Sequences, s < 2 * t - 1
        PROVE  s \in ConversationSet(t)' <=> s \in ConversationSet(t)
    <2>1. CASE \E u \in Turns : s = 2 * u - 1 /\ s % 2 = 1 /\ (s + 1) \div 2 = u
      <3>1. PICK u \in Turns : s = 2 * u - 1 /\ s % 2 = 1 /\ (s + 1) \div 2 = u
        BY <2>1
      <3>2. u <= accepted /\ u <= accepted'
        BY <1>1, <3>1 DEF Types, Turns
      <3> QED BY <1>1, <3>1, <3>2 DEF ConversationSet
    <2>2. CASE \E u \in Turns : s = 2 * u /\ s % 2 = 0 /\ s \div 2 = u
      <3>1. PICK u \in Turns : s = 2 * u /\ s % 2 = 0 /\ s \div 2 = u
        BY <2>2
      <3>2. u < t
        BY <1>1, <3>1 DEF Turns
      <3> QED BY <1>1, <3>1, <3>2 DEF ConversationSet
    <2> QED BY <2>1, <2>2, Numbers
  <1>2. ConversationSet(t)' = ConversationSet(t)
    BY <1>1 DEF ConversationSet
  <1>3. Conversation(t)' = InOrder(ConversationSet(t)')
    BY DEF Conversation, ConversationSet
  <1> QED BY <1>2, <1>3, ConversationIsSorted

\* When a turn reads, the stored messages before it are exactly its conversation.
LEMMA StoredIsConversation ==
    ASSUME IInv, NEW t \in Turns, turn[t].pc = "reading"
    PROVE  StoredBefore(t) = Conversation(t)
  <1>1. ~Cancelled /\ t <= accepted /\ accepted \in Nat
    BY DEF IInv, CancelledAreOver, AcceptedHaveTasks, Types, Turns
  <1>2. ASSUME NEW s \in Sequences, s < 2 * t - 1
        PROVE  writes[s] = "stored" <=> s \in ConversationSet(t)
    <2>1. writes[s] /= "running" /\ writes[s] \in {"none", "running", "stored", "failed"}
      BY <1>2 DEF IInv, PriorsKnown, Collected, Types
    <2>2. CASE \E u \in Turns : s = 2 * u - 1 /\ s % 2 = 1 /\ (s + 1) \div 2 = u
      <3>1. PICK u \in Turns : s = 2 * u - 1 /\ s % 2 = 1 /\ (s + 1) \div 2 = u
        BY <2>2
      <3>2. writes[s] /= "none" /\ u <= accepted
        BY <1>1, <1>2, <3>1 DEF IInv, UserWrites, Turns
      <3> QED BY <1>2, <2>1, <3>1, <3>2 DEF ConversationSet
    <2>3. CASE \E u \in Turns : s = 2 * u /\ s % 2 = 0 /\ s \div 2 = u
      <3>1. PICK u \in Turns : s = 2 * u /\ s % 2 = 0 /\ s \div 2 = u
        BY <2>3
      <3>2. u < t /\ turn[u].pc /= "committed"
        BY <1>2, <3>1 DEF IInv, PriorsKnown, Collected, Turns
      <3>3. writes[s] /= "none" <=> u \in published
        BY <1>1, <3>1, <3>2 DEF IInv, UtteranceWrites
      <3> QED BY <1>2, <2>1, <3>1, <3>3 DEF ConversationSet
    <2> QED BY <2>2, <2>3, Numbers
  <1>3. {s \in Sequences : s < 2 * t - 1 /\ writes[s] = "stored"} = ConversationSet(t)
    BY <1>2 DEF ConversationSet
  <1> QED BY <1>3, ConversationIsSorted DEF StoredBefore

-----------------------------------------------------------------------------
(* Steps of a turn that takes no part in a publication                       *)

LEMMA TurnMoves ==
    ASSUME IInv, NEW t \in Turns, NEW new \in TurnStates,
           turn' = [turn EXCEPT ![t] = new],
           turn[t].pc \notin {"new", "over", "publishing", "committed"},
           new.pc \notin {"new", "publishing", "committed"},
           UNCHANGED <<generation, accepted, lock, writes, published, phase>>,
           saves' \in Nat, orphans' \in Nat, faults' \in Nat, GoodRecorder(recorder'),
           new.pc \in {"waiting", "reading", "recalling"} =>
               /\ \A s \in Sequences : s < 2 * t - 1 /\ writes[s] = "running" =>
                     new.pc = "waiting" /\ s \in new.prior
               /\ \A u \in Turns : u < t => turn[u].pc /= "committed",
           new.pc = "recalling" => new.history = Newest(Conversation(t), FetchLimit)
    PROVE  IInv'
  <1>1. Types'
    BY DEF IInv, Types, GoodRecorder
  <1>2. turn'[t] = new /\ \A u \in Turns : u /= t => turn'[u] = turn[u]
    BY DEF IInv, Types
  <1>3. ~Cancelled
    BY DEF IInv, CancelledAreOver
  <1>4. (CancelledAreOver /\ ClosedIsDrained)'
    BY <1>3 DEF CancelledAreOver, ClosedIsDrained, Cancelled
  <1>5. RecorderEnds'
    BY <1>3 DEF RecorderEnds, GoodRecorder, Cancelled
  <1>6. (AcceptedHaveTasks /\ LockHeld)'
    BY <1>2 DEF IInv, AcceptedHaveTasks, LockHeld
  <1>7. (UserWrites /\ UtteranceWrites)'
    BY <1>2 DEF IInv, UserWrites, UtteranceWrites, Cancelled
  <1>8. PriorsKnown'
    BY <1>2 DEF IInv, PriorsKnown, Collected
  <1>9. \A u \in Turns : Conversation(u)' = Conversation(u)
    BY DEF Conversation
  <1>10. RecallsConversation'
    BY <1>2, <1>9 DEF IInv, RecallsConversation
  <1> QED BY <1>1, <1>4, <1>5, <1>6, <1>7, <1>8, <1>10 DEF IInv

LEMMA SameRecorder ==
    ASSUME IInv, UNCHANGED recorder PROVE GoodRecorder(recorder')
  BY DEF IInv, Types, RecorderEnds, GoodRecorder

LEMMA OverIsState == Over \in TurnStates /\ Over.pc = "over"
  BY DEF Over, Idle, TurnStates, Pcs, Histories

LEMMA CollectIInv ==
    ASSUME IInv, NEW t \in Turns, CollectPriorWrites(t)
    PROVE  IInv'
  <1> DEFINE pc == IF PriorWrites(t) = {} THEN "reading" ELSE "waiting"
             new == [turn[t] EXCEPT !.pc = pc, !.prior = PriorWrites(t)]
  <1>1. /\ turn[t].pc = "locking" /\ lock = 0
        /\ turn' = [turn EXCEPT ![t].pc = pc, ![t].prior = PriorWrites(t)]
        /\ UNCHANGED <<generation, accepted, lock, workers, published, phase, recorder>>
    BY DEF CollectPriorWrites, Collects, LockFree
  <1>2. turn[t] \in TurnStates /\ PriorWrites(t) \in SUBSET Sequences
    BY DEF IInv, Types, PriorWrites
  <1>3. new \in TurnStates /\ new.pc = pc /\ new.prior = PriorWrites(t)
    BY <1>2 DEF TurnStates, Pcs
  <1>4. turn' = [turn EXCEPT ![t] = new]
    BY <1>1, <1>2 DEF IInv, Types, TurnStates
  <1>5. \A u \in Turns : turn[u].pc /= "committed"
    BY <1>1 DEF IInv, LockHeld, Turns
  <1> HIDE DEF new
  <1>6. \A s \in Sequences : s < 2 * t - 1 /\ writes[s] = "running" =>
            pc = "waiting" /\ s \in PriorWrites(t)
    BY DEF PriorWrites
  <1>7. saves' \in Nat /\ orphans' \in Nat /\ faults' \in Nat
    BY <1>1 DEF IInv, Types, workers
  <1>8. pc \in {"reading", "waiting"}
    OBVIOUS
  <1> HIDE DEF pc
  <1>9. \A s \in Sequences : s < 2 * t - 1 /\ writes[s] = "running" =>
            new.pc = "waiting" /\ s \in new.prior
    BY <1>3, <1>6
  <1>10. UNCHANGED <<generation, accepted, lock, writes, published, phase, recorder>>
    BY <1>1 DEF workers
  <1> QED BY <1>1, <1>3, <1>4, <1>5, <1>7, <1>8, <1>9, <1>10, TurnMoves, SameRecorder

LEMMA PriorWritesDoneIInv ==
    ASSUME IInv, NEW t \in Turns, PriorWritesDone(t)
    PROVE  IInv'
  <1> DEFINE new == [turn[t] EXCEPT !.pc = "reading", !.prior = {}]
  <1>1. /\ turn[t].pc = "waiting" /\ \A s \in turn[t].prior : writes[s] /= "running"
        /\ turn' = [turn EXCEPT ![t].pc = "reading", ![t].prior = {}]
        /\ UNCHANGED <<generation, accepted, lock, workers, published, phase, recorder>>
    BY DEF PriorWritesDone
  <1>2. turn[t] \in TurnStates
    BY DEF IInv, Types
  <1>3. new \in TurnStates /\ new.pc = "reading"
    BY <1>2 DEF TurnStates, Pcs
  <1>4. turn' = [turn EXCEPT ![t] = new]
    BY <1>1, <1>2 DEF IInv, Types, TurnStates
  <1> HIDE DEF new
  <1>5. /\ \A s \in Sequences : s < 2 * t - 1 => writes[s] /= "running"
        /\ \A u \in Turns : u < t => turn[u].pc /= "committed"
    BY <1>1 DEF IInv, PriorsKnown, Collected
  <1>6. saves' \in Nat /\ orphans' \in Nat /\ faults' \in Nat
    BY <1>1 DEF IInv, Types, workers
  <1> QED BY <1>1, <1>3, <1>4, <1>5, <1>6, TurnMoves, SameRecorder DEF workers

LEMMA ReadArrivesIInv ==
    ASSUME IInv, NEW t \in Turns, ReadArrives(t)
    PROVE  IInv'
  <1> DEFINE found == Newest(StoredBefore(t), FetchLimit)
             new == [pc |-> "recalling", prior |-> {}, history |-> found]
  <1>1. /\ turn[t].pc = "reading" /\ turn' = [turn EXCEPT ![t] = new]
        /\ saves' = saves + 1
        /\ UNCHANGED <<generation, accepted, lock, writes, faults, published, phase, recorder,
                       orphans>>
    BY DEF ReadArrives, GoesOn
  <1>2. found \in Histories
    BY DEF StoredBefore, Histories
  <1>3. new \in TurnStates /\ new.pc = "recalling" /\ new.history = found
    BY <1>2 DEF TurnStates, Pcs
  <1>4. found = Newest(Conversation(t), FetchLimit)
    BY <1>1, StoredIsConversation
  <1> HIDE DEF new, found
  <1>5. /\ \A s \in Sequences : s < 2 * t - 1 => writes[s] /= "running"
        /\ \A u \in Turns : u < t => turn[u].pc /= "committed"
    BY <1>1 DEF IInv, PriorsKnown, Collected
  <1>6. saves' \in Nat /\ orphans' \in Nat /\ faults' \in Nat
    BY <1>1 DEF IInv, Types
  <1> QED BY <1>1, <1>3, <1>4, <1>5, <1>6, TurnMoves, SameRecorder

LEMMA HistoryTimesOutIInv ==
    ASSUME IInv, NEW t \in Turns, HistoryTimesOut(t)
    PROVE  IInv'
  <1> DEFINE new == [pc |-> "speaking", prior |-> {}, history |-> <<>>]
  <1>1. /\ turn[t].pc \in {"waiting", "reading"} /\ turn' = [turn EXCEPT ![t] = new]
        /\ saves' = saves + 1 /\ orphans' \in {orphans, orphans + 1}
        /\ UNCHANGED <<generation, accepted, lock, writes, faults, published, phase, recorder>>
    BY DEF HistoryTimesOut, GoesOn
  <1>2. new \in TurnStates /\ new.pc = "speaking"
    BY DEF TurnStates, Pcs, Histories
  <1> HIDE DEF new
  <1>3. saves' \in Nat /\ orphans' \in Nat /\ faults' \in Nat
    BY <1>1 DEF IInv, Types
  <1> QED BY <1>1, <1>2, <1>3, TurnMoves, SameRecorder

LEMMA TurnEndsIInv ==
    ASSUME IInv, NEW t \in Turns, ReadRaises(t) \/ GivesUp(t)
    PROVE  IInv'
  <1>1. /\ turn[t].pc \in {"reading", "speaking", "recalling"}
        /\ turn' = [turn EXCEPT ![t] = Over] /\ Publishes(t, TRUE)
        /\ faults' \in {faults, faults + 1}
        /\ UNCHANGED <<generation, accepted, lock, writes, saves, orphans, published, phase>>
    BY DEF ReadRaises, GivesUp, Ends, Speaking, Faulty, workers
  <1>2. saves' \in Nat /\ orphans' \in Nat /\ faults' \in Nat
    BY <1>1 DEF IInv, Types
  <1>3. GoodRecorder(recorder')
    BY <1>1, PublishKeepsRecorder
  <1> QED BY <1>1, <1>2, <1>3, OverIsState, TurnMoves

-----------------------------------------------------------------------------
(* The publication of an utterance, under registration_lock                  *)

\* A turn that takes the lock or has it returned without a publication.
LEMMA TakesLockIInv ==
    ASSUME IInv, NEW t \in Turns, TakesLock(t)
    PROVE  IInv'
  <1>1. /\ turn[t].pc \in {"speaking", "recalling"} /\ lock = 0 /\ lock' = t
        /\ turn' = [turn EXCEPT ![t].pc = "publishing"]
        /\ UNCHANGED <<generation, accepted, writes, saves, orphans, faults, published, phase,
                       recorder>>
    BY DEF TakesLock, Speaking, LockFree, Goto, workers
  <1>2. turn'[t].pc = "publishing" /\ \A u \in Turns : u /= t => turn'[u] = turn[u]
    BY <1>1 DEF IInv, Types, TurnStates
  <1>3. Types'
    BY <1>1 DEF IInv, Types, TurnStates, Pcs, Turns
  <1>4. ~Cancelled
    BY <1>1 DEF IInv, CancelledAreOver
  <1>5. (CancelledAreOver /\ ClosedIsDrained /\ RecorderEnds)'
    BY <1>1, <1>4 DEF IInv, CancelledAreOver, ClosedIsDrained, RecorderEnds, Cancelled
  <1>6. AcceptedHaveTasks'
    BY <1>1, <1>2 DEF IInv, AcceptedHaveTasks
  <1>7. LockHeld'
    BY <1>1, <1>2 DEF IInv, LockHeld, Turns
  <1>8. (UserWrites /\ UtteranceWrites)'
    BY <1>1, <1>2 DEF IInv, UserWrites, UtteranceWrites, Cancelled
  <1>9. PriorsKnown'
    BY <1>1, <1>2 DEF IInv, PriorsKnown, Collected
  <1>10. \A u \in Turns : Conversation(u)' = Conversation(u)
    BY <1>1 DEF Conversation
  <1>11. RecallsConversation'
    BY <1>2, <1>10 DEF IInv, RecallsConversation
  <1> QED BY <1>3, <1>5, <1>6, <1>7, <1>8, <1>9, <1>11 DEF IInv

\* A turn publishes only while it is the newest: no younger turn has collected anything.
LEMMA PublishCommitsIInv ==
    ASSUME IInv, NEW t \in Turns, PublishCommits(t)
    PROVE  IInv'
  <1>1. /\ turn[t].pc = "publishing" /\ phase \in {"up", "failing"} /\ t = generation
        /\ published' = published \cup {t}
        /\ turn' = [turn EXCEPT ![t].pc = "committed"]
        /\ UNCHANGED <<generation, accepted, lock, writes, saves, orphans, faults, phase,
                       recorder>>
    BY DEF PublishCommits, Current, Live, Goto, workers
  <1>2. turn'[t].pc = "committed" /\ \A u \in Turns : u /= t => turn'[u] = turn[u]
    BY <1>1 DEF IInv, Types, TurnStates
  <1>3. Types'
    BY <1>1 DEF IInv, Types, TurnStates, Pcs
  <1>4. (CancelledAreOver /\ ClosedIsDrained /\ RecorderEnds)'
    BY <1>1 DEF IInv, CancelledAreOver, ClosedIsDrained, RecorderEnds, Cancelled
  <1>5. (AcceptedHaveTasks /\ LockHeld)'
    BY <1>1, <1>2 DEF IInv, AcceptedHaveTasks, LockHeld
  <1>6. (UserWrites /\ UtteranceWrites)'
    BY <1>1, <1>2 DEF IInv, UserWrites, UtteranceWrites, Cancelled
  <1>7. \A u \in Turns : turn[u].pc /= "new" => u <= accepted /\ u <= t
    BY <1>1 DEF IInv, AcceptedHaveTasks, Types, Turns
  <1>8. PriorsKnown'
    BY <1>1, <1>2, <1>7 DEF IInv, PriorsKnown, Collected, Turns
  <1>9. ASSUME NEW u \in Turns, turn[u].pc = "recalling" PROVE Conversation(u)' = Conversation(u)
    <2>1. u <= accepted /\ u <= t
      BY <1>7, <1>9
    <2>2. accepted <= accepted'
      BY <1>1 DEF IInv, Types
    <2> QED BY <1>1, <1>3, <2>1, <2>2, ConversationStable DEF IInv, Turns
  <1>10. RecallsConversation'
    BY <1>2, <1>9 DEF IInv, RecallsConversation
  <1> QED BY <1>3, <1>4, <1>5, <1>6, <1>8, <1>10 DEF IInv

LEMMA RegistersIInv ==
    ASSUME IInv, NEW t \in Turns, Registers(t)
    PROVE  IInv'
  <1>1. /\ turn[t].pc = "committed" /\ recorder' = Observe(recorder, FALSE)
        /\ writes' = [writes EXCEPT ![2 * t] = "running"]
        /\ lock' = 0 /\ turn' = [turn EXCEPT ![t] = Over]
        /\ UNCHANGED <<generation, accepted, saves, orphans, faults, published, phase>>
    BY DEF Registers, Ends
  <1>2. /\ turn'[t].pc = "over" /\ \A u \in Turns : u /= t => turn'[u] = turn[u]
        /\ turn' \in [Turns -> TurnStates]
    BY <1>1, OverIsState DEF IInv, Types
  <1>3. ~Cancelled /\ lock = t /\ t <= accepted
    BY <1>1 DEF IInv, CancelledAreOver, LockHeld, AcceptedHaveTasks, Types, Turns
  <1>4. /\ 2 * t \in Sequences /\ \A u \in Turns : 2 * u - 1 \in Sequences /\ 2 * u - 1 /= 2 * t
    BY ConversationAssumption DEF Sequences, Turns
  <1>5. /\ writes'[2 * t] = "running"
        /\ \A s \in Sequences : s /= 2 * t => writes'[s] = writes[s]
    BY <1>1, <1>4 DEF IInv, Types
  <1>6. GoodRecorder(recorder')
    BY <1>1, ObservedRecorder
  <1>7. Types'
    <2>1. writes' \in [Sequences -> {"none", "running", "stored", "failed"}]
      BY <1>1, <1>4 DEF IInv, Types
    <2>2. lock' \in 0..MaxTurns
      BY <1>1, ConversationAssumption
    <2> QED BY <1>1, <1>2, <1>6, <2>1, <2>2 DEF IInv, Types, GoodRecorder
  <1>8. (CancelledAreOver /\ ClosedIsDrained /\ RecorderEnds)'
    BY <1>1, <1>3, <1>6
    DEF IInv, CancelledAreOver, ClosedIsDrained, RecorderEnds, GoodRecorder, Cancelled
  <1>9. AcceptedHaveTasks'
    BY <1>1, <1>2 DEF IInv, AcceptedHaveTasks
  <1>10. LockHeld'
    BY <1>1, <1>2, <1>3 DEF IInv, LockHeld, Turns
  <1>11. UserWrites'
    BY <1>1, <1>4, <1>5 DEF IInv, UserWrites
  <1>12. UtteranceWrites'
    <2>1. \A u \in Turns : 2 * u \in Sequences /\ (2 * u = 2 * t => u = t)
      BY ConversationAssumption DEF Sequences, Turns
    <2>2. t \in published
      BY <1>1 DEF IInv, UtteranceWrites
    <2> QED BY <1>1, <1>2, <1>5, <2>1, <2>2 DEF IInv, UtteranceWrites, Cancelled
  <1>13. \A u \in Turns : Collected(u) => 2 * t > 2 * u - 1
    BY <1>1 DEF IInv, PriorsKnown, Turns
  <1>a. \A u \in Turns, s \in Sequences : Collected(u) /\ s < 2 * u - 1 => writes'[s] = writes[s]
    BY <1>5, <1>13 DEF Sequences, Turns
  <1>14. PriorsKnown'
    BY <1>1, <1>2, <1>a DEF IInv, PriorsKnown, Collected
  <1>15. ASSUME NEW u \in Turns, turn[u].pc = "recalling" PROVE Conversation(u)' = Conversation(u)
    <2>1. u <= accepted /\ accepted <= accepted'
      BY <1>1, <1>15 DEF IInv, AcceptedHaveTasks, Types, Turns
    <2>2. \A s \in Sequences : s < 2 * u - 1 => writes'[s] = writes[s]
      BY <1>a, <1>15 DEF Collected
    <2> QED BY <1>1, <1>7, <2>1, <2>2, ConversationStable DEF IInv
  <1>16. RecallsConversation'
    BY <1>2, <1>15 DEF IInv, RecallsConversation
  <1> QED BY <1>7, <1>8, <1>9, <1>10, <1>11, <1>12, <1>14, <1>16 DEF IInv

LEMMA PublishRefusedIInv ==
    ASSUME IInv, NEW t \in Turns, PublishRefused(t)
    PROVE  IInv'
  <1>1. /\ turn[t].pc = "publishing" /\ lock' = 0 /\ turn' = [turn EXCEPT ![t] = Over]
        /\ UNCHANGED <<generation, accepted, writes, saves, orphans, faults, published, phase,
                       recorder>>
    BY DEF PublishRefused, Ends, workers
  <1>2. /\ turn'[t].pc = "over" /\ \A u \in Turns : u /= t => turn'[u] = turn[u]
        /\ turn' \in [Turns -> TurnStates]
    BY <1>1, OverIsState DEF IInv, Types
  <1>3. ~Cancelled /\ lock = t
    BY <1>1 DEF IInv, CancelledAreOver, LockHeld
  <1>4. Types'
    <2>1. lock' \in 0..MaxTurns
      BY <1>1, ConversationAssumption
    <2> QED BY <1>1, <1>2, <2>1 DEF IInv, Types
  <1>5. (CancelledAreOver /\ ClosedIsDrained /\ RecorderEnds)'
    BY <1>1, <1>3 DEF IInv, CancelledAreOver, ClosedIsDrained, RecorderEnds, Cancelled
  <1>6. AcceptedHaveTasks'
    BY <1>1, <1>2 DEF IInv, AcceptedHaveTasks
  <1>7. LockHeld'
    BY <1>1, <1>2, <1>3 DEF IInv, LockHeld, Turns
  <1>8. (UserWrites /\ UtteranceWrites)'
    BY <1>1, <1>2 DEF IInv, UserWrites, UtteranceWrites, Cancelled
  <1>9. PriorsKnown'
    BY <1>1, <1>2 DEF IInv, PriorsKnown, Collected
  <1>10. \A u \in Turns : Conversation(u)' = Conversation(u)
    BY <1>1 DEF Conversation
  <1>11. RecallsConversation'
    BY <1>2, <1>10 DEF IInv, RecallsConversation
  <1> QED BY <1>4, <1>5, <1>6, <1>7, <1>8, <1>9, <1>11 DEF IInv

-----------------------------------------------------------------------------
(* The client, the workers and the stop                                      *)

LEMMA AcceptIInv ==
    ASSUME IInv, Accept
    PROVE  IInv'
  <1> DEFINE t == accepted + 1
  <1>1. /\ phase \in {"up", "failing"} /\ accepted < generation /\ accepted' = t
        /\ writes' = [writes EXCEPT ![2 * t - 1] = "running"]
        /\ Publishes(t, TRUE) /\ turn' = [turn EXCEPT ![t].pc = "locking"]
        /\ UNCHANGED <<generation, lock, saves, orphans, faults, published, phase>>
    BY DEF Accept, Live, Goto
  <1>2. /\ accepted \in Nat /\ t \in Turns /\ 2 * t - 1 \in Sequences /\ t \in 0..generation
        /\ turn[t].pc = "new"
    <2>1. accepted \in Nat /\ generation \in Nat /\ generation <= MaxTurns
      BY ConversationAssumption DEF IInv, Types
    <2>2. t \in Turns /\ 2 * t - 1 \in Sequences /\ t \in 0..generation
      BY <1>1, <2>1, ConversationAssumption DEF Turns, Sequences
    <2> QED BY <2>1, <2>2 DEF IInv, AcceptedHaveTasks
  <1> HIDE DEF t
  <1>3. /\ turn'[t].pc = "locking" /\ \A u \in Turns : u /= t => turn'[u] = turn[u]
        /\ turn' \in [Turns -> TurnStates]
    BY <1>1, <1>2 DEF IInv, Types, TurnStates, Pcs
  <1>4. /\ writes'[2 * t - 1] = "running"
        /\ \A s \in Sequences : s /= 2 * t - 1 => writes'[s] = writes[s]
        /\ writes' \in [Sequences -> {"none", "running", "stored", "failed"}]
    BY <1>1, <1>2 DEF IInv, Types
  <1>5. GoodRecorder(recorder')
    BY <1>1, <1>2, PublishKeepsRecorder
  <1>6. Types'
    BY <1>1, <1>2, <1>3, <1>4, <1>5 DEF IInv, Types, GoodRecorder
  <1>7. (CancelledAreOver /\ ClosedIsDrained /\ RecorderEnds)'
    BY <1>1, <1>5 DEF CancelledAreOver, ClosedIsDrained, RecorderEnds, GoodRecorder, Cancelled
  <1>8. AcceptedHaveTasks'
    BY <1>1, <1>2, <1>3 DEF IInv, AcceptedHaveTasks, Turns, t
  <1>9. LockHeld'
    BY <1>1, <1>2, <1>3 DEF IInv, LockHeld
  <1>10. \A u \in Turns : /\ 2 * u \in Sequences /\ 2 * u /= 2 * t - 1
                          /\ 2 * u - 1 \in Sequences /\ (2 * u - 1 = 2 * t - 1 => u = t)
                          /\ (u /= t => (u <= t <=> u <= accepted))
    BY <1>2, ConversationAssumption DEF Turns, Sequences, t
  <1>11. UserWrites'
    BY <1>1, <1>2, <1>4, <1>10 DEF IInv, UserWrites
  <1>12. UtteranceWrites'
    BY <1>1, <1>2, <1>3, <1>4, <1>10 DEF IInv, UtteranceWrites, Cancelled
  <1>13. \A u \in Turns : turn[u].pc /= "new" => u <= accepted /\ u < t
    BY <1>2 DEF IInv, AcceptedHaveTasks, Turns, t
  <1>14. \A u \in Turns, s \in Sequences :
            turn[u].pc /= "new" /\ s < 2 * u - 1 => writes'[s] = writes[s]
    BY <1>2, <1>4, <1>13 DEF Turns, Sequences
  <1>15. PriorsKnown'
    BY <1>1, <1>2, <1>3, <1>14 DEF IInv, PriorsKnown, Collected
  <1>16. ASSUME NEW u \in Turns, turn[u].pc = "recalling" PROVE Conversation(u)' = Conversation(u)
    <2>1. u <= accepted /\ accepted <= accepted'
      BY <1>1, <1>2, <1>13, <1>16 DEF t
    <2> QED BY <1>1, <1>6, <1>14, <1>16, <2>1, ConversationStable DEF IInv
  <1>17. RecallsConversation'
    BY <1>2, <1>3, <1>16 DEF IInv, RecallsConversation
  <1> QED BY <1>6, <1>7, <1>8, <1>9, <1>11, <1>12, <1>15, <1>17 DEF IInv

\* Steps that only move counters and the recorder, or begin the stop.
LEMMA QuietStep ==
    ASSUME IInv, UNCHANGED <<accepted, turn, lock, writes, published>>,
           generation' \in 0..MaxTurns, accepted <= generation',
           saves' \in Nat, orphans' \in Nat, faults' \in Nat, GoodRecorder(recorder'),
           \/ phase' = phase /\ phase \in {"up", "failing", "closing", "down"}
           \/ phase' = phase /\ saves' = 0 /\ orphans' = 0 /\ recorder'.closed
              /\ (phase = "stopped" => recorder'.task = "ended")
           \/ phase \in {"up", "failing"} /\ phase' \in {"failing", "closing"}
    PROVE  IInv'
  <1>1. Types'
    BY DEF IInv, Types, GoodRecorder
  <1>2. CancelledAreOver'
    BY DEF IInv, CancelledAreOver, Cancelled
  <1>3. (ClosedIsDrained /\ RecorderEnds)'
    BY DEF IInv, Types, ClosedIsDrained, RecorderEnds, GoodRecorder, WorkersDrained
  <1>4. (AcceptedHaveTasks /\ LockHeld /\ UserWrites)'
    BY DEF IInv, AcceptedHaveTasks, LockHeld, UserWrites
  <1>5. UtteranceWrites'
    BY DEF IInv, Types, UtteranceWrites, Cancelled
  <1>6. PriorsKnown'
    BY DEF IInv, PriorsKnown, Collected
  <1>7. \A u \in Turns : Conversation(u)' = Conversation(u)
    BY DEF Conversation
  <1>8. RecallsConversation'
    BY <1>7 DEF IInv, RecallsConversation
  <1> QED BY <1>1, <1>2, <1>3, <1>4, <1>5, <1>6, <1>8 DEF IInv

\* A write that ends is not one a turn still has to wait for, and it was registered.
LEMMA WriteEndsIInv ==
    ASSUME IInv, NEW s \in Sequences, WriteEnds(s)
    PROVE  IInv'
  <1>1. /\ writes[s] = "running"
        /\ \E result \in {"stored", "failed"} : writes' = [writes EXCEPT ![s] = result]
        /\ faults' \in {faults, faults + 1}
        /\ phase' = phase \/ (phase = "up" /\ phase' = "failing")
        /\ UNCHANGED <<generation, accepted, turn, lock, saves, orphans, published, recorder>>
    BY DEF WriteEnds, Faulty, ChildFails
  <1>2. /\ writes'[s] \in {"stored", "failed"}
        /\ \A r \in Sequences : r /= s => writes'[r] = writes[r]
        /\ writes' \in [Sequences -> {"none", "running", "stored", "failed"}]
    BY <1>1 DEF IInv, Types
  <1>3. Types'
    BY <1>1, <1>2 DEF IInv, Types
  <1>4. CancelledAreOver'
    BY <1>1 DEF IInv, CancelledAreOver, Cancelled
  <1>5. (ClosedIsDrained /\ RecorderEnds)'
    BY <1>1 DEF IInv, Types, ClosedIsDrained, RecorderEnds, WorkersDrained
  <1>6. (AcceptedHaveTasks /\ LockHeld)'
    BY <1>1 DEF IInv, AcceptedHaveTasks, LockHeld
  <1>7. \A r \in Sequences : /\ writes'[r] /= "none" <=> writes[r] /= "none"
                             /\ writes'[r] = "running" => writes[r] = "running"
    BY <1>1, <1>2
  <1>8. \A u \in Turns : 2 * u \in Sequences /\ 2 * u - 1 \in Sequences
    BY ConversationAssumption DEF Turns, Sequences
  <1>9. (UserWrites /\ UtteranceWrites)'
    BY <1>1, <1>7, <1>8 DEF IInv, Types, UserWrites, UtteranceWrites, Cancelled
  <1>10. PriorsKnown'
    BY <1>1, <1>7 DEF IInv, PriorsKnown, Collected
  <1>11. ASSUME NEW u \in Turns, turn[u].pc = "recalling" PROVE Conversation(u)' = Conversation(u)
    <2>1. u <= accepted /\ accepted <= accepted'
      BY <1>1, <1>11 DEF IInv, AcceptedHaveTasks, Types, Turns
    <2>2. \A r \in Sequences : r < 2 * u - 1 => writes'[r] = writes[r]
      BY <1>1, <1>2, <1>11 DEF IInv, PriorsKnown, Collected
    <2> QED BY <1>1, <1>3, <2>1, <2>2, ConversationStable DEF IInv
  <1>12. RecallsConversation'
    BY <1>1, <1>11 DEF IInv, RecallsConversation
  <1> QED BY <1>3, <1>4, <1>5, <1>6, <1>9, <1>10, <1>12 DEF IInv

LEMMA ChildrenCancelledIInv ==
    ASSUME IInv, ChildrenCancelled
    PROVE  IInv'
  <1>1. /\ phase = "closing" /\ phase' = "down" /\ lock' = 0
        /\ turn' = [t \in Turns |-> IF turn[t].pc = "new" THEN turn[t] ELSE Over]
        /\ orphans' = orphans + Cardinality({t \in Turns : turn[t].pc = "reading"})
        /\ UNCHANGED <<generation, accepted, writes, saves, faults, published, recorder>>
    BY DEF ChildrenCancelled
  <1>2. \A t \in Turns : /\ turn'[t].pc \in {"new", "over"}
                         /\ turn'[t].pc = "new" <=> turn[t].pc = "new"
    BY <1>1, OverIsState
  <1>3. Types'
    <2>1. IsFiniteSet(Turns)
      BY FS_Interval, ConversationAssumption DEF Turns
    <2>2. Cardinality({t \in Turns : turn[t].pc = "reading"}) \in Nat
      BY <2>1, FS_Subset, FS_CardinalityType
    <2>3. orphans' \in Nat
      BY <1>1, <2>2 DEF IInv, Types
    <2>4. turn' \in [Turns -> TurnStates]
      BY <1>1, OverIsState DEF IInv, Types
    <2>5. lock' \in 0..MaxTurns
      BY <1>1, ConversationAssumption
    <2> QED BY <1>1, <2>3, <2>4, <2>5 DEF IInv, Types
  <1>4. (CancelledAreOver /\ ClosedIsDrained /\ RecorderEnds)'
    BY <1>1, <1>2 DEF IInv, CancelledAreOver, ClosedIsDrained, RecorderEnds
  <1>5. (AcceptedHaveTasks /\ LockHeld)'
    BY <1>1, <1>2 DEF IInv, AcceptedHaveTasks, LockHeld, Turns
  <1>6. (UserWrites /\ UtteranceWrites)'
    BY <1>1, <1>2 DEF IInv, UserWrites, UtteranceWrites, Cancelled
  <1>7. (PriorsKnown /\ RecallsConversation)'
    BY <1>2 DEF PriorsKnown, Collected, RecallsConversation
  <1> QED BY <1>3, <1>4, <1>5, <1>6, <1>7 DEF IInv

LEMMA DrainedIInv ==
    ASSUME IInv, Drained
    PROVE  IInv'
  <1>1. /\ phase = "down" /\ WorkersDrained /\ phase' = "closed"
        /\ recorder' = Closed(recorder)
        /\ UNCHANGED <<generation, accepted, turn, lock, writes, saves, orphans, faults, published>>
    BY DEF Drained, workers
  <1>2. GoodRecorder(recorder') /\ recorder'.closed
    <2>1. Closed(recorder) \in Recorders /\ Closed(recorder).closed
          /\ Closed(recorder).task = recorder.task /\ Closed(recorder).pending = recorder.pending
      BY FlagValues DEF IInv, Types, Recorders, Closed
    <2> QED BY <1>1, <2>1 DEF IInv, RecorderEnds, GoodRecorder
  <1>3. Types'
    BY <1>1, <1>2 DEF IInv, Types, GoodRecorder
  <1>4. (CancelledAreOver /\ ClosedIsDrained /\ RecorderEnds)'
    BY <1>1, <1>2
    DEF IInv, CancelledAreOver, Cancelled, ClosedIsDrained, RecorderEnds, WorkersDrained, GoodRecorder
  <1>5. (AcceptedHaveTasks /\ LockHeld /\ UserWrites /\ UtteranceWrites)'
    BY <1>1 DEF IInv, AcceptedHaveTasks, LockHeld, UserWrites, UtteranceWrites, Cancelled
  <1>6. PriorsKnown'
    BY <1>1 DEF IInv, PriorsKnown, Collected
  <1>7. \A u \in Turns : Conversation(u)' = Conversation(u)
    BY <1>1 DEF Conversation
  <1>8. RecallsConversation'
    BY <1>1, <1>7 DEF IInv, RecallsConversation
  <1> QED BY <1>3, <1>4, <1>5, <1>6, <1>8 DEF IInv

LEMMA StopReturnsIInv ==
    ASSUME IInv, StopReturns
    PROVE  IInv'
  <1>1. /\ phase = "closed" /\ recorder.task = "ended" /\ phase' = "stopped"
        /\ UNCHANGED <<generation, accepted, turn, lock, writes, saves, orphans, faults, published,
                       recorder>>
    BY DEF StopReturns, workers
  <1>2. Types'
    BY <1>1 DEF IInv, Types
  <1>3. (CancelledAreOver /\ ClosedIsDrained /\ RecorderEnds)'
    BY <1>1 DEF IInv, CancelledAreOver, Cancelled, ClosedIsDrained, RecorderEnds, WorkersDrained
  <1>4. (AcceptedHaveTasks /\ LockHeld /\ UserWrites /\ UtteranceWrites)'
    BY <1>1 DEF IInv, AcceptedHaveTasks, LockHeld, UserWrites, UtteranceWrites, Cancelled
  <1>5. PriorsKnown'
    BY <1>1 DEF IInv, PriorsKnown, Collected
  <1>6. \A u \in Turns : Conversation(u)' = Conversation(u)
    BY <1>1 DEF Conversation
  <1>7. RecallsConversation'
    BY <1>1, <1>6 DEF IInv, RecallsConversation
  <1> QED BY <1>2, <1>3, <1>4, <1>5, <1>7 DEF IInv

-----------------------------------------------------------------------------
LEMMA InitIInv == Init => IInv
  <1> SUFFICES ASSUME Init PROVE IInv
    OBVIOUS
  <1>1. Idle \in TurnStates /\ Idle.pc = "new"
    BY DEF Idle, TurnStates, Pcs, Histories
  <1>2. recorder \in Recorders /\ recorder.task = "asleep"
    <2>1. <<>> \in Seq(Flags)
      OBVIOUS
    <2> QED BY <2>1, FlagValues DEF Init, RecorderInit, Recorders
  <1>3. Types
    BY <1>1, <1>2, ConversationAssumption DEF Init, Types
  <1>4. \A t \in Turns : turn[t].pc = "new" /\ t \in Nat \ {0}
    BY <1>1 DEF Init, Turns
  <1>5. \A t \in Turns : 2 * t \in Sequences /\ 2 * t - 1 \in Sequences
    BY ConversationAssumption DEF Turns, Sequences
  <1>6. CancelledAreOver /\ ClosedIsDrained /\ RecorderEnds
    BY <1>2 DEF Init, CancelledAreOver, Cancelled, ClosedIsDrained, RecorderEnds
  <1>7. AcceptedHaveTasks /\ LockHeld
    BY <1>4 DEF Init, AcceptedHaveTasks, LockHeld
  <1>8. UserWrites /\ UtteranceWrites
    BY <1>4, <1>5 DEF Init, UserWrites, UtteranceWrites
  <1>9. PriorsKnown /\ RecallsConversation
    BY <1>4 DEF PriorsKnown, Collected, RecallsConversation
  <1> QED BY <1>3, <1>6, <1>7, <1>8, <1>9 DEF IInv

LEMMA NextIInv == IInv /\ [Next]_vars => IInv'
  <1> SUFFICES ASSUME IInv, [Next]_vars PROVE IInv'
    OBVIOUS
  <1> USE DEF workers
  <1>0. /\ saves \in Nat /\ orphans \in Nat /\ faults \in Nat /\ generation \in 0..MaxTurns
        /\ accepted <= generation /\ GoodRecorder(recorder)
        /\ phase \in {"up", "failing", "closing", "down", "closed", "stopped"}
        /\ phase \in {"closed", "stopped"} => saves = 0 /\ orphans = 0 /\ recorder.closed
        /\ phase = "stopped" => recorder.task = "ended"
    BY DEF IInv, Types, RecorderEnds, GoodRecorder, ClosedIsDrained, WorkersDrained
  <1>1. CASE Submit
    <2>1. generation' \in 0..MaxTurns /\ accepted <= generation'
      <3>1. accepted \in Nat /\ generation \in Nat /\ MaxTurns \in Nat
        BY ConversationAssumption DEF IInv, Types
      <3> QED BY <1>0, <1>1, <3>1 DEF Submit
    <2>2. GoodRecorder(recorder')
      BY <1>1, ObservedRecorder DEF Submit
    <2> QED BY <1>0, <1>1, <2>1, <2>2, QuietStep DEF Submit, Live
  <1>2. CASE Accept
    BY <1>2, AcceptIInv
  <1>3. CASE StopBegins
    BY <1>0, <1>3, QuietStep DEF StopBegins, Live
  <1>4. ASSUME NEW t \in Turns, TurnSteps(t) PROVE IInv'
    BY <1>4, CollectIInv, PriorWritesDoneIInv, ReadArrivesIInv, HistoryTimesOutIInv, TurnEndsIInv,
       TakesLockIInv, RegistersIInv, PublishRefusedIInv DEF TurnSteps
  <1>5. ASSUME NEW t \in Turns, Speaks(t) PROVE IInv'
    <2>1. GoodRecorder(recorder') /\ phase \in {"up", "failing"}
      BY <1>5, PublishKeepsRecorder DEF Speaks, Current, Live
    <2> QED BY <1>0, <1>5, <2>1, QuietStep DEF Speaks
  <1>6. ASSUME NEW t \in Turns, PublishCommits(t) PROVE IInv'
    BY <1>6, PublishCommitsIInv
  <1>7. CASE Workers
    <2>1. CASE SaveEnds
      BY <1>0, <2>1, QuietStep DEF SaveEnds, Faulty, ChildFails
    <2>2. CASE OrphanEnds
      BY <1>0, <2>2, QuietStep DEF OrphanEnds
    <2> QED BY <1>7, <2>1, <2>2, WriteEndsIInv DEF Workers
  <1>8. CASE Recorder
    <2>1. /\ recorder' = Looks(recorder) /\ recorder.task /= "ended"
          /\ UNCHANGED <<generation, accepted, turn, lock, workers, published, phase>>
      BY <1>8 DEF Recorder, RecorderStep
    <2>2. GoodRecorder(recorder') /\ recorder'.closed = recorder.closed
      BY <1>0, <2>1, LooksFacts DEF GoodRecorder
    <2> QED BY <1>0, <2>1, <2>2, QuietStep
  <1>9. CASE Ending
    <2>1. CASE ActorEnds
      BY <1>0, <2>1, QuietStep DEF ActorEnds
    <2> QED BY <1>9, <2>1, ChildrenCancelledIInv, DrainedIInv, StopReturnsIInv DEF Ending
  <1>10. CASE UNCHANGED vars
    BY <1>0, <1>10, QuietStep DEF vars
  <1> QED BY <1>1, <1>2, <1>3, <1>4, <1>5, <1>6, <1>7, <1>8, <1>9, <1>10 DEF Next

LEMMA Invariance == Spec => []IInv
  BY InitIInv, NextIInv, PTL DEF Spec

\* When stop() of the session has returned, drain() and close() have left nothing behind: no
\* SQLite call is under way, not even a history read that timed out or whose turn was
\* cancelled, registration_lock is free and every event was taken to the journal.
THEOREM StopLeavesNothing == Spec => []StopIsQuiet
  <1>1. IInv => StopIsQuiet
    BY DEF IInv, StopIsQuiet, CancelledAreOver, Cancelled, ClosedIsDrained, RecorderEnds,
           WorkersDrained
  <1> QED BY <1>1, Invariance, PTL

\* registration_lock and the wait for the older writes leave no hole in what load_recent_history
\* reads: it is the newest part of the conversation the client saw, and stays so.
THEOREM RecallsWholeConversation == Spec => []RecallsConversation
  <1>1. IInv => RecallsConversation
    BY DEF IInv
  <1> QED BY <1>1, Invariance, PTL

-----------------------------------------------------------------------------
(* Recursion and induction up to a number                                    *)

LEMMA UpToInduction ==
    ASSUME NEW N \in Nat, NEW G, 0 \in G, \A n \in 1..N : n - 1 \in G => n \in G
    PROVE  \A n \in 0..N : n \in G
  <1> DEFINE T == {n \in 0..N : n \notin G}
  <1>1. T \subseteq Nat
    OBVIOUS
  <1>2. ASSUME T /= {} PROVE FALSE
    <2>1. PICK m \in T : \A k \in T : m <= k
      BY <1>1, <1>2, LeastNumber
    <2>2. m \in 0..N /\ m \notin G
      OBVIOUS
    <2>3. m \in 1..N /\ m - 1 \in 0..N /\ m - 1 \notin T
      <3> HIDE DEF T
      <3> QED BY <1>1, <2>1, <2>2
    <2> QED BY <2>2, <2>3
  <1> QED BY <1>2

NaturalNumbers == Nat
StepFunctions(N, V) == [1..N -> [V -> V]]
Iterations(N, V, v, step) ==
    {f \in [0..N -> V] : f[0] = v /\ \A n \in 1..N : f[n] = step[n][f[n - 1]]}

\* A step function on a set of values has an iteration.
LEMMA Iteration ==
    ASSUME NEW N, N \in NaturalNumbers, NEW V, NEW v \in V, NEW step \in StepFunctions(N, V)
    PROVE  \E f : f \in Iterations(N, V, v, step)
  <1> USE DEF NaturalNumbers, StepFunctions
  <1> DEFINE Iterates(f, k) == f[0] = v /\ \A n \in 1..k : f[n] = step[n][f[n - 1]]
             G == {k \in 0..N : \E f \in [0..N -> V] : Iterates(f, k)}
  <1>1. 0 \in G
    <2> DEFINE f == [n \in 0..N |-> v]
    <2>1. f \in [0..N -> V] /\ Iterates(f, 0)
      OBVIOUS
    <2> HIDE DEF f
    <2>2. \E h \in [0..N -> V] : Iterates(h, 0)
      BY <2>1
    <2>3. 0 \in 0..N
      OBVIOUS
    <2> QED BY <2>2, <2>3, Zenon
  <1>2. ASSUME NEW k \in 1..N, k - 1 \in G PROVE k \in G
    <2>1. PICK f \in [0..N -> V] : Iterates(f, k - 1)
      BY <1>2
    <2>2. f[k - 1] \in V /\ step[k] \in [V -> V]
      OBVIOUS
    <2> DEFINE w == step[k][f[k - 1]]
               g == [f EXCEPT ![k] = w]
    <2>3. w \in V
      BY <2>2
    <2>4. w = step[k][f[k - 1]]
      OBVIOUS
    <2> HIDE DEF w
    <2>5. g \in [0..N -> V] /\ g[k] = w /\ \A n \in 0..k - 1 : g[n] = f[n]
      BY <2>3
    <2> HIDE DEF g
    <2>6. \A n \in 1..k - 1 : n \in 0..k - 1 /\ n - 1 \in 0..k - 1
      OBVIOUS
    <2>7. g[0] = v /\ \A n \in 1..k - 1 : g[n] = step[n][g[n - 1]]
      BY <2>1, <2>5, <2>6
    <2>8. g[k] = step[k][g[k - 1]]
      BY <2>4, <2>5
    <2>9. Iterates(g, k)
      BY <2>7, <2>8
    <2> QED BY <2>5, <2>9
  <1> HIDE DEF G
  <1>3. \A k \in 1..N : k - 1 \in G => k \in G
    BY <1>2
  <1>4. \A k \in 0..N : k \in G
    BY <1>1, <1>3, UpToInduction
  <1>5. N \in G
    BY <1>4
  <1>6. PICK f \in [0..N -> V] : Iterates(f, N)
    BY <1>5 DEF G
  <1>7. f \in Iterations(N, V, v, step)
    BY <1>6 DEF Iterations
  <1> QED BY <1>7

\* The numbers up to n in order, for every n.
Sorting(sorted, S) ==
    /\ InOrder(S) = sorted[2 * MaxTurns] /\ sorted[0] = <<>>
    /\ \A n \in 1..2 * MaxTurns :
          sorted[n] = IF n \in S THEN Append(sorted[n - 1], n) ELSE sorted[n - 1]

LEMMA InOrderRecursion ==
    ASSUME NEW S
    PROVE  \E sorted : Sorting(sorted, S)
  <1> DEFINE N == 2 * MaxTurns
             V == Seq(Nat)
             Step(x, n) == IF n \in S THEN Append(x, n) ELSE x
             Recursive(f) == f = [n \in 0..N |-> IF n = 0 THEN <<>> ELSE Step(f[n - 1], n)]
             sorted == CHOOSE f : Recursive(f)
             step == [n \in 1..N |-> [x \in V |-> Step(x, n)]]
             none == <<>>
  <1>1. N \in Nat /\ N \in NaturalNumbers /\ none \in V
    BY ConversationAssumption, EmptySeq DEF NaturalNumbers
  <1>2. InOrder(S) = sorted[N]
    BY DEF InOrder
  <1>3. step \in StepFunctions(N, V)
    BY <1>1, AppendProperties DEF StepFunctions
  <1>4. \A n \in 1..N, x \in V : step[n][x] = Step(x, n)
    OBVIOUS
  <1> HIDE DEF V, Step, step, N, none
  <1>5. PICK f : f \in Iterations(N, V, none, step)
    BY <1>1, <1>3, Iteration
  <1>6. Recursive(f)
    <2>1. \A n \in 0..N : f[n] = IF n = 0 THEN <<>> ELSE Step(f[n - 1], n)
      BY <1>1, <1>4, <1>5 DEF none, Iterations
    <2>2. f \in [0..N -> V]
      BY <1>5 DEF Iterations
    <2> QED BY <2>1, <2>2
  <1>7. Recursive(sorted)
    BY <1>6
  <1> HIDE DEF sorted
  <1>8. \A n \in 0..N : sorted[n] = IF n = 0 THEN <<>> ELSE Step(sorted[n - 1], n)
    BY <1>7, Zenon
  <1>9. sorted[0] = <<>> /\ \A n \in 1..N : sorted[n] = Step(sorted[n - 1], n)
    BY <1>1, <1>8
  <1>10. Sorting(sorted, S)
    BY <1>2, <1>9 DEF Step, N, Sorting
  <1> QED BY <1>10

-----------------------------------------------------------------------------
(* The rendered size of a history                                            *)

Shown == [sequence : Nat, chars : Nat, truncated : Flags]

LEMMA ShownElements ==
    ASSUME NEW shown \in Seq(Shown)
    PROVE  /\ Len(shown) \in Nat /\ DOMAIN shown = 1..Len(shown)
           /\ \A n \in 1..Len(shown) : /\ shown[n] \in Shown
                                       /\ shown[n].sequence \in Nat /\ shown[n].chars \in Nat
  <1>1. Len(shown) \in Nat /\ \A n \in 1..Len(shown) : shown[n] \in Shown
    OBVIOUS
  <1>2. \A m \in Shown : m.sequence \in Nat /\ m.chars \in Nat
    BY DEF Shown
  <1>3. DOMAIN shown = 1..Len(shown)
    OBVIOUS
  <1> QED BY <1>1, <1>2, <1>3

LEMMA SizeRecursion ==
    ASSUME NEW shown \in Seq(Shown)
    PROVE  \E size : /\ size \in [0..Len(shown) -> Nat]
                     /\ RenderedSize(shown) = size[Len(shown)] /\ size[0] = Envelope
                     /\ \A n \in 1..Len(shown) : size[n] = size[n - 1] + Header + shown[n].chars
  <1> DEFINE N == Len(shown)
             V == Nat
             Step(x, n) == x + Header + shown[n].chars
             Recursive(f) == f = [n \in 0..N |-> IF n = 0 THEN Envelope ELSE Step(f[n - 1], n)]
             size == CHOOSE f : Recursive(f)
             step == [n \in 1..N |-> [x \in V |-> Step(x, n)]]
  <1>1. N \in Nat /\ N \in NaturalNumbers /\ Envelope \in V
    BY HistoryAssumption, LenProperties DEF NaturalNumbers
  <1>2. RenderedSize(shown) = size[N]
    BY DEF RenderedSize
  <1>3. step \in StepFunctions(N, V)
    <2>1. \A n \in 1..N : shown[n].chars \in Nat
      BY ShownElements
    <2> QED BY <1>1, <2>1, HistoryAssumption DEF StepFunctions
  <1>4. \A n \in 1..N, x \in V : step[n][x] = Step(x, n)
    OBVIOUS
  <1> HIDE DEF V, Step, step, N
  <1>5. PICK f : f \in Iterations(N, V, Envelope, step)
    BY <1>1, <1>3, Iteration
  <1>6. Recursive(f) /\ f \in [0..N -> V]
    <2>1. \A n \in 0..N : f[n] = IF n = 0 THEN Envelope ELSE Step(f[n - 1], n)
      BY <1>1, <1>4, <1>5 DEF Iterations
    <2>2. f \in [0..N -> V]
      BY <1>5 DEF Iterations
    <2> QED BY <2>1, <2>2
  <1>7. Recursive(size)
    BY <1>6
  <1> HIDE DEF size
  <1>8. \A n \in 0..N : size[n] = IF n = 0 THEN Envelope ELSE Step(size[n - 1], n)
    BY <1>7, Zenon
  <1>9. size[0] = Envelope /\ \A n \in 1..N : size[n] = Step(size[n - 1], n)
    BY <1>1, <1>8
  <1>10. size \in [0..N -> V]
    <2> DEFINE G == {n \in 0..N : size[n] \in V}
    <2>1. 0 \in G
      BY <1>1, <1>9
    <2>2. \A n \in 1..N : n - 1 \in G => n \in G
      BY <1>1, <1>3, <1>4, <1>9 DEF StepFunctions
    <2> HIDE DEF G
    <2>3. \A n \in 0..N : n \in G
      BY <1>1, <2>1, <2>2, UpToInduction
    <2>4. \A n \in 0..N : size[n] \in V
      BY <2>3 DEF G
    <2>5. size = [n \in 0..N |-> size[n]]
      BY <1>7
    <2> QED BY <2>4, <2>5
  <1> QED BY <1>2, <1>9, <1>10 DEF Step, N, V

LEMMA SizeIsNat ==
    ASSUME NEW shown \in Seq(Shown)
    PROVE  RenderedSize(shown) \in Nat
  <1>1. Len(shown) \in 0..Len(shown)
    BY LenProperties
  <1> QED BY <1>1, SizeRecursion

\* A message in front adds its header and its characters.
LEMMA SizeOfMore ==
    ASSUME NEW m \in Shown, NEW x \in Seq(Shown), NEW y \in Seq(Shown),
           Len(y) = Len(x) + 1, y[1] = m, \A i \in 1..Len(x) : y[i + 1] = x[i]
    PROVE  RenderedSize(y) = RenderedSize(x) + Header + m.chars
  <1> DEFINE N == Len(x)
  <1>1. N \in Nat /\ m.chars \in Nat /\ Header \in Nat /\ Envelope \in Nat
    BY HistoryAssumption, LenProperties DEF Shown
  <1>2. PICK a : /\ a \in [0..N -> Nat]
                 /\ RenderedSize(x) = a[N] /\ a[0] = Envelope
                 /\ \A n \in 1..N : a[n] = a[n - 1] + Header + x[n].chars
    BY SizeRecursion
  <1>3. PICK b : /\ b \in [0..Len(y) -> Nat]
                 /\ RenderedSize(y) = b[Len(y)] /\ b[0] = Envelope
                 /\ \A n \in 1..Len(y) : b[n] = b[n - 1] + Header + y[n].chars
    BY SizeRecursion
  <1>4. \A n \in 1..N : x[n].chars \in Nat
    BY ShownElements
  <1> DEFINE G == {n \in 0..N : b[n + 1] = a[n] + Header + m.chars}
  <1>5. Len(y) = N + 1 /\ \A i \in 1..N : y[i + 1] = x[i]
    OBVIOUS
  <1> HIDE DEF N
  <1>6. 0 \in G
    <2>1. b[1] = b[0] + Header + y[1].chars
      BY <1>1, <1>3, <1>5
    <2> QED BY <1>1, <1>2, <1>3, <2>1
  <1>7. ASSUME NEW n \in 1..N, n - 1 \in G PROVE n \in G
    <2>1. n + 1 \in 1..Len(y) /\ n - 1 \in 0..N /\ n \in 0..N /\ (n + 1) - 1 = n /\ (n - 1) + 1 = n
      BY <1>1, <1>5
    <2>2. b[n + 1] = b[n] + Header + y[n + 1].chars
      BY <1>3, <2>1
    <2>3. b[n] = a[n - 1] + Header + m.chars
      BY <1>7, <2>1
    <2>4. a[n] = a[n - 1] + Header + x[n].chars /\ a[n - 1] \in Nat
      BY <1>2, <2>1
    <2>5. y[n + 1].chars = x[n].chars /\ x[n].chars \in Nat
      BY <1>4, <1>5
    <2>6. \A p, q, r, k \in Nat : (p + k + q) + k + r = (p + k + r) + k + q
      OBVIOUS
    <2>7. b[n + 1] = (a[n - 1] + Header + m.chars) + Header + x[n].chars
      BY <2>2, <2>3, <2>5
    <2>8. b[n + 1] = (a[n - 1] + Header + x[n].chars) + Header + m.chars
      BY <1>1, <2>4, <2>5, <2>6, <2>7
    <2>9. b[n + 1] = a[n] + Header + m.chars
      BY <2>4, <2>8
    <2> QED BY <2>1, <2>9
  <1> HIDE DEF G
  <1>8. \A n \in 0..N : n \in G
    BY <1>1, <1>6, <1>7, UpToInduction
  <1>9. N \in G
    BY <1>1, <1>8
  <1> QED BY <1>2, <1>3, <1>5, <1>9 DEF G

-----------------------------------------------------------------------------
(* What compile selects                                                      *)

Fits(k, m, x) == k.sequence = m.sequence /\ RenderedSize(x) + Header + k.chars <= MaxChars

LEMMA FitFacts ==
    ASSUME NEW m \in Shown, NEW x \in Seq(Shown)
    PROVE  Fit(m, x) = <<>> \/ \E k \in Shown : Fit(m, x) = <<k>> /\ Fits(k, m, x)
  <1> DEFINE size == RenderedSize(x)
             free == MaxChars - (size + Header)
             k == [m EXCEPT !.chars = free, !.truncated = TRUE]
  <1>1. size \in Nat /\ Header \in Nat /\ MaxChars \in Nat
    BY SizeIsNat, HistoryAssumption
  <1>2. CASE size + Header + m.chars <= MaxChars
    <2>1. Fit(m, x) = <<m>>
      BY <1>2 DEF Fit
    <2>2. Fits(m, m, x)
      BY <1>2 DEF Fits
    <2> QED BY <2>1, <2>2
  <1>3. CASE ~(size + Header + m.chars <= MaxChars) /\ size + Header < MaxChars
    <2>1. Fit(m, x) = <<k>>
      BY <1>3 DEF Fit
    <2>2. free \in Nat /\ size + Header + free <= MaxChars
      <3> HIDE DEF size
      <3> QED BY <1>1, <1>3
    <2> HIDE DEF free
    <2> DEFINE yes == TRUE
    <2>3. yes \in Flags
      BY FlagValues
    <2>4. k \in Shown /\ k.sequence = m.sequence /\ k.chars = free
      <3> HIDE DEF yes
      <3>1. [m EXCEPT !.chars = free, !.truncated = yes] \in Shown
        BY <2>2, <2>3 DEF Shown
      <3>2. /\ [m EXCEPT !.chars = free, !.truncated = yes].sequence = m.sequence
            /\ [m EXCEPT !.chars = free, !.truncated = yes].chars = free
        BY DEF Shown
      <3> QED BY <3>1, <3>2 DEF yes
    <2> HIDE DEF k
    <2>5. Fits(k, m, x)
      BY <2>2, <2>4 DEF Fits
    <2> QED BY <2>1, <2>4, <2>5
  <1>4. CASE ~(size + Header + m.chars <= MaxChars) /\ ~(size + Header < MaxChars)
    <2>1. Fit(m, x) = <<>>
      BY <1>4 DEF Fit
    <2> QED BY <2>1
  <1> QED BY <1>2, <1>3, <1>4

\* One message more in front, within the bound.
OneMore(y, m, x) ==
    /\ Len(y) = Len(x) + 1 /\ y[1].sequence = m.sequence
    /\ \A i \in 1..Len(x) : y[i + 1] = x[i]
    /\ RenderedSize(y) <= MaxChars

LEMMA SelectionGrows ==
    ASSUME NEW m \in Shown, NEW x \in Seq(Shown), NEW y, y = Fit(m, x) \o x
    PROVE  y \in Seq(Shown) /\ (y = x \/ OneMore(y, m, x))
  <1>1. CASE Fit(m, x) = <<>>
    <2>1. y = x
      BY <1>1
    <2> QED BY <2>1
  <1>2. CASE \E k \in Shown : Fit(m, x) = <<k>> /\ Fits(k, m, x)
    <2>1. PICK k \in Shown : Fit(m, x) = <<k>> /\ Fits(k, m, x)
      BY <1>2
    <2>2. y = <<k>> \o x
      BY <2>1
    <2>3. y \in Seq(Shown) /\ Len(y) = Len(x) + 1 /\ y[1] = k /\ \A i \in 1..Len(x) : y[i + 1] = x[i]
      BY <2>2
    <2>4. RenderedSize(y) = RenderedSize(x) + Header + k.chars
      BY <2>3, SizeOfMore
    <2> QED BY <2>1, <2>3, <2>4 DEF OneMore, Fits
  <1> QED BY <1>1, <1>2, FitFacts

\* The messages selected from the n newest candidates, for every n.
Selection(selected, candidates) ==
    /\ Select(candidates) = selected[Len(candidates)] /\ selected[0] = <<>>
    /\ \A n \in 1..Len(candidates) :
          selected[n] = Fit(candidates[Len(candidates) + 1 - n], selected[n - 1]) \o selected[n - 1]

LEMMA SelectRecursion ==
    ASSUME NEW candidates \in Seq(Shown)
    PROVE  \E selected : Selection(selected, candidates)
  <1> DEFINE N == Len(candidates)
             V == Seq(Shown)
             none == <<>>
             Step(x, n) == Fit(candidates[N + 1 - n], x) \o x
             Recursive(f) == f = [n \in 0..N |-> IF n = 0 THEN <<>> ELSE Step(f[n - 1], n)]
             selected == CHOOSE f : Recursive(f)
             step == [n \in 1..N |-> [x \in V |-> Step(x, n)]]
  <1>1. N \in Nat /\ N \in NaturalNumbers /\ none \in V
    BY LenProperties, EmptySeq DEF NaturalNumbers
  <1>2. Select(candidates) = selected[N]
    BY DEF Select
  <1>3. step \in StepFunctions(N, V)
    <2>1. \A n \in 1..N : N + 1 - n \in 1..N
      BY <1>1
    <2>2. \A n \in 1..N : candidates[N + 1 - n] \in Shown
      BY <2>1, ShownElements
    <2>3. \A n \in 1..N, x \in V : Step(x, n) \in V
      BY <2>2, SelectionGrows
    <2> HIDE DEF Step, V
    <2> QED BY <2>3 DEF StepFunctions
  <1>4. \A n \in 1..N, x \in V : step[n][x] = Step(x, n)
    OBVIOUS
  <1> HIDE DEF V, Step, step, none, N
  <1>5. PICK f : f \in Iterations(N, V, none, step)
    BY <1>1, <1>3, Iteration
  <1>6. Recursive(f)
    <2>1. \A n \in 0..N : f[n] = IF n = 0 THEN <<>> ELSE Step(f[n - 1], n)
      BY <1>1, <1>4, <1>5 DEF none, Iterations
    <2>2. f \in [0..N -> V]
      BY <1>5 DEF Iterations
    <2> QED BY <2>1, <2>2
  <1>7. Recursive(selected)
    BY <1>6
  <1> HIDE DEF selected
  <1>8. \A n \in 0..N : selected[n] = IF n = 0 THEN <<>> ELSE Step(selected[n - 1], n)
    BY <1>7, Zenon
  <1>9. selected[0] = <<>> /\ \A n \in 1..N : selected[n] = Step(selected[n - 1], n)
    BY <1>1, <1>8
  <1>10. Selection(selected, candidates)
    BY <1>2, <1>9 DEF Step, N, Selection
  <1> QED BY <1>10

\* Messages in the order of their sequence numbers.
Ascending(x) == \A i, j \in 1..Len(x) : i < j => x[i].sequence < x[j].sequence

Above(m, x) == \A i \in 1..Len(x) : m.sequence < x[i].sequence

\* What compile promises of the messages it selects from count candidates.
Bounded(x, count) ==
    /\ Len(x) <= count
    /\ x /= <<>> => RenderedSize(x) <= MaxChars
    /\ Ascending(x)

LEMMA OneMoreAscends ==
    ASSUME NEW m \in Shown, NEW x \in Seq(Shown), NEW y \in Seq(Shown), OneMore(y, m, x),
           Ascending(x), Above(m, x)
    PROVE  /\ Ascending(y)
           /\ \A c \in Shown : c.sequence < m.sequence => Above(c, y)
  <1>1. Len(x) \in Nat /\ Len(y) = Len(x) + 1 /\ y[1].sequence = m.sequence
    BY DEF OneMore
  <1>2. \A i \in 2..Len(y) : i - 1 \in 1..Len(x) /\ y[i] = x[i - 1]
    <2> TAKE i \in 2..Len(y)
    <2>1. i - 1 \in 1..Len(x) /\ (i - 1) + 1 = i
      BY <1>1
    <2> QED BY <2>1 DEF OneMore
  <1>3. \A i \in 1..Len(y) : i = 1 \/ i \in 2..Len(y)
    BY <1>1
  <1>4. m.sequence \in Nat /\ \A i \in 1..Len(x) : x[i].sequence \in Nat
    BY ShownElements DEF Shown
  <1>5. \A i \in 2..Len(y) : m.sequence < y[i].sequence /\ y[i].sequence \in Nat
    BY <1>2, <1>4 DEF Above
  <1>6. ASSUME NEW i \in 1..Len(y), NEW j \in 1..Len(y), i < j
        PROVE  y[i].sequence < y[j].sequence
    <2>1. j \in 2..Len(y)
      BY <1>1, <1>6
    <2>2. CASE i = 1
      BY <1>1, <1>5, <2>1, <2>2
    <2>3. CASE i \in 2..Len(y)
      <3>1. i - 1 < j - 1
        BY <1>1, <1>6
      <3> QED BY <1>2, <2>1, <2>3, <3>1 DEF Ascending
    <2> QED BY <1>3, <2>2, <2>3
  <1>7. ASSUME NEW c \in Shown, c.sequence < m.sequence PROVE Above(c, y)
    <2>1. c.sequence \in Nat
      BY DEF Shown
    <2> QED BY <1>1, <1>3, <1>4, <1>5, <1>7, <2>1 DEF Above
  <1> QED BY <1>6, <1>7 DEF Ascending

\* compile keeps the policy's bounds and the order of the conversation.
LEMMA SelectBounded ==
    ASSUME NEW candidates \in Seq(Shown), Ascending(candidates)
    PROVE  Select(candidates) \in Seq(Shown) /\ Bounded(Select(candidates), Len(candidates))
  <1> DEFINE N == Len(candidates)
  <1>1. N \in Nat
    OBVIOUS
  <1>2. PICK selected :
             /\ Select(candidates) = selected[N] /\ selected[0] = <<>>
             /\ \A n \in 1..N :
                   selected[n] = Fit(candidates[N + 1 - n], selected[n - 1]) \o selected[n - 1]
    <2>1. PICK selected : Selection(selected, candidates)
      BY SelectRecursion
    <2> QED BY <2>1 DEF Selection
  <1> DEFINE Good(x, n) == /\ x \in Seq(Shown) /\ Bounded(x, n)
                           /\ \A j \in 1..N - n : Above(candidates[j], x)
             G == {n \in 0..N : Good(selected[n], n)}
  <1>3. 0 \in G
    <2> DEFINE none == <<>>
    <2>1. none \in Seq(Shown) /\ Len(none) = 0
      BY EmptySeq
    <2>2. Ascending(none) /\ \A j \in 1..N - 0 : Above(candidates[j], none)
      <3>1. 1..Len(none) = {}
        BY <2>1
      <3> HIDE DEF none
      <3> QED BY <3>1 DEF Ascending, Above
    <2>3. Bounded(none, 0)
      BY <2>1, <2>2 DEF Bounded
    <2>4. Good(none, 0)
      BY <2>1, <2>2, <2>3
    <2>5. selected[0] = none /\ 0 \in 0..N
      BY <1>1, <1>2
    <2> HIDE DEF none, Good
    <2> QED BY <2>4, <2>5
  <1>4. ASSUME NEW n \in 1..N, n - 1 \in G PROVE n \in G
    <2> DEFINE x == selected[n - 1]
               y == selected[n]
               m == candidates[N + 1 - n]
    <2>1. N + 1 - n \in 1..N /\ N - (n - 1) = N + 1 - n /\ n \in 0..N
      BY <1>1
    <2>2. m \in Shown
      BY <2>1, ShownElements
    <2>3. /\ x \in Seq(Shown) /\ Bounded(x, n - 1) /\ y = Fit(m, x) \o x
          /\ \A j \in 1..N + 1 - n : Above(candidates[j], x)
      BY <1>2, <1>4, <2>1
    <2> HIDE DEF x, y, m
    <2>4. y \in Seq(Shown) /\ (y = x \/ OneMore(y, m, x))
      BY <2>2, <2>3, SelectionGrows
    <2>5. \A j \in 1..N - n : /\ j \in 1..N + 1 - n /\ j \in 1..N /\ j < N + 1 - n
      BY <1>1
    <2>6. CASE y = x
      <3>1. Bounded(y, n)
        BY <1>1, <2>3, <2>6, LenProperties DEF Bounded
      <3>2. \A j \in 1..N - n : Above(candidates[j], y)
        BY <2>3, <2>5, <2>6
      <3>3. Good(y, n)
        BY <2>4, <3>1, <3>2
      <3> QED BY <2>1, <3>3 DEF y
    <2>7. CASE OneMore(y, m, x)
      <3>1. Ascending(x) /\ Above(m, x)
        BY <2>1, <2>3 DEF Bounded, m
      <3>2. Ascending(y) /\ \A c \in Shown : c.sequence < m.sequence => Above(c, y)
        BY <2>2, <2>3, <2>4, <2>7, <3>1, OneMoreAscends
      <3>3. Bounded(y, n)
        <4>1. Len(y) <= n /\ RenderedSize(y) <= MaxChars
          BY <1>1, <2>3, <2>7, LenProperties DEF Bounded, OneMore
        <4> QED BY <3>2, <4>1 DEF Bounded
      <3>4. \A j \in 1..N - n : candidates[j] \in Shown /\ candidates[j].sequence < m.sequence
        BY <2>1, <2>5, ShownElements DEF Ascending, m
      <3>5. Good(y, n)
        BY <2>4, <3>2, <3>3, <3>4
      <3> QED BY <2>1, <3>5 DEF y
    <2> QED BY <2>4, <2>6, <2>7
  <1> HIDE DEF G
  <1>5. \A n \in 0..N : n \in G
    BY <1>1, <1>3, <1>4, UpToInduction
  <1>6. N \in G
    BY <1>1, <1>5
  <1> QED BY <1>2, <1>6 DEF G

-----------------------------------------------------------------------------
(* The sequences the history is made of                                      *)

\* ORDER BY sequence: the numbers of the set, ascending.
LEMMA InOrderFacts ==
    ASSUME NEW S
    PROVE  /\ InOrder(S) \in Seq(Nat)
           /\ \A i \in 1..Len(InOrder(S)) : InOrder(S)[i] \in S /\ InOrder(S)[i] \in Sequences
           /\ \A i, j \in 1..Len(InOrder(S)) : i < j => InOrder(S)[i] < InOrder(S)[j]
  <1> DEFINE N == 2 * MaxTurns
  <1>1. N \in Nat
    BY ConversationAssumption
  <1>2. PICK sorted : Sorting(sorted, S)
    BY InOrderRecursion
  <1>3. /\ InOrder(S) = sorted[N] /\ sorted[0] = <<>>
        /\ \A n \in 1..N : sorted[n] = IF n \in S THEN Append(sorted[n - 1], n) ELSE sorted[n - 1]
    BY <1>2 DEF Sorting
  <1> DEFINE Good(x, n) == /\ x \in Seq(Nat)
                           /\ \A i \in 1..Len(x) : x[i] \in S /\ x[i] \in 1..n
                           /\ \A i, j \in 1..Len(x) : i < j => x[i] < x[j]
             G == {n \in 0..N : Good(sorted[n], n)}
  <1>4. Sequences = 1..N
    BY DEF Sequences
  <1> HIDE DEF N
  <1>5. 0 \in G
    <2> DEFINE none == <<>>
    <2>1. none \in Seq(Nat) /\ 1..Len(none) = {}
      BY EmptySeq
    <2>2. sorted[0] = none /\ 0 \in 0..N
      BY <1>1, <1>3
    <2> HIDE DEF none
    <2>3. Good(none, 0)
      BY <2>1
    <2> QED BY <2>2, <2>3
  <1>6. ASSUME NEW n \in 1..N, n - 1 \in G PROVE n \in G
    <2> DEFINE x == sorted[n - 1]
               y == sorted[n]
    <2>1. n \in Nat /\ n - 1 \in Nat /\ n \in 0..N
      BY <1>1
    <2>2. Good(x, n - 1)
      BY <1>6
    <2>3. y = IF n \in S THEN Append(x, n) ELSE x
      BY <1>3
    <2> HIDE DEF x, y
    <2>4. CASE n \notin S
      <3>1. \A i \in 1..n - 1 : i \in 1..n
        BY <2>1
      <3>2. Good(y, n)
        BY <2>2, <2>3, <2>4, <3>1
      <3> QED BY <2>1, <3>2 DEF y
    <2>5. CASE n \in S
      <3>1. /\ y \in Seq(Nat) /\ Len(x) \in Nat /\ Len(y) = Len(x) + 1 /\ y[Len(y)] = n
            /\ \A i \in 1..Len(x) : y[i] = x[i]
        BY <2>1, <2>2, <2>3, <2>5
      <3>2. \A i \in 1..Len(y) : i \in 1..Len(x) \/ i = Len(y)
        BY <3>1
      <3>3. \A i \in 1..Len(x) : y[i] \in S /\ y[i] \in 1..n /\ y[i] < n
        <4>1. \A k \in 1..n - 1 : k \in 1..n /\ k < n
          BY <2>1
        <4> QED BY <2>2, <3>1, <4>1
      <3>4. \A i \in 1..Len(y) : y[i] \in S /\ y[i] \in 1..n
        BY <2>1, <2>5, <3>1, <3>2, <3>3
      <3>5. ASSUME NEW i \in 1..Len(y), NEW j \in 1..Len(y), i < j PROVE y[i] < y[j]
        <4>1. i \in 1..Len(x)
          BY <3>1, <3>5
        <4> QED BY <2>2, <3>1, <3>2, <3>3, <3>5, <4>1
      <3>6. Good(y, n)
        BY <3>1, <3>4, <3>5
      <3> QED BY <2>1, <3>6 DEF y
    <2> QED BY <2>4, <2>5
  <1> HIDE DEF G
  <1>7. \A n \in 0..N : n \in G
    BY <1>1, <1>5, <1>6, UpToInduction
  <1>8. N \in G
    BY <1>1, <1>7
  <1> QED BY <1>3, <1>4, <1>8 DEF G

Skipped(length, n) == IF length > n THEN length - n ELSE 0

\* list_recent_before: the last n elements.
LEMMA NewestFacts ==
    ASSUME NEW S, NEW s \in Seq(S), NEW n \in Nat, NEW r, r = Newest(s, n)
    PROVE  /\ r \in Seq(S) /\ Len(r) = Len(s) - Skipped(Len(s), n) /\ Len(r) <= n
           /\ Skipped(Len(s), n) \in Nat
           /\ \A i \in 1..Len(r) : /\ Skipped(Len(s), n) + i \in 1..Len(s)
                                   /\ r[i] = s[Skipped(Len(s), n) + i]
  <1> DEFINE k == Skipped(Len(s), n)
             N == Len(s)
  <1>1. k \in Nat /\ N \in Nat /\ k <= N /\ N - k <= n
    BY DEF Skipped
  <1>2. r = SubSeq(s, 1 + k, N)
    BY DEF Newest, Skipped
  <1>3. \A i \in 1 + k..N : s[i] \in S
    BY <1>1
  <1> HIDE DEF k, N
  <1>4. /\ r \in Seq(S) /\ Len(r) = IF 1 + k <= N THEN N - (1 + k) + 1 ELSE 0
        /\ \A i \in 1..N - (1 + k) + 1 : r[i] = s[(1 + k) + i - 1]
    BY <1>1, <1>2, <1>3, SubSeqProperties
  <1>5. Len(r) = N - k
    BY <1>1, <1>4
  <1>6. \A i \in 1..Len(r) : k + i \in 1..N /\ r[i] = s[k + i]
    <2> TAKE i \in 1..Len(r)
    <2>1. k + i \in 1..N /\ i \in 1..N - (1 + k) + 1 /\ (1 + k) + i - 1 = k + i
      BY <1>1, <1>5
    <2> QED BY <1>4, <2>1
  <1> QED BY <1>1, <1>4, <1>5, <1>6 DEF k, N

-----------------------------------------------------------------------------
(* The history of a turn                                                     *)

\* The stored form of a message, as compile reads it.
Stored == [sequence : Nat, generation : Nat, chars : Nat]

LEMMA ShortenedIsShown ==
    ASSUME NEW m \in Stored
    PROVE  Shortened(m) \in Shown /\ Shortened(m).sequence = m.sequence
  <1> DEFINE cut == m.chars > MaxMessageChars
             n == IF cut THEN MaxMessageChars ELSE m.chars
  <1>1. m.sequence \in Nat /\ n \in Nat
    BY HistoryAssumption DEF Stored
  <1>2. cut \in Flags
    BY DEF Flags
  <1>3. Shortened(m) = [sequence |-> m.sequence, chars |-> n, truncated |-> cut]
    BY DEF Shortened
  <1> HIDE DEF cut, n
  <1> QED BY <1>1, <1>2, <1>3 DEF Shown

Keeping(kept, messages, g) ==
    /\ EligibleMessages(messages, g) = kept[Len(messages)] /\ kept[0] = <<>>
    /\ \A n \in 1..Len(messages) :
          kept[n] = IF Eligible(messages[n], g) THEN Append(kept[n - 1], Shortened(messages[n]))
                    ELSE kept[n - 1]

LEMMA EligibleRecursion ==
    ASSUME NEW messages \in Seq(Stored), NEW g
    PROVE  \E kept : Keeping(kept, messages, g)
  <1> DEFINE N == Len(messages)
             V == Seq(Shown)
             none == <<>>
             Step(x, n) == IF Eligible(messages[n], g) THEN Append(x, Shortened(messages[n])) ELSE x
             Recursive(f) == f = [n \in 0..N |-> IF n = 0 THEN <<>> ELSE Step(f[n - 1], n)]
             kept == CHOOSE f : Recursive(f)
             step == [n \in 1..N |-> [x \in V |-> Step(x, n)]]
  <1>1. N \in Nat /\ N \in NaturalNumbers /\ none \in V
    BY LenProperties, EmptySeq DEF NaturalNumbers
  <1>2. EligibleMessages(messages, g) = kept[N]
    BY DEF EligibleMessages
  <1>3. step \in StepFunctions(N, V)
    <2>1. \A n \in 1..N : messages[n] \in Stored
      OBVIOUS
    <2>2. \A n \in 1..N : Shortened(messages[n]) \in Shown
      BY <2>1, ShortenedIsShown
    <2>3. \A n \in 1..N, x \in V : Step(x, n) \in V
      BY <2>2, AppendProperties
    <2> HIDE DEF Step, V
    <2> QED BY <2>3 DEF StepFunctions
  <1>4. \A n \in 1..N, x \in V : step[n][x] = Step(x, n)
    OBVIOUS
  <1> HIDE DEF V, Step, step, none, N
  <1>5. PICK f : f \in Iterations(N, V, none, step)
    BY <1>1, <1>3, Iteration
  <1>6. Recursive(f)
    <2>1. \A n \in 0..N : f[n] = IF n = 0 THEN <<>> ELSE Step(f[n - 1], n)
      BY <1>1, <1>4, <1>5 DEF none, Iterations
    <2>2. f \in [0..N -> V]
      BY <1>5 DEF Iterations
    <2> QED BY <2>1, <2>2
  <1>7. Recursive(kept)
    BY <1>6
  <1> HIDE DEF kept
  <1>8. \A n \in 0..N : kept[n] = IF n = 0 THEN <<>> ELSE Step(kept[n - 1], n)
    BY <1>7, Zenon
  <1>9. kept[0] = <<>> /\ \A n \in 1..N : kept[n] = Step(kept[n - 1], n)
    BY <1>1, <1>8
  <1>10. Keeping(kept, messages, g)
    BY <1>2, <1>9 DEF Step, N, Keeping
  <1> QED BY <1>10

\* Messages that are all eligible are all kept, shortened.
LEMMA AllKept ==
    ASSUME NEW messages \in Seq(Stored), NEW g,
           \A n \in 1..Len(messages) : Eligible(messages[n], g),
           NEW e, e = EligibleMessages(messages, g)
    PROVE  /\ e \in Seq(Shown) /\ Len(e) = Len(messages)
           /\ \A i \in 1..Len(messages) : e[i] = Shortened(messages[i])
  <1> DEFINE N == Len(messages)
  <1>1. N \in Nat /\ \A n \in 1..N : Shortened(messages[n]) \in Shown
    BY ShortenedIsShown
  <1>2. PICK kept : Keeping(kept, messages, g)
    BY EligibleRecursion
  <1>3. /\ e = kept[N] /\ kept[0] = <<>>
        /\ \A n \in 1..N : kept[n] = Append(kept[n - 1], Shortened(messages[n]))
    BY <1>2 DEF Keeping
  <1> DEFINE Good(x, n) == /\ x \in Seq(Shown) /\ Len(x) = n
                           /\ \A i \in 1..n : x[i] = Shortened(messages[i])
             G == {n \in 0..N : Good(kept[n], n)}
  <1>4. 0 \in G
    <2> DEFINE none == <<>>
    <2>1. none \in Seq(Shown) /\ Len(none) = 0 /\ 1..0 = {}
      BY EmptySeq
    <2>2. kept[0] = none /\ 0 \in 0..N
      BY <1>1, <1>3
    <2> HIDE DEF none
    <2>3. Good(none, 0)
      BY <2>1
    <2> QED BY <2>2, <2>3
  <1>5. ASSUME NEW n \in 1..N, n - 1 \in G PROVE n \in G
    <2> DEFINE x == kept[n - 1]
               y == kept[n]
               m == Shortened(messages[n])
    <2>1. n \in 0..N /\ Good(x, n - 1) /\ y = Append(x, m) /\ m \in Shown
      BY <1>1, <1>3, <1>5
    <2> HIDE DEF x, y, m
    <2>2. y \in Seq(Shown) /\ Len(y) = n /\ y[n] = m /\ \A i \in 1..n - 1 : y[i] = x[i]
      BY <1>1, <2>1
    <2>3. \A i \in 1..n : i = n \/ i \in 1..n - 1
      BY <1>1
    <2>4. Good(y, n)
      BY <2>1, <2>2, <2>3 DEF m
    <2> QED BY <2>1, <2>4 DEF y
  <1> HIDE DEF G
  <1>6. \A n \in 0..N : n \in G
    BY <1>1, <1>4, <1>5, UpToInduction
  <1>7. N \in G
    BY <1>1, <1>6
  <1> QED BY <1>3, <1>7 DEF G

\* Numbers of messages before turn t.
Before(c, t) == c \in Seq(Nat) /\ \A i \in 1..Len(c) : c[i] \in Sequences /\ c[i] < 2 * t - 1

MessagesOf(c) == [i \in DOMAIN c |-> Message(c[i])]
Candidates(c, t) == Newest(EligibleMessages(MessagesOf(c), t), MaxMessages)

\* A stored message before turn t has an older generation and a text.
LEMMA MessageEligible ==
    ASSUME NEW t \in Turns, NEW s \in Sequences, s < 2 * t - 1
    PROVE  Message(s) \in Stored /\ Eligible(Message(s), t) /\ Message(s).sequence = s
  <1>1. s \in Nat /\ t \in Nat /\ (s + 1) \div 2 \in Nat /\ (s + 1) \div 2 < t
    BY Numbers, ConversationAssumption DEF Sequences, Turns
  <1>2. MessageChars[s] \in Nat /\ MessageChars[s] > 0
    BY ConversationAssumption
  <1> QED BY <1>1, <1>2 DEF Message, Stored, Eligible

\* The candidates are the newest of the messages, shortened.
LEMMA CandidatesFacts ==
    ASSUME NEW t \in Turns, NEW c, Before(c, t), NEW e, e = Candidates(c, t)
    PROVE  /\ e \in Seq(Shown) /\ Len(c) \in Nat
           /\ Len(e) = Len(c) - Skipped(Len(c), MaxMessages) /\ Len(e) <= MaxMessages
           /\ Skipped(Len(c), MaxMessages) \in Nat
           /\ \A i \in 1..Len(e) :
                 /\ Skipped(Len(c), MaxMessages) + i \in 1..Len(c)
                 /\ e[i] = Shortened(Message(c[Skipped(Len(c), MaxMessages) + i]))
  <1> DEFINE b == MessagesOf(c)
             a == EligibleMessages(b, t)
             k == Skipped(Len(c), MaxMessages)
  <1>1. \A i \in 1..Len(c) : /\ Message(c[i]) \in Stored /\ Eligible(Message(c[i]), t)
    BY MessageEligible DEF Before
  <1>2. Len(c) \in Nat /\ DOMAIN c = 1..Len(c)
    BY DEF Before
  <1>3. b \in Seq(Stored) /\ Len(b) = Len(c) /\ \A i \in 1..Len(c) : b[i] = Message(c[i])
    BY <1>1, <1>2 DEF MessagesOf
  <1> HIDE DEF b
  <1>4. \A i \in 1..Len(b) : Eligible(b[i], t)
    BY <1>1, <1>3
  <1>5. /\ a \in Seq(Shown) /\ Len(a) = Len(c)
        /\ \A i \in 1..Len(c) : a[i] = Shortened(Message(c[i]))
    BY <1>3, <1>4, AllKept
  <1>6. e = Newest(a, MaxMessages) /\ MaxMessages \in Nat
    BY HistoryAssumption DEF Candidates, b
  <1> HIDE DEF a
  <1>7. /\ e \in Seq(Shown) /\ Len(e) = Len(a) - Skipped(Len(a), MaxMessages)
        /\ Len(e) <= MaxMessages /\ Skipped(Len(a), MaxMessages) \in Nat
        /\ \A i \in 1..Len(e) : /\ Skipped(Len(a), MaxMessages) + i \in 1..Len(a)
                                /\ e[i] = a[Skipped(Len(a), MaxMessages) + i]
    BY <1>5, <1>6, NewestFacts
  <1>8. Skipped(Len(a), MaxMessages) = k
    BY <1>5
  <1> HIDE DEF k
  <1>9. \A i \in 1..Len(e) : k + i \in 1..Len(c) /\ e[i] = Shortened(Message(c[k + i]))
    BY <1>5, <1>7, <1>8
  <1> QED BY <1>2, <1>5, <1>7, <1>8, <1>9 DEF k

\* Candidates ascend as the numbers do.
LEMMA CandidatesAscend ==
    ASSUME NEW t \in Turns, NEW c, Before(c, t), NEW e, e = Candidates(c, t),
           \A i, j \in 1..Len(c) : i < j => c[i] < c[j]
    PROVE  Ascending(e)
  <1> DEFINE k == Skipped(Len(c), MaxMessages)
  <1>1. /\ e \in Seq(Shown) /\ k \in Nat
        /\ \A i \in 1..Len(e) : k + i \in 1..Len(c) /\ e[i] = Shortened(Message(c[k + i]))
    BY CandidatesFacts
  <1> HIDE DEF k
  <1>2. \A i \in 1..Len(c) : Shortened(Message(c[i])).sequence = c[i]
    <2> TAKE i \in 1..Len(c)
    <2>1. Message(c[i]) \in Stored /\ Message(c[i]).sequence = c[i]
      BY MessageEligible DEF Before
    <2> QED BY <2>1, ShortenedIsShown
  <1>3. ASSUME NEW i \in 1..Len(e), NEW j \in 1..Len(e), i < j
        PROVE  e[i].sequence < e[j].sequence
    <2>1. k + i < k + j
      BY <1>1, <1>3
    <2>2. c[k + i] < c[k + j]
      BY <1>1, <2>1
    <2>3. e[i].sequence = c[k + i] /\ e[j].sequence = c[k + j]
      BY <1>1, <1>2
    <2> QED BY <2>2, <2>3
  <1> QED BY <1>3 DEF Ascending

LEMMA SkippedTwice ==
    ASSUME NEW n \in Nat, NEW m \in Nat
    PROVE  Skipped(n, 2 * m) + Skipped(n - Skipped(n, 2 * m), m) = Skipped(n, m)
  BY DEF Skipped

\* The limit of the read loses nothing: the candidates among the newest FetchLimit messages
\* are those among all of them.
LEMMA FetchIsEnough ==
    ASSUME NEW t \in Turns, NEW c, Before(c, t), NEW h, h = Newest(c, FetchLimit)
    PROVE  Candidates(h, t) = Candidates(c, t)
  <1> DEFINE M == MaxMessages
             k == Skipped(Len(c), FetchLimit)
             kc == Skipped(Len(c), M)
             kh == Skipped(Len(h), M)
             d == Candidates(h, t)
             e == Candidates(c, t)
  <1>1. M \in Nat /\ FetchLimit \in Nat /\ FetchLimit = 2 * M /\ c \in Seq(Nat) /\ Len(c) \in Nat
    BY HistoryAssumption DEF FetchLimit, Before
  <1>2. /\ h \in Seq(Nat) /\ Len(h) = Len(c) - k /\ k \in Nat
        /\ \A i \in 1..Len(h) : k + i \in 1..Len(c) /\ h[i] = c[k + i]
    <2>1. c \in Seq(NaturalNumbers)
      BY <1>1 DEF NaturalNumbers
    <2>2. /\ h \in Seq(NaturalNumbers) /\ Len(h) = Len(c) - k /\ k \in Nat
          /\ \A i \in 1..Len(h) : k + i \in 1..Len(c) /\ h[i] = c[k + i]
      BY <1>1, <2>1, NewestFacts
    <2> QED BY <2>2 DEF NaturalNumbers
  <1>3. Before(h, t)
    BY <1>2 DEF Before
  <1>4. /\ d \in Seq(Shown) /\ Len(d) = Len(h) - kh /\ kh \in Nat /\ Len(h) \in Nat
        /\ \A i \in 1..Len(d) : kh + i \in 1..Len(h) /\ d[i] = Shortened(Message(h[kh + i]))
    BY <1>3, CandidatesFacts
  <1>5. /\ e \in Seq(Shown) /\ Len(e) = Len(c) - kc /\ kc \in Nat
        /\ \A i \in 1..Len(e) : kc + i \in 1..Len(c) /\ e[i] = Shortened(Message(c[kc + i]))
    BY CandidatesFacts
  <1>6. k + kh = kc
    <2>1. Len(h) = Len(c) - k
      BY <1>2
    <2> QED BY <1>1, <2>1, SkippedTwice
  <1> HIDE DEF k, kh, kc, d, e, M
  <1>7. Len(d) = Len(e)
    <2>1. Len(h) = Len(c) - k /\ Len(d) = Len(h) - kh /\ Len(e) = Len(c) - kc
      BY <1>2, <1>4, <1>5
    <2>2. k \in Nat /\ kh \in Nat /\ kc \in Nat
      BY <1>2, <1>4, <1>5
    <2> QED BY <1>1, <1>6, <2>1, <2>2
  <1>8. ASSUME NEW i \in 1..Len(d) PROVE d[i] = e[i]
    <2>1. kh + i \in 1..Len(h) /\ d[i] = Shortened(Message(h[kh + i]))
      BY <1>4
    <2>2. h[kh + i] = c[k + (kh + i)]
      BY <1>2, <2>1
    <2>3. k + (kh + i) = kc + i
      BY <1>2, <1>4, <1>6
    <2>4. i \in 1..Len(e)
      BY <1>7
    <2>5. e[i] = Shortened(Message(c[kc + i]))
      BY <1>5, <2>4
    <2> QED BY <2>1, <2>2, <2>3, <2>5
  <1>9. d = e
    BY <1>4, <1>5, <1>7, <1>8, SeqEqual
  <1> QED BY <1>9 DEF d, e

\* A turn that recalls the conversation recalls what compile makes of all of it, within the
\* policy's bounds and in order: neither the race of a publication with the read, nor the
\* limit of the read, nor the choice of what fits loses or reorders a message.
THEOREM HistoryAlwaysComplete == Spec => []HistoryComplete
  <1>1. ASSUME RecallsConversation, NEW t \in Turns, turn[t].pc = "recalling"
        PROVE  /\ History(t) = CompileHistory([i \in DOMAIN Conversation(t) |-> Message(Conversation(t)[i])], t)
               /\ Len(History(t)) <= MaxMessages
               /\ History(t) /= <<>> => RenderedSize(History(t)) <= MaxChars
               /\ \A i, j \in DOMAIN History(t) :
                     i < j => History(t)[i].sequence < History(t)[j].sequence
    <2> DEFINE c == Conversation(t)
               h == turn[t].history
               e == Candidates(c, t)
               x == Select(e)
    <2>1. h = Newest(c, FetchLimit)
      BY <1>1 DEF RecallsConversation
    <2>2. /\ c \in Seq(Nat)
          /\ \A i \in 1..Len(c) : c[i] \in ConversationSet(t) /\ c[i] \in Sequences
          /\ \A i, j \in 1..Len(c) : i < j => c[i] < c[j]
      BY ConversationIsSorted, InOrderFacts
    <2>3. Before(c, t)
      BY <2>2 DEF Before, ConversationSet
    <2>4. History(t) = Select(Candidates(h, t))
      BY DEF History, CompileHistory, Candidates, MessagesOf
    <2>5. CompileHistory([i \in DOMAIN Conversation(t) |-> Message(Conversation(t)[i])], t) = x
      BY DEF CompileHistory, Candidates, MessagesOf
    <2> HIDE DEF c, h
    <2>6. Candidates(h, t) = e
      BY <2>1, <2>3, FetchIsEnough
    <2>7. e \in Seq(Shown) /\ Len(e) \in Nat /\ Len(e) <= MaxMessages /\ Ascending(e)
      BY <2>2, <2>3, CandidatesFacts, CandidatesAscend
    <2> HIDE DEF e
    <2>8. x \in Seq(Shown) /\ Bounded(x, Len(e))
      BY <2>7, SelectBounded
    <2>9. History(t) = x
      BY <2>4, <2>6
    <2> HIDE DEF x
    <2>10. Len(x) \in Nat /\ DOMAIN x = 1..Len(x)
      BY <2>8, ShownElements
    <2>11. Len(x) <= MaxMessages
      BY <2>7, <2>8, <2>10, HistoryAssumption DEF Bounded
    <2>12. \A i, j \in DOMAIN x : i < j => x[i].sequence < x[j].sequence
      BY <2>8, <2>10 DEF Bounded, Ascending
    <2>13. x /= <<>> => RenderedSize(x) <= MaxChars
      BY <2>8 DEF Bounded
    <2> QED BY <2>5, <2>9, <2>11, <2>12, <2>13
  <1>2. RecallsConversation => HistoryComplete
    BY <1>1 DEF HistoryComplete
  <1> QED BY <1>2, RecallsWholeConversation, PTL
=============================================================================
