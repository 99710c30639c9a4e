--------------------------- MODULE MailboxProofs ---------------------------
(* Theorems about module Mailbox, for every capacity, set of priorities,    *)
(* keys and producers and every overflow policy: the mailbox is bounded,    *)
(* loses no wakeup, accounts for every item and implements PriorityQueues.  *)
EXTENDS Mailbox, FiniteSetTheorems, SequenceTheorems, WellFoundedInduction, TLAPS

----------------------------------------------------------------------------
(* What a removal leaves of the queue *)

\* What list.remove/pop of one entry leaves (get and DROP_LOWEST).
LEMMA RemoveAtProperties ==
    ASSUME NEW S, NEW q \in Seq(S), NEW i \in 1 .. Len(q)
    PROVE  /\ RemoveAt(q, i) \in Seq(S)
           /\ Len(RemoveAt(q, i)) = Len(q) - 1
           /\ \A j \in 1 .. Len(q) - 1 : RemoveAt(q, i)[j] = IF j < i THEN q[j] ELSE q[j + 1]
<1> DEFINE front == SubSeq(q, 1, i - 1)
           back == SubSeq(q, i + 1, Len(q))
<1>1. Len(q) \in Nat /\ i - 1 \in Int /\ i + 1 \in Int
  BY LenProperties
<1>2. /\ front \in Seq(S) /\ Len(front) = i - 1
      /\ \A j \in 1 .. i - 1 : front[j] = q[j]
  BY <1>1, SubSeqProperties
<1>3. /\ back \in Seq(S) /\ Len(back) = Len(q) - i
      /\ \A j \in 1 .. Len(q) - i : back[j] = q[i + j]
  BY <1>1, SubSeqProperties
<1>4. /\ front \o back \in Seq(S)
      /\ Len(front \o back) = Len(front) + Len(back)
      /\ \A j \in 1 .. Len(front) + Len(back) :
            (front \o back)[j] = IF j <= Len(front) THEN front[j] ELSE back[j - Len(front)]
  BY <1>2, <1>3, ConcatProperties
<1>5. RemoveAt(q, i) = front \o back
  BY DEF RemoveAt
<1> HIDE DEF front, back
<1>6. ASSUME NEW j \in 1 .. Len(q) - 1
      PROVE  (front \o back)[j] = IF j < i THEN q[j] ELSE q[j + 1]
  <2>1. CASE j < i
    BY <2>1, <1>1, <1>2, <1>3, <1>4
  <2>2. CASE ~(j < i)
    <3>1. j - Len(front) \in 1 .. Len(q) - i /\ j > Len(front)
      BY <2>2, <1>1, <1>2
    <3>2. (front \o back)[j] = back[j - Len(front)]
      BY <3>1, <1>1, <1>2, <1>3, <1>4
    <3> QED BY <3>1, <3>2, <2>2, <1>1, <1>2, <1>3
  <2> QED BY <2>1, <2>2
<1> QED BY <1>1, <1>2, <1>3, <1>4, <1>5, <1>6

\* Every other entry is still there.
LEMMA RemoveAtKeeps ==
    ASSUME NEW S, NEW q \in Seq(S), NEW i \in 1 .. Len(q), NEW j \in 1 .. Len(q), j # i
    PROVE  \E k \in 1 .. Len(RemoveAt(q, i)) : RemoveAt(q, i)[k] = q[j]
<1> DEFINE rest == RemoveAt(q, i)
<1>1. /\ Len(q) \in Nat /\ Len(rest) = Len(q) - 1
      /\ \A k \in 1 .. Len(q) - 1 : rest[k] = IF k < i THEN q[k] ELSE q[k + 1]
  BY RemoveAtProperties, LenProperties
<1> HIDE DEF rest
<1>2. CASE j < i
  <2>1. j \in 1 .. Len(rest) /\ j \in 1 .. Len(q) - 1
    BY <1>1, <1>2
  <2> QED BY <1>1, <1>2, <2>1 DEF rest
<1>3. CASE j > i
  <2>1. j - 1 \in 1 .. Len(rest) /\ j - 1 \in 1 .. Len(q) - 1 /\ ~(j - 1 < i) /\ (j - 1) + 1 = j
    BY <1>1, <1>3
  <2>2. rest[j - 1] = q[j]
    BY <1>1, <2>1
  <2> QED BY <2>1, <2>2 DEF rest
<1> QED BY <1>1, <1>2, <1>3

\* DROP_LOWEST: the displaced entry goes and the new one is last.
LEMMA AppendRemoveAt ==
    ASSUME NEW S, NEW q \in Seq(S), NEW i \in 1 .. Len(q), NEW e \in S
    PROVE  /\ Append(RemoveAt(q, i), e) \in Seq(S)
           /\ Len(Append(RemoveAt(q, i), e)) = Len(q)
<1> DEFINE rest == RemoveAt(q, i)
<1>1. Len(q) \in Nat /\ rest \in Seq(S) /\ Len(rest) = Len(q) - 1
  BY RemoveAtProperties, LenProperties
<1> HIDE DEF rest
<1>2. Append(rest, e) \in Seq(S) /\ Len(Append(rest, e)) = Len(rest) + 1
  BY <1>1, AppendProperties
<1> QED BY <1>1, <1>2 DEF rest

----------------------------------------------------------------------------
(* The inductive invariant *)

\* WakeupsNotLost needs the bound (a displacement leaves the queue exactly
\* full, so the cleared event stays right), and both need the types.
IInv == TypeOK /\ Bounded /\ WakeupsNotLost

LEMMA BumpType ==
    ASSUME TypeOK, NEW names
    PROVE  Bump(names) \in [Counters -> Nat]
  BY DEF TypeOK, Bump

LEMMA NewItemType ==
    ASSUME TypeOK, puts < MaxPuts, NEW key \in KeysInUse, NEW priority \in Priorities
    PROVE  NewItem(key, priority) \in Item
  BY BoundAssumption DEF TypeOK, KeysInUse, NewItem, Item

\* What a successful attempt of _try_put_locked leaves behind.
LEMMA TryPutEffect ==
    ASSUME IInv, NEW item \in Item, NEW displacing, TryPut(item, displacing)
    PROVE  /\ items' \in Seq(Item)
           /\ Len(items') \in 1 .. Capacity
           /\ space' \in BOOLEAN
           /\ space' => space
           /\ space' <=> Len(items') < Capacity
           /\ stats' \in [Counters -> Nat]
           /\ consumer' \in {"busy", "notified", "ended"}
           /\ ~closed
<1> USE CapacityAssumption
<1>1. /\ items \in Seq(Item) /\ Len(items) \in Nat /\ DOMAIN items = 1 .. Len(items)
      /\ Len(items) <= Capacity /\ space \in BOOLEAN
      /\ consumer \in {"busy", "parked", "notified", "ended"}
  BY LenProperties DEF IInv, TypeOK, Bounded
<1>2. consumer' \in {"busy", "notified", "ended"} /\ ~closed
  BY <1>1 DEF TryPut, Notify
<1>3. space <=> Len(items) < Capacity
  BY <1>2 DEF IInv, WakeupsNotLost
<1>4. stats' \in [Counters -> Nat]
  BY BumpType DEF TryPut, Coalesce, Accept, Displace, IInv
<1>5. CASE Coalesce(item)
  <2>1. PICK i \in DOMAIN items : items' = [items EXCEPT ![i] = item]
    BY <1>5 DEF Coalesce
  <2>2. items' \in Seq(Item) /\ Len(items') = Len(items)
    BY <1>1, <2>1, ExceptSeq
  <2>3. space' = space /\ Len(items) >= 1
    BY <1>1, <1>5, <2>1 DEF Coalesce
  <2> QED BY <1>1, <1>2, <1>3, <1>4, <2>2, <2>3
<1>6. CASE Accept(item)
  <2>1. items' \in Seq(Item) /\ Len(items') = Len(items) + 1
    BY <1>1, <1>6, AppendProperties DEF Accept, AppendItem
  <2>2. Len(items) < Capacity
    BY <1>6 DEF Accept
  <2>3. space' \in BOOLEAN /\ (space' <=> space /\ Len(items) + 1 < Capacity)
    BY <1>1, <1>6 DEF Accept, AppendItem
  <2>4. space' <=> Len(items') < Capacity
    BY <1>1, <1>3, <2>1, <2>2, <2>3
  <2> QED BY <1>1, <1>2, <1>4, <2>1, <2>2, <2>3, <2>4
<1>7. CASE Displace(item, displacing)
  <2>1. PICK i \in DOMAIN items : AppendItem(RemoveAt(items, i), item)
    BY <1>7 DEF Displace
  <2>2. RemoveAt(items, i) \in Seq(Item) /\ Len(RemoveAt(items, i)) = Len(items) - 1
    BY <1>1, <2>1, RemoveAtProperties
  <2>3. items' \in Seq(Item) /\ Len(items') = Len(items)
    <3> DEFINE rest == RemoveAt(items, i)
    <3>1. items' = Append(rest, item)
      BY <2>1 DEF AppendItem
    <3> HIDE DEF rest
    <3>2. rest \in Seq(Item) /\ Len(rest) = Len(items) - 1
      BY <2>2 DEF rest
    <3>3. Append(rest, item) \in Seq(Item) /\ Len(Append(rest, item)) = Len(rest) + 1
      BY <3>2, AppendProperties
    <3> QED BY <1>1, <3>1, <3>2, <3>3
  <2>4. Len(items) >= Capacity /\ space' = (space /\ Len(items) < Capacity)
    BY <1>1, <1>7, <2>1, <2>2 DEF Displace, AppendItem
  <2> QED BY <1>1, <1>2, <1>3, <1>4, <2>3, <2>4
<1> QED BY <1>5, <1>6, <1>7 DEF TryPut

\* An attempt that finds no room leaves the event cleared.
LEMMA NoRoomMeansCleared ==
    ASSUME IInv, NEW item, NEW displacing, NoRoom(item, displacing)
    PROVE  ~space
  BY CapacityAssumption DEF IInv, TypeOK, WakeupsNotLost, NoRoom

LEMMA SignalSpaceEffect ==
    ASSUME TypeOK, SignalSpace
    PROVE  /\ waiter' \in [Producers -> Waiter \cup {NotWaiting}]
           /\ \A p \in Producers : waiter'[p] # NotWaiting => waiter'[p].woken
  BY NotWaitingAssumption DEF TypeOK, SignalSpace, Waiting, Waiter

LEMMA InitIInv == Init => IInv
<1> SUFFICES ASSUME Init PROVE IInv
  OBVIOUS
<1>1. items \in Seq(Item) /\ Len(items) = 0
  BY EmptySeq DEF Init
<1>2. TypeOK
  <2>1. stats \in [Counters -> Nat] /\ waiter \in [Producers -> Waiter \cup {NotWaiting}]
    BY DEF Init
  <2>2. puts \in 0 .. MaxPuts
    BY BoundAssumption DEF Init
  <2>3. /\ policy \in Policies /\ closed \in BOOLEAN /\ space \in BOOLEAN
        /\ consumer \in {"busy", "parked", "notified", "ended"}
    BY DEF Init
  <2> QED BY <1>1, <2>1, <2>2, <2>3 DEF TypeOK
<1>3. Bounded /\ WakeupsNotLost
  BY <1>1, CapacityAssumption DEF Init, Bounded, WakeupsNotLost, Waiting
<1> QED BY <1>2, <1>3 DEF IInv

\* A caller of put or put_wait whose attempt succeeds, at once or when woken.
LEMMA AdmittedStep ==
    ASSUME IInv, NEW item \in Item, NEW displacing, TryPut(item, displacing),
           UNCHANGED <<policy, closed>>, puts' \in 0 .. MaxPuts,
           waiter' \in [Producers -> Waiter \cup {NotWaiting}],
           \A p \in Producers : waiter'[p] \in {waiter[p], NotWaiting}
    PROVE  IInv'
<1>1. /\ items' \in Seq(Item) /\ Len(items') \in 1 .. Capacity
      /\ space' \in BOOLEAN /\ (space' => space)
      /\ space' <=> Len(items') < Capacity
      /\ stats' \in [Counters -> Nat]
      /\ consumer' \in {"busy", "notified", "ended"} /\ ~closed
  BY TryPutEffect
<1>2. TypeOK'
  BY <1>1 DEF IInv, TypeOK
<1>3. Bounded'
  BY <1>1, CapacityAssumption DEF Bounded
<1>4. WakeupsNotLost'
  <2>1. ASSUME NEW p \in Producers, waiter'[p] # NotWaiting, ~waiter'[p].woken
        PROVE  ~space'
    BY <1>1, <2>1 DEF IInv, WakeupsNotLost, Waiting
  <2> QED BY <1>1, <2>1 DEF WakeupsNotLost, Waiting
<1> QED BY <1>2, <1>3, <1>4 DEF IInv

\* A step that leaves the queue, the event and the consumer alone.
LEMMA QuietStep ==
    ASSUME IInv, UNCHANGED <<policy, items, closed, space, consumer>>,
           puts' \in 0 .. MaxPuts, stats' \in [Counters -> Nat],
           waiter' \in [Producers -> Waiter \cup {NotWaiting}],
           \A p \in Producers : \/ waiter'[p] = NotWaiting
                                \/ waiter'[p].woken
                                \/ waiter[p] # NotWaiting /\ ~waiter[p].woken
                                \/ ~space
    PROVE  IInv'
<1>1. TypeOK' /\ Bounded'
  BY DEF IInv, TypeOK, Bounded
<1>2. WakeupsNotLost'
  BY DEF IInv, WakeupsNotLost, Waiting
<1> QED BY <1>1, <1>2 DEF IInv

\* get and close: the event is set, so every waiter has been woken.
LEMMA SignalStep ==
    ASSUME IInv, SignalSpace, UNCHANGED <<policy, puts>>,
           items' \in Seq(Item), Len(items') <= Capacity, stats' \in [Counters -> Nat],
           closed' \in BOOLEAN, closed' \/ Len(items') < Capacity,
           consumer' \in {"busy", "notified", "ended"}
    PROVE  IInv'
<1>1. /\ waiter' \in [Producers -> Waiter \cup {NotWaiting}]
      /\ \A p \in Producers : waiter'[p] # NotWaiting => waiter'[p].woken
  BY SignalSpaceEffect DEF IInv
<1>2. space' = TRUE
  BY DEF SignalSpace
<1>3. TypeOK' /\ Bounded'
  BY <1>1, <1>2 DEF IInv, TypeOK, Bounded
<1>4. WakeupsNotLost'
  BY <1>1, <1>2 DEF WakeupsNotLost, Waiting
<1> QED BY <1>3, <1>4 DEF IInv

LEMMA NextIInv == IInv /\ [Next]_vars => IInv'
<1> SUFFICES ASSUME IInv, [Next]_vars PROVE IInv'
  OBVIOUS
<1>0. /\ TypeOK /\ Bounded /\ items \in Seq(Item) /\ Len(items) \in Nat
      /\ DOMAIN items = 1 .. Len(items)
      /\ waiter \in [Producers -> Waiter \cup {NotWaiting}]
      /\ puts \in 0 .. MaxPuts /\ stats \in [Counters -> Nat]
  BY LenProperties DEF IInv, TypeOK
<1> USE BoundAssumption
<1>1. ASSUME NEW p \in Producers, NEW key \in KeysInUse, NEW priority \in Priorities,
             Put(p, key, priority)
      PROVE  IInv'
  <2>0. CallPut(p) /\ NewItem(key, priority) \in Item
    BY <1>0, <1>1, NewItemType DEF Put, PutAdmitted, PutRejected, CallPut
  <2>1. CASE PutAdmitted(p, key, priority)
    <3>1. TryPut(NewItem(key, priority), TRUE) /\ UNCHANGED waiter
      BY <2>1 DEF PutAdmitted
    <3>2. UNCHANGED <<policy, closed>> /\ puts' \in 0 .. MaxPuts
      BY <1>0, <2>0 DEF CallPut
    <3> QED BY <1>0, <2>0, <3>1, <3>2, AdmittedStep
  <2>2. CASE PutRejected(p, key, priority)
    BY <1>0, <2>0, <2>2, BumpType, QuietStep DEF PutRejected, CallPut, IInv, WakeupsNotLost, Waiting
  <2> QED BY <1>1, <2>1, <2>2 DEF Put
<1>2. ASSUME NEW p \in Producers, NEW key \in KeysInUse, NEW priority \in Priorities,
             NEW displacing \in BOOLEAN, PutWait(p, key, priority, displacing)
      PROVE  IInv'
  <2>0. CallPut(p) /\ NewItem(key, priority) \in Item
    BY <1>0, <1>2, NewItemType DEF PutWait, PutWaitAdmitted, PutWaitParks, CallPut
  <2>1. CASE PutWaitAdmitted(p, key, priority, displacing)
    <3>1. TryPut(NewItem(key, priority), displacing) /\ UNCHANGED waiter
      BY <2>1 DEF PutWaitAdmitted
    <3> QED BY <1>0, <2>0, <3>1, AdmittedStep DEF CallPut
  <2>2. CASE PutWaitParks(p, key, priority, displacing)
    <3> DEFINE parked == [item |-> NewItem(key, priority), displacing |-> displacing,
                          live |-> TRUE, woken |-> FALSE]
    <3>1. ~space
      BY <2>2, NoRoomMeansCleared DEF PutWaitParks
    <3>2. parked \in Waiter
      BY <2>0 DEF Waiter
    <3>3. waiter' = [waiter EXCEPT ![p] = parked]
      BY <2>2 DEF PutWaitParks
    <3> HIDE DEF parked
    <3>4. waiter' \in [Producers -> Waiter \cup {NotWaiting}]
      BY <1>0, <3>2, <3>3
    <3> QED BY <1>0, <2>0, <2>2, <3>1, <3>4, QuietStep DEF PutWaitParks, CallPut
  <2> QED BY <1>2, <2>1, <2>2 DEF PutWait
<1>3. ASSUME NEW p \in Producers, PutRefused(p) \/ Supersede(p) \/ Abandon(p)
      PROVE  IInv'
  <2>1. CASE PutRefused(p)
    BY <1>0, <2>1, BumpType, QuietStep DEF PutRefused, CallPut, IInv, WakeupsNotLost, Waiting
  <2>2. CASE Supersede(p)
    <3>1. waiter[p] \in Waiter /\ waiter' = [waiter EXCEPT ![p].live = FALSE]
      BY <1>0, <2>2 DEF Supersede, Waiting
    <3>2. waiter' \in [Producers -> Waiter \cup {NotWaiting}]
      BY <1>0, <3>1 DEF Waiter
    <3>3. \A q \in Producers : \/ waiter'[q] = NotWaiting
                               \/ waiter'[q].woken
                               \/ waiter[q] # NotWaiting /\ ~waiter[q].woken
      BY <1>0, <3>1, NotWaitingAssumption DEF Waiter
    <3> QED BY <1>0, <2>2, <3>2, <3>3, QuietStep DEF Supersede
  <2>3. CASE Abandon(p)
    BY <1>0, <2>3, BumpType, QuietStep DEF Abandon, Leave, IInv, WakeupsNotLost, Waiting
  <2> QED BY <1>3, <2>1, <2>2, <2>3
<1>4. ASSUME NEW p \in Producers, Resume(p)
      PROVE  IInv'
  <2>1. CASE ResumeCancelled(p) \/ ResumeClosed(p)
    BY <1>0, <2>1, BumpType, QuietStep
    DEF ResumeCancelled, ResumeClosed, Leave, IInv, WakeupsNotLost, Waiting
  <2>2. CASE ResumeAdmitted(p)
    <3>1. waiter[p] \in Waiter /\ waiter[p].item \in Item
      BY <1>0, <2>2 DEF ResumeAdmitted, Waiting, Waiter
    <3>2. TryPut(waiter[p].item, waiter[p].displacing) /\ Leave(p) /\ UNCHANGED <<policy, closed, puts>>
      BY <2>2 DEF ResumeAdmitted
    <3> QED BY <1>0, <3>1, <3>2, AdmittedStep DEF Leave
  <2>3. CASE ResumeParks(p)
    <3>1. ~space
      BY <2>3, NoRoomMeansCleared DEF ResumeParks
    <3>2. waiter[p] \in Waiter /\ waiter' = [waiter EXCEPT ![p].woken = FALSE]
      BY <1>0, <2>3 DEF ResumeParks, Waiting
    <3>3. waiter' \in [Producers -> Waiter \cup {NotWaiting}]
      BY <1>0, <3>2 DEF Waiter
    <3> QED BY <1>0, <2>3, <3>1, <3>3, QuietStep DEF ResumeParks
  <2> QED BY <1>4, <2>1, <2>2, <2>3 DEF Resume
<1>5. CASE Get
  <2>1. PICK i \in DOMAIN items : items' = RemoveAt(items, i)
    BY <1>5 DEF Get
  <2>2. items' \in Seq(Item) /\ Len(items') = Len(items) - 1
    BY <1>0, <2>1, RemoveAtProperties
  <2>3. Len(items') < Capacity /\ Len(items') <= Capacity
    BY <1>0, <2>2, CapacityAssumption DEF Bounded
  <2>4. stats' \in [Counters -> Nat] /\ SignalSpace /\ UNCHANGED <<policy, closed, puts>>
        /\ consumer' = "busy" /\ closed \in BOOLEAN
    BY <1>0, <1>5, BumpType DEF Get, TypeOK
  <2> QED BY <2>2, <2>3, <2>4, SignalStep
<1>6. CASE GetParks \/ GetClosed
  <2>1. TypeOK' /\ Bounded'
    BY <1>0, <1>6 DEF GetParks, GetClosed, TypeOK, Bounded
  <2>2. WakeupsNotLost'
    BY <1>6 DEF GetParks, GetClosed, IInv, WakeupsNotLost, Waiting
  <2> QED BY <2>1, <2>2 DEF IInv
<1>7. ASSUME NEW discard \in BOOLEAN, Close(discard)
      PROVE  IInv'
  <2>1. items' \in Seq(Item) /\ Len(items') <= Capacity
    BY <1>0, <1>7, EmptySeq, CapacityAssumption DEF Close, Bounded
  <2>2. stats' \in [Counters -> Nat]
    BY <1>0, <1>7 DEF Close, Counters
  <2>3. SignalSpace /\ closed' = TRUE /\ UNCHANGED <<policy, puts>>
        /\ consumer' \in {"busy", "notified", "ended"}
    BY <1>0, <1>7 DEF Close, Notify, TypeOK
  <2> QED BY <2>1, <2>2, <2>3, SignalStep
<1>8. CASE UNCHANGED vars
  BY <1>8 DEF vars, IInv, TypeOK, Bounded, WakeupsNotLost, Waiting
<1> QED BY <1>1, <1>2, <1>3, <1>4, <1>5, <1>6, <1>7, <1>8 DEF Next

----------------------------------------------------------------------------
(* The theorems *)

LEMMA Invariance == Spec => []IInv
<1>1. Init => IInv
  BY InitIInv
<1>2. IInv /\ [Next]_vars => IInv'
  BY NextIInv
<1> QED BY <1>1, <1>2, PTL DEF Spec

\* Every variable keeps its type: in particular an entry in the queue or in a
\* suspended put_wait is always an item some call submitted.
THEOREM TypeCorrect == Spec => []TypeOK
<1>1. IInv => TypeOK
  BY DEF IInv
<1> QED BY <1>1, Invariance, PTL

\* The bound of the mailbox holds for every capacity and policy: neither a
\* woken waiter nor a displacement ever makes the queue exceed _capacity.
THEOREM CapacityRespected == Spec => []Bounded
<1>1. IInv => Bounded
  BY DEF IInv
<1> QED BY <1>1, Invariance, PTL

\* No wakeup of a producer or of the consumer is ever lost, for any number of
\* producers: the event and the condition variable of PriorityMailbox are
\* always set, cleared and notified together with the queue.
THEOREM NoLostWakeup == Spec => []WakeupsNotLost
<1>1. IInv => WakeupsNotLost
  BY DEF IInv
<1> QED BY <1>1, Invariance, PTL

----------------------------------------------------------------------------
(* The counters *)

Waiters == {p \in Producers : Waiting(p)}

\* The calls that have ended, and the accepted items that have left the queue.
Ended == stats["accepted"] + stats["rejected"] + stats["cancelled"] + stats["raised"]
Left == stats["coalesced"] + stats["dequeued"] + stats["evicted"] + stats["discarded"]

CallsAccounted == puts = Ended + Cardinality(Waiters)
ItemsAccounted == stats["accepted"] = Left + Len(items)

LEMMA AccountedParts == Accounted <=> CallsAccounted /\ ItemsAccounted
  BY DEF Accounted, CallsAccounted, ItemsAccounted, Ended, Left, Waiters

LEMMA CounterTypes ==
    ASSUME TypeOK
    PROVE  /\ \A c \in Counters : stats[c] \in Nat
           /\ Ended \in Nat /\ Left \in Nat /\ Len(items) \in Nat /\ puts \in Nat
<1>1. \A c \in Counters : stats[c] \in Nat
  BY DEF TypeOK
<1>2. Len(items) \in Nat /\ puts \in Nat
  BY BoundAssumption, LenProperties DEF TypeOK
<1>3. /\ stats["accepted"] \in Nat /\ stats["rejected"] \in Nat /\ stats["cancelled"] \in Nat
      /\ stats["raised"] \in Nat
  BY <1>1 DEF Counters
<1>4. /\ stats["coalesced"] \in Nat /\ stats["dequeued"] \in Nat /\ stats["evicted"] \in Nat
      /\ stats["discarded"] \in Nat
  BY <1>1 DEF Counters
<1>5. Ended \in Nat /\ Left \in Nat
  BY <1>3, <1>4 DEF Ended, Left
<1> QED BY <1>1, <1>2, <1>5

LEMMA WaitersFinite == IsFiniteSet(Waiters) /\ Cardinality(Waiters) \in Nat
  BY ProducersAssumption, FS_Subset, FS_CardinalityType DEF Waiters

\* One call ends, at once or out of put_wait; names are the counters it bumps.
LEMMA OneOutcome ==
    ASSUME TypeOK, NEW names, NEW outcome \in {"accepted", "rejected", "cancelled", "raised"},
           stats' = Bump(names), outcome \in names,
           names \cap {"accepted", "rejected", "cancelled", "raised"} = {outcome}
    PROVE  Ended' = Ended + 1
<1>1. \A c \in Counters : stats'[c] = IF c \in names THEN stats[c] + 1 ELSE stats[c]
  BY DEF Bump
<1>2. \A c \in Counters : stats[c] \in Nat
  BY CounterTypes
<1>3. CASE outcome = "accepted"
  <2>1. /\ stats'["accepted"] = stats["accepted"] + 1 /\ stats'["rejected"] = stats["rejected"]
        /\ stats'["cancelled"] = stats["cancelled"] /\ stats'["raised"] = stats["raised"]
    BY <1>1, <1>3 DEF Counters
  <2> QED BY <1>2, <2>1 DEF Ended, Counters
<1>4. CASE outcome = "rejected"
  <2>1. /\ stats'["accepted"] = stats["accepted"] /\ stats'["rejected"] = stats["rejected"] + 1
        /\ stats'["cancelled"] = stats["cancelled"] /\ stats'["raised"] = stats["raised"]
    BY <1>1, <1>4 DEF Counters
  <2> QED BY <1>2, <2>1 DEF Ended, Counters
<1>5. CASE outcome = "cancelled"
  <2>1. /\ stats'["accepted"] = stats["accepted"] /\ stats'["rejected"] = stats["rejected"]
        /\ stats'["cancelled"] = stats["cancelled"] + 1 /\ stats'["raised"] = stats["raised"]
    BY <1>1, <1>5 DEF Counters
  <2> QED BY <1>2, <2>1 DEF Ended, Counters
<1>6. CASE outcome = "raised"
  <2>1. /\ stats'["accepted"] = stats["accepted"] /\ stats'["rejected"] = stats["rejected"]
        /\ stats'["cancelled"] = stats["cancelled"] /\ stats'["raised"] = stats["raised"] + 1
    BY <1>1, <1>6 DEF Counters
  <2> QED BY <1>2, <2>1 DEF Ended, Counters
<1> QED BY <1>3, <1>4, <1>5, <1>6

\* An outcome that is not acceptance leaves the items as they are.
LEMMA NoItem ==
    ASSUME TypeOK, ItemsAccounted, UNCHANGED items,
           NEW outcome \in {"rejected", "cancelled", "raised"}, stats' = Bump({outcome})
    PROVE  Ended' = Ended + 1 /\ ItemsAccounted'
<1>1. Ended' = Ended + 1
  BY OneOutcome
<1>2. \A c \in Counters : stats'[c] = IF c \in {outcome} THEN stats[c] + 1 ELSE stats[c]
  BY DEF Bump
<1>3. \A c \in {"accepted", "coalesced", "dequeued", "evicted", "discarded"} : stats'[c] = stats[c]
  BY <1>2 DEF Counters
<1>4. ItemsAccounted'
  BY <1>3 DEF ItemsAccounted, Left
<1> QED BY <1>1, <1>4

LEMMA OneMore ==
    ASSUME NEW a \in Nat, NEW b \in Nat, NEW c \in Nat, NEW d \in Nat
    PROVE  /\ (a + 1) + b + c + d = a + b + c + d + 1 /\ a + (b + 1) + c + d = a + b + c + d + 1
           /\ a + b + (c + 1) + d = a + b + c + d + 1
OBVIOUS

\* _try_put_locked counts each item it takes, and the one that makes room for it.
LEMMA ItemTaken ==
    ASSUME IInv, ItemsAccounted, NEW item \in Item, NEW displacing, TryPut(item, displacing)
    PROVE  Ended' = Ended + 1 /\ ItemsAccounted'
<1>0. TypeOK /\ items \in Seq(Item) /\ Len(items) \in Nat /\ DOMAIN items = 1 .. Len(items)
  BY LenProperties DEF IInv, TypeOK
<1>1. \A c \in Counters : stats[c] \in Nat
  BY <1>0, CounterTypes
<1>2. /\ Left \in Nat /\ stats["accepted"] = Left + Len(items)
      /\ stats["coalesced"] \in Nat /\ stats["dequeued"] \in Nat /\ stats["evicted"] \in Nat
      /\ stats["discarded"] \in Nat
  BY <1>0, <1>1, CounterTypes DEF ItemsAccounted, Counters
<1>3. ASSUME NEW names, stats' = Bump(names), names \subseteq Counters, "accepted" \in names,
             names \cap {"rejected", "cancelled", "raised"} = {}
      PROVE  Ended' = Ended + 1
    <2>1. names \cap {"accepted", "rejected", "cancelled", "raised"} = {"accepted"}
      BY <1>3
    <2> QED BY <1>0, <1>3, <2>1, OneOutcome
<1>4. CASE Coalesce(item)
  <2>1. PICK i \in DOMAIN items : items' = [items EXCEPT ![i] = item]
    BY <1>4 DEF Coalesce
  <2>2. Len(items') = Len(items)
    BY <1>0, <2>1, ExceptSeq
  <2>3. stats' = Bump({"accepted", "coalesced"})
    BY <1>4 DEF Coalesce
  <2>4. Ended' = Ended + 1
    BY <1>3, <2>3 DEF Counters
  <2>5. /\ stats'["accepted"] = stats["accepted"] + 1 /\ stats'["coalesced"] = stats["coalesced"] + 1
        /\ stats'["dequeued"] = stats["dequeued"] /\ stats'["evicted"] = stats["evicted"]
        /\ stats'["discarded"] = stats["discarded"]
    BY <2>3 DEF Bump, Counters
  <2>6. Left' = Left + 1
    BY <1>2, <2>5, OneMore DEF Left
  <2>7. ItemsAccounted'
    BY <1>0, <1>2, <2>2, <2>5, <2>6 DEF ItemsAccounted
  <2> QED BY <2>4, <2>7
<1>5. CASE Accept(item)
  <2>1. Len(items') = Len(items) + 1
    BY <1>0, <1>5, AppendProperties DEF Accept, AppendItem
  <2>2. stats' = Bump({"accepted"})
    BY <1>5 DEF Accept
  <2>3. Ended' = Ended + 1
    BY <1>3, <2>2 DEF Counters
  <2>4. /\ stats'["accepted"] = stats["accepted"] + 1 /\ stats'["coalesced"] = stats["coalesced"]
        /\ stats'["dequeued"] = stats["dequeued"] /\ stats'["evicted"] = stats["evicted"]
        /\ stats'["discarded"] = stats["discarded"]
    BY <2>2 DEF Bump, Counters
  <2>5. Left' = Left
    BY <2>4 DEF Left
  <2>6. ItemsAccounted'
    BY <1>0, <1>2, <2>1, <2>4, <2>5 DEF ItemsAccounted
  <2> QED BY <2>3, <2>6
<1>6. CASE Displace(item, displacing)
  <2>1. PICK i \in DOMAIN items : AppendItem(RemoveAt(items, i), item)
    BY <1>6 DEF Displace
  <2>2. Len(items') = Len(items)
    <3>1. items' = Append(RemoveAt(items, i), item)
      BY <2>1 DEF AppendItem
    <3>2. items \in Seq(Item) /\ i \in 1 .. Len(items)
      BY <1>0
    <3>3. Len(Append(RemoveAt(items, i), item)) = Len(items)
      BY <3>2, AppendRemoveAt
    <3> QED BY <3>1, <3>3
  <2>3. stats' = Bump({"accepted", "evicted"})
    BY <1>6 DEF Displace
  <2>4. Ended' = Ended + 1
    BY <1>3, <2>3 DEF Counters
  <2>5. /\ stats'["accepted"] = stats["accepted"] + 1 /\ stats'["coalesced"] = stats["coalesced"]
        /\ stats'["dequeued"] = stats["dequeued"] /\ stats'["evicted"] = stats["evicted"] + 1
        /\ stats'["discarded"] = stats["discarded"]
    BY <2>3 DEF Bump, Counters
  <2>6. Left' = Left + 1
    <3> DEFINE a == stats["coalesced"]
               b == stats["dequeued"]
               c == stats["evicted"]
               d == stats["discarded"]
    <3>1. a \in Nat /\ b \in Nat /\ c \in Nat /\ d \in Nat
      BY <1>2
    <3>2. Left' = a + b + (c + 1) + d /\ Left = a + b + c + d
      BY <2>5 DEF Left
    <3> HIDE DEF a, b, c, d
    <3> QED BY <3>1, <3>2
  <2>7. ItemsAccounted'
    BY <1>0, <1>2, <2>2, <2>5, <2>6 DEF ItemsAccounted
  <2> QED BY <2>4, <2>7
<1> QED BY <1>4, <1>5, <1>6 DEF TryPut

\* A call that never waits, one that parks, one that leaves put_wait, and a step of others.
LEMMA CallEnds ==
    ASSUME TypeOK, CallsAccounted, puts' = puts + 1, Ended' = Ended + 1, UNCHANGED waiter
    PROVE  CallsAccounted'
<1>1. Waiters' = Waiters
  BY DEF Waiters, Waiting
<1> QED BY <1>1, CounterTypes, WaitersFinite DEF CallsAccounted

LEMMA CallParks ==
    ASSUME TypeOK, CallsAccounted, puts' = puts + 1, Ended' = Ended,
           NEW p \in Producers, ~Waiting(p), Waiters' = Waiters \cup {p}
    PROVE  CallsAccounted'
<1>1. p \notin Waiters
  BY DEF Waiters
<1>2. Cardinality(Waiters') = Cardinality(Waiters) + 1
  BY <1>1, FS_AddElement, WaitersFinite
<1> QED BY <1>2, CounterTypes, WaitersFinite DEF CallsAccounted

LEMMA CallLeaves ==
    ASSUME TypeOK, CallsAccounted, puts' = puts, Ended' = Ended + 1,
           NEW p \in Producers, Waiting(p), Leave(p)
    PROVE  CallsAccounted'
<1>1. p \in Waiters
  BY DEF Waiters
<1>2. Waiters' = Waiters \ {p}
  BY DEF Waiters, Waiting, Leave, TypeOK
<1>3. Cardinality(Waiters') = Cardinality(Waiters) - 1
  BY <1>1, <1>2, FS_RemoveElement, WaitersFinite
<1> QED BY <1>3, CounterTypes, WaitersFinite DEF CallsAccounted

LEMMA CallsStay ==
    ASSUME CallsAccounted, puts' = puts, Ended' = Ended, Waiters' = Waiters
    PROVE  CallsAccounted'
  BY DEF CallsAccounted

LEMMA SignalKeepsWaiters ==
    ASSUME TypeOK, SignalSpace
    PROVE  Waiters' = Waiters
<1>1. ASSUME NEW p \in Producers PROVE Waiting(p)' <=> Waiting(p)
  <2>1. CASE Waiting(p)
    <3>1. waiter[p] \in Waiter /\ waiter'[p] = [waiter[p] EXCEPT !.woken = TRUE]
      BY <2>1 DEF TypeOK, SignalSpace, Waiting
    <3>2. waiter'[p] \in Waiter
      BY <3>1 DEF Waiter
    <3> QED BY <2>1, <3>2, NotWaitingAssumption DEF Waiting
  <2>2. CASE ~Waiting(p)
    BY <2>2 DEF SignalSpace, Waiting
  <2> QED BY <2>1, <2>2
<1> QED BY <1>1 DEF Waiters

LEMMA NextAccounted == IInv /\ Accounted /\ [Next]_vars => Accounted'
<1> SUFFICES ASSUME IInv, CallsAccounted, ItemsAccounted, [Next]_vars
             PROVE  CallsAccounted' /\ ItemsAccounted'
  BY AccountedParts DEF Accounted, CallsAccounted, ItemsAccounted, Ended, Left, Waiters
<1>0. /\ TypeOK /\ items \in Seq(Item) /\ Len(items) \in Nat /\ DOMAIN items = 1 .. Len(items)
      /\ waiter \in [Producers -> Waiter \cup {NotWaiting}]
  BY LenProperties DEF IInv, TypeOK
<1>1. /\ Left \in Nat /\ stats["accepted"] = Left + Len(items)
      /\ stats["coalesced"] \in Nat /\ stats["dequeued"] \in Nat /\ stats["evicted"] \in Nat
      /\ stats["discarded"] \in Nat
  BY <1>0, CounterTypes DEF ItemsAccounted, Counters
<1>2. ASSUME NEW p \in Producers, NEW key \in KeysInUse, NEW priority \in Priorities,
             Put(p, key, priority)
      PROVE  CallsAccounted' /\ ItemsAccounted'
  <2>1. NewItem(key, priority) \in Item /\ puts' = puts + 1 /\ UNCHANGED waiter
    BY <1>0, <1>2, NewItemType DEF Put, PutAdmitted, PutRejected, CallPut
  <2>2. Ended' = Ended + 1 /\ ItemsAccounted'
    BY <1>0, <1>2, <2>1, ItemTaken, NoItem DEF Put, PutAdmitted, PutRejected
  <2> QED BY <1>0, <2>1, <2>2, CallEnds
<1>3. ASSUME NEW p \in Producers, NEW key \in KeysInUse, NEW priority \in Priorities,
             NEW displacing \in BOOLEAN, PutWait(p, key, priority, displacing)
      PROVE  CallsAccounted' /\ ItemsAccounted'
  <2>1. NewItem(key, priority) \in Item /\ puts' = puts + 1 /\ ~Waiting(p)
    BY <1>0, <1>3, NewItemType DEF PutWait, PutWaitAdmitted, PutWaitParks, CallPut
  <2>2. CASE PutWaitAdmitted(p, key, priority, displacing)
    <3>1. Ended' = Ended + 1 /\ ItemsAccounted' /\ UNCHANGED waiter
      BY <2>1, <2>2, ItemTaken DEF PutWaitAdmitted
    <3> QED BY <1>0, <2>1, <3>1, CallEnds
  <2>3. CASE PutWaitParks(p, key, priority, displacing)
    <3> DEFINE parked == [item |-> NewItem(key, priority), displacing |-> displacing,
                          live |-> TRUE, woken |-> FALSE]
    <3>1. parked \in Waiter /\ waiter' = [waiter EXCEPT ![p] = parked]
      BY <2>1, <2>3 DEF PutWaitParks, Waiter
    <3> HIDE DEF parked
    <3>2. Waiters' = Waiters \cup {p}
      BY <1>0, <3>1, NotWaitingAssumption DEF Waiters, Waiting
    <3>3. Ended' = Ended /\ ItemsAccounted'
      BY <2>3 DEF PutWaitParks, Ended, ItemsAccounted, Left
    <3> QED BY <1>0, <2>1, <3>2, <3>3, CallParks
  <2> QED BY <1>3, <2>2, <2>3 DEF PutWait
<1>4. ASSUME NEW p \in Producers, PutRefused(p)
      PROVE  CallsAccounted' /\ ItemsAccounted'
  <2>1. puts' = puts + 1 /\ UNCHANGED waiter /\ Ended' = Ended + 1 /\ ItemsAccounted'
    BY <1>0, <1>4, NoItem DEF PutRefused, CallPut
  <2> QED BY <1>0, <2>1, CallEnds
<1>5. ASSUME NEW p \in Producers, ResumeCancelled(p) \/ ResumeClosed(p) \/ Abandon(p)
      PROVE  CallsAccounted' /\ ItemsAccounted'
  <2>1. puts' = puts /\ Waiting(p) /\ Leave(p) /\ UNCHANGED items
    BY <1>5 DEF ResumeCancelled, ResumeClosed, Abandon
  <2>2. Ended' = Ended + 1 /\ ItemsAccounted'
    BY <1>0, <1>5, <2>1, NoItem DEF ResumeCancelled, ResumeClosed, Abandon
  <2> QED BY <1>0, <2>1, <2>2, CallLeaves
<1>6. ASSUME NEW p \in Producers, ResumeAdmitted(p)
      PROVE  CallsAccounted' /\ ItemsAccounted'
  <2>1. puts' = puts /\ Waiting(p) /\ Leave(p) /\ waiter[p].item \in Item
    BY <1>0, <1>6 DEF ResumeAdmitted, Waiting, Waiter
  <2>2. Ended' = Ended + 1 /\ ItemsAccounted'
    BY <1>6, <2>1, ItemTaken DEF ResumeAdmitted
  <2> QED BY <1>0, <2>1, <2>2, CallLeaves
<1>7. ASSUME NEW p \in Producers, Supersede(p) \/ ResumeParks(p)
      PROVE  CallsAccounted' /\ ItemsAccounted'
  <2>1. UNCHANGED <<puts, stats, items>> /\ Waiting(p) /\ waiter[p] \in Waiter
    BY <1>0, <1>7 DEF Supersede, ResumeParks, Waiting
  <2>2. PICK w \in Waiter : waiter' = [waiter EXCEPT ![p] = w]
    <3>1. /\ [waiter[p] EXCEPT !.live = FALSE] \in Waiter
          /\ [waiter[p] EXCEPT !.woken = FALSE] \in Waiter
      BY <2>1 DEF Waiter
    <3> QED BY <1>7, <3>1 DEF Supersede, ResumeParks
  <2>3. Waiters' = Waiters
    BY <1>0, <2>1, <2>2, NotWaitingAssumption DEF Waiters, Waiting
  <2>4. Ended' = Ended /\ ItemsAccounted'
    BY <2>1 DEF Ended, ItemsAccounted, Left
  <2> QED BY <2>1, <2>3, <2>4, CallsStay
<1>8. CASE Get
  <2>1. PICK i \in DOMAIN items : items' = RemoveAt(items, i)
    BY <1>8 DEF Get
  <2>2. Len(items') = Len(items) - 1
    BY <1>0, <2>1, RemoveAtProperties
  <2>3. /\ stats'["coalesced"] = stats["coalesced"] /\ stats'["evicted"] = stats["evicted"]
        /\ stats'["discarded"] = stats["discarded"] /\ stats'["dequeued"] = stats["dequeued"] + 1
        /\ stats'["accepted"] = stats["accepted"] /\ stats'["rejected"] = stats["rejected"]
        /\ stats'["cancelled"] = stats["cancelled"] /\ stats'["raised"] = stats["raised"]
    BY <1>8 DEF Get, Bump, Counters
  <2>4. Left' = Left + 1
    <3> DEFINE a == stats["coalesced"]
               b == stats["dequeued"]
               c == stats["evicted"]
               d == stats["discarded"]
    <3>1. a \in Nat /\ b \in Nat /\ c \in Nat /\ d \in Nat
      BY <1>1
    <3>2. Left' = a + (b + 1) + c + d /\ Left = a + b + c + d
      BY <2>3 DEF Left
    <3> HIDE DEF a, b, c, d
    <3> QED BY <3>1, <3>2
  <2>5. ItemsAccounted'
    BY <1>0, <1>1, <2>2, <2>3, <2>4 DEF ItemsAccounted
  <2>6. Ended' = Ended /\ puts' = puts /\ Waiters' = Waiters
    BY <1>0, <1>8, <2>3, SignalKeepsWaiters DEF Ended, Get
  <2> QED BY <2>5, <2>6, CallsStay
<1>9. ASSUME NEW discard \in BOOLEAN, Close(discard)
      PROVE  CallsAccounted' /\ ItemsAccounted'
  <2>1. /\ stats'["coalesced"] = stats["coalesced"] /\ stats'["evicted"] = stats["evicted"]
        /\ stats'["dequeued"] = stats["dequeued"] /\ stats'["accepted"] = stats["accepted"]
        /\ stats'["rejected"] = stats["rejected"] /\ stats'["cancelled"] = stats["cancelled"]
        /\ stats'["raised"] = stats["raised"]
    BY <1>0, <1>9 DEF Close, TypeOK, Counters
  <2>2. stats'["discarded"] + Len(items') = stats["discarded"] + Len(items)
    BY <1>0, <1>1, <1>9 DEF Close, TypeOK, Counters
  <2>3. ItemsAccounted'
    <3>1. items' \in Seq(Item) /\ Len(items') \in Nat /\ stats'["discarded"] \in Nat
      BY <1>0, <1>1, <1>9 DEF Close, TypeOK, Counters
    <3> DEFINE a == stats["coalesced"]
               b == stats["dequeued"]
               c == stats["evicted"]
               d == stats["discarded"]
               e == stats'["discarded"]
    <3>2. /\ a \in Nat /\ b \in Nat /\ c \in Nat /\ d \in Nat /\ e \in Nat
          /\ e + Len(items') = d + Len(items)
      BY <1>1, <2>2, <3>1
    <3>3. Left' = a + b + c + e /\ Left = a + b + c + d
      BY <2>1 DEF Left
    <3> HIDE DEF a, b, c, d, e
    <3>4. Left' + Len(items') = Left + Len(items)
      BY <1>0, <3>1, <3>2, <3>3
    <3> QED BY <1>1, <2>1, <3>4 DEF ItemsAccounted
  <2>4. Ended' = Ended /\ puts' = puts /\ Waiters' = Waiters
    BY <1>0, <1>9, <2>1, SignalKeepsWaiters DEF Ended, Close
  <2> QED BY <2>3, <2>4, CallsStay
<1>10. CASE GetParks \/ GetClosed \/ UNCHANGED vars
  <2>1. UNCHANGED <<items, stats, waiter, puts>>
    BY <1>10 DEF GetParks, GetClosed, vars
  <2> QED BY <2>1 DEF CallsAccounted, ItemsAccounted, Ended, Left, Waiters, Waiting
<1> QED BY <1>2, <1>3, <1>4, <1>5, <1>6, <1>7, <1>8, <1>9, <1>10 DEF Next, Resume

\* However calls park, are woken, superseded or cancelled and items are merged, displaced or
\* discarded, MailboxStats accounts for every call and every item.
THEOREM EveryItemAccounted == Spec => []Accounted
<1>1. Init => Accounted
  <2> SUFFICES ASSUME Init PROVE Accounted
    OBVIOUS
  <2>1. Waiters = {}
    BY DEF Init, Waiters, Waiting
  <2>2. Cardinality(Waiters) = 0 /\ Len(items) = 0 /\ puts = 0
    BY <2>1, FS_EmptySet DEF Init
  <2>3. Ended = 0 /\ Left = 0 /\ stats["accepted"] = 0
    BY DEF Init, Ended, Left, Counters
  <2> QED BY <2>2, <2>3, AccountedParts DEF CallsAccounted, ItemsAccounted
<1>2. IInv /\ Accounted /\ [Next]_vars => Accounted'
  BY NextAccounted
<1> QED BY <1>1, <1>2, Invariance, PTL DEF Spec

----------------------------------------------------------------------------
(* The highest priority *)

\* The step of TopPriorityKept for the entry i.
Kept(i) ==
    /\ TopPriority(items[i])
    /\ ~\E j \in DOMAIN items' : items'[j].id = items[i].id
    => \/ stats'["dequeued"] = stats["dequeued"] + 1 /\ IsNext(items, i)
       \/ stats'["coalesced"] = stats["coalesced"] + 1
       \/ closed'

\* A displaced entry is of a lower priority than the item that takes its place.
LEMMA PutKeepsTop ==
    ASSUME IInv, NEW item \in Item, NEW displacing, TryPut(item, displacing), NEW i \in DOMAIN items
    PROVE  Kept(i)
<1>1. /\ items \in Seq(Item) /\ Len(items) \in Nat /\ DOMAIN items = 1 .. Len(items)
      /\ i \in 1 .. Len(items) /\ items[i] \in Item
  BY LenProperties, ElementOfSeq DEF IInv, TypeOK
<1>2. CASE Coalesce(item)
  <2>1. stats'["coalesced"] = stats["coalesced"] + 1
    BY <1>2 DEF Coalesce, Bump, Counters
  <2> QED BY <2>1 DEF Kept
<1>3. CASE Accept(item)
  <2>1. items' = Append(items, item)
    BY <1>3 DEF Accept, AppendItem
  <2>2. i \in DOMAIN items' /\ items'[i] = items[i]
    BY <1>1, <2>1, AppendProperties, LenProperties
  <2> QED BY <2>2 DEF Kept
<1>4. CASE Displace(item, displacing)
  <2>1. PICK k \in DOMAIN items : /\ Displaces(items, k, item.priority)
                                  /\ items' = Append(RemoveAt(items, k), item)
    BY <1>4 DEF Displace, AppendItem
  <2>2. CASE k = i
    <3>1. items[i].priority \in Int /\ item.priority \in Int /\ item.priority \in Priorities
      BY <1>1, PrioritiesAssumption DEF Item
    <3>2. item.priority > items[i].priority
      BY <2>1, <2>2 DEF Displaces
    <3>3. ~TopPriority(items[i])
      <4> SUFFICES ASSUME TopPriority(items[i]) PROVE FALSE
        OBVIOUS
      <4>1. item.priority <= items[i].priority
        BY <3>1 DEF TopPriority
      <4> QED BY <3>1, <3>2, <4>1
    <3> QED BY <3>3 DEF Kept
  <2>3. CASE k # i
    <3>1. k \in 1 .. Len(items)
      BY <1>1
    <3>2. /\ items' \in Seq(Item) /\ Len(items') = Len(items)
          /\ \E j \in 1 .. Len(items) : items'[j] = items[i]
      <4> DEFINE rest == RemoveAt(items, k)
      <4>1. rest \in Seq(Item) /\ Len(rest) = Len(items) - 1
        BY <1>1, <3>1, RemoveAtProperties
      <4>2. PICK j \in 1 .. Len(rest) : rest[j] = items[i]
        BY <1>1, <2>3, <3>1, RemoveAtKeeps
      <4>3. items' = Append(rest, item)
        BY <2>1
      <4> HIDE DEF rest
      <4>4. items' \in Seq(Item) /\ Len(items') = Len(rest) + 1 /\ items'[j] = rest[j]
        BY <4>1, <4>3, AppendProperties
      <4>5. Len(items') = Len(items) /\ j \in 1 .. Len(items)
        BY <1>1, <4>1, <4>4
      <4> QED BY <4>2, <4>4, <4>5
    <3>3. DOMAIN items' = 1 .. Len(items)
      BY <3>2, LenProperties
    <3> QED BY <3>2, <3>3 DEF Kept
  <2> QED BY <2>2, <2>3
<1> QED BY <1>2, <1>3, <1>4 DEF TryPut

LEMMA GetKeepsTop ==
    ASSUME IInv, Get, NEW i \in DOMAIN items
    PROVE  Kept(i)
<1>1. /\ items \in Seq(Item) /\ Len(items) \in Nat /\ DOMAIN items = 1 .. Len(items)
      /\ i \in 1 .. Len(items)
  BY LenProperties DEF IInv, TypeOK
<1>2. PICK k \in DOMAIN items : IsNext(items, k) /\ items' = RemoveAt(items, k)
  BY DEF Get
<1>3. CASE k = i
  <2>1. stats'["dequeued"] = stats["dequeued"] + 1
    BY DEF Get, Bump, Counters
  <2> QED BY <1>2, <1>3, <2>1 DEF Kept
<1>4. CASE k # i
  <2>1. k \in 1 .. Len(items)
    BY <1>1
  <2>2. items' \in Seq(Item) /\ \E j \in 1 .. Len(items') : items'[j] = items[i]
    BY <1>1, <1>2, <1>4, <2>1, RemoveAtProperties, RemoveAtKeeps
  <2>3. DOMAIN items' = 1 .. Len(items')
    BY <2>2, LenProperties
  <2> QED BY <2>2, <2>3 DEF Kept
<1> QED BY <1>3, <1>4

\* For any priorities, capacity and policy: an accepted item of the highest priority is never
\* displaced, so a capture event or a cancel that a mailbox took is delivered.
THEOREM TopPrioritySafe == Spec => TopPriorityKept
<1>1. ASSUME IInv, Next, NEW i \in DOMAIN items PROVE Kept(i)
  <2>1. CASE Get
    BY <1>1, <2>1, GetKeepsTop
  <2>2. CASE UNCHANGED items
    BY <2>2 DEF Kept
  <2>3. ASSUME NEW discard \in BOOLEAN, Close(discard) PROVE Kept(i)
    BY <2>3 DEF Close, Kept
  <2>4. ASSUME NEW p \in Producers, NEW key \in KeysInUse, NEW priority \in Priorities,
               NEW displacing \in BOOLEAN, CallPut(p), TryPut(NewItem(key, priority), displacing)
        PROVE  Kept(i)
    <3>1. NewItem(key, priority) \in Item
      BY <1>1, <2>4, NewItemType DEF CallPut, IInv
    <3> QED BY <1>1, <2>4, <3>1, PutKeepsTop
  <2>5. ASSUME NEW p \in Producers, ResumeAdmitted(p) PROVE Kept(i)
    <3>1. waiter[p].item \in Item
      BY <1>1, <2>5 DEF ResumeAdmitted, Waiting, Waiter, IInv, TypeOK
    <3> QED BY <1>1, <2>5, <3>1, PutKeepsTop DEF ResumeAdmitted
  <2>6. ASSUME NEW p \in Producers, NEW key \in KeysInUse, NEW priority \in Priorities,
               \/ Put(p, key, priority)
               \/ \E displacing \in BOOLEAN : PutWait(p, key, priority, displacing)
        PROVE  Kept(i)
    BY <2>2, <2>4, <2>6 DEF Put, PutAdmitted, PutRejected, PutWait, PutWaitAdmitted, PutWaitParks
  <2>7. ASSUME NEW p \in Producers, PutRefused(p) \/ Supersede(p) \/ Resume(p) \/ Abandon(p)
        PROVE  Kept(i)
    BY <2>2, <2>5, <2>7 DEF PutRefused, Supersede, Resume, Abandon, ResumeCancelled, ResumeClosed,
       ResumeParks
  <2>8. CASE GetParks \/ GetClosed
    BY <2>2, <2>8 DEF GetParks, GetClosed
  <2> QED BY <1>1, <2>1, <2>3, <2>6, <2>7, <2>8 DEF Next
<1>2. IInv /\ [Next]_vars
      => [\A i \in DOMAIN items :
           /\ TopPriority(items[i])
           /\ ~\E j \in DOMAIN items' : items'[j].id = items[i].id
           => \/ stats'["dequeued"] = stats["dequeued"] + 1 /\ IsNext(items, i)
              \/ stats'["coalesced"] = stats["coalesced"] + 1
              \/ closed']_vars
  BY <1>1 DEF Kept
<1> QED BY <1>2, Invariance, PTL DEF Spec, TopPriorityKept

----------------------------------------------------------------------------
(* Recursion and induction up to a number *)

LEMMA LeastNumber ==
    ASSUME NEW T, T \subseteq Nat, T # {}
    PROVE  \E x \in T : \A y \in T : x <= y
<1>1. PICK x \in T : \A y \in T : <<y, x>> \notin OpToRel(<, Nat)
  BY NatLessThanWellFounded, WFMin
<1>2. \A y \in T : ~(y < x)
  BY <1>1 DEF OpToRel
<1> QED BY <1>2

LEMMA UpToInduction ==
    ASSUME NEW N \in Nat, NEW G, 0 \in G, \A n \in 1 .. N : n - 1 \in G => n \in G
    PROVE  \A n \in 0 .. N : n \in G
<1> DEFINE T == {n \in 0 .. N : n \notin G}
<1>1. T \subseteq Nat
  OBVIOUS
<1>2. ASSUME T # {} PROVE FALSE
  <2>1. PICK m \in T : \A k \in T : m <= k
    BY <1>1, <1>2, LeastNumber
  <2>2. m \in 0 .. N /\ m \notin G
    OBVIOUS
  <2>3. m \in 1 .. N /\ m - 1 \in 0 .. N /\ m - 1 \notin T
    <3> HIDE DEF T
    <3> QED BY <1>1, <2>1, <2>2
  <2> QED BY <2>2, <2>3
<1> QED BY <1>2

NaturalNumbers == Nat
StepFunctions(N, V) == [1 .. N -> [V -> V]]
Iterations(N, V, v, step) ==
    {f \in [0 .. N -> V] : f[0] = v /\ \A n \in 1 .. N : f[n] = step[n][f[n - 1]]}

\* A step function on a set of values has an iteration.
LEMMA Iteration ==
    ASSUME NEW N, N \in NaturalNumbers, NEW V, NEW v \in V, NEW step \in StepFunctions(N, V)
    PROVE  \E f : f \in Iterations(N, V, v, step)
<1> USE DEF NaturalNumbers, StepFunctions
<1> DEFINE Iterates(f, k) == f[0] = v /\ \A n \in 1 .. k : f[n] = step[n][f[n - 1]]
           G == {k \in 0 .. N : \E f \in [0 .. N -> V] : Iterates(f, k)}
<1>1. 0 \in G
  <2> DEFINE f == [n \in 0 .. N |-> v]
  <2>1. f \in [0 .. N -> V] /\ Iterates(f, 0)
    OBVIOUS
  <2> HIDE DEF f
  <2>2. \E h \in [0 .. N -> V] : Iterates(h, 0)
    BY <2>1
  <2>3. 0 \in 0 .. N
    OBVIOUS
  <2> QED BY <2>2, <2>3, Zenon
<1>2. ASSUME NEW k \in 1 .. N, k - 1 \in G PROVE k \in G
  <2>1. PICK f \in [0 .. N -> V] : Iterates(f, k - 1)
    BY <1>2
  <2>2. f[k - 1] \in V /\ step[k] \in [V -> V]
    OBVIOUS
  <2> DEFINE w == step[k][f[k - 1]]
             g == [f EXCEPT ![k] = w]
  <2>3. w \in V
    BY <2>2
  <2>4. w = step[k][f[k - 1]]
    OBVIOUS
  <2> HIDE DEF w
  <2>5. g \in [0 .. N -> V] /\ g[k] = w /\ \A n \in 0 .. k - 1 : g[n] = f[n]
    BY <2>3
  <2> HIDE DEF g
  <2>6. \A n \in 1 .. k - 1 : n \in 0 .. k - 1 /\ n - 1 \in 0 .. k - 1
    OBVIOUS
  <2>7. g[0] = v /\ \A n \in 1 .. k - 1 : g[n] = step[n][g[n - 1]]
    BY <2>1, <2>5, <2>6
  <2>8. g[k] = step[k][g[k - 1]]
    BY <2>4, <2>5
  <2>9. Iterates(g, k)
    BY <2>7, <2>8
  <2> QED BY <2>5, <2>9
<1> HIDE DEF G
<1>3. \A k \in 1 .. N : k - 1 \in G => k \in G
  BY <1>2
<1>4. \A k \in 0 .. N : k \in G
  BY <1>1, <1>3, UpToInduction
<1>5. N \in G
  BY <1>4
<1>6. PICK f \in [0 .. N -> V] : Iterates(f, N)
  BY <1>5 DEF G
<1>7. f \in Iterations(N, V, v, step)
  BY <1>6 DEF Iterations
<1> QED BY <1>7

----------------------------------------------------------------------------
(* The entries of one priority *)

Entries == Seq(Item)
CallIds == 1 .. MaxPuts
IdLists == Seq(CallIds)

LEMMA EntryParts ==
    ASSUME NEW e \in Item
    PROVE  e.id \in CallIds /\ e.priority \in Priorities /\ e.priority \in Int
  BY PrioritiesAssumption DEF Item, CallIds

\* The tiers of the first n entries, for every n.
Tiering(tier, q, priority) ==
    /\ tier \in [0 .. Len(q) -> IdLists]
    /\ Tier(q, priority) = tier[Len(q)] /\ tier[0] = <<>>
    /\ \A n \in 1 .. Len(q) :
          tier[n] = IF q[n].priority = priority THEN Append(tier[n - 1], q[n].id) ELSE tier[n - 1]

LEMMA TierRecursion ==
    ASSUME NEW q \in Entries, NEW priority
    PROVE  \E tier : Tiering(tier, q, priority)
<1> DEFINE N == Len(q)
           none == <<>>
           Step(x, n) == IF q[n].priority = priority THEN Append(x, q[n].id) ELSE x
           Recursive(f) == f = [n \in 0 .. N |-> IF n = 0 THEN <<>> ELSE Step(f[n - 1], n)]
           tier == CHOOSE f : Recursive(f)
           step == [n \in 1 .. N |-> [x \in IdLists |-> Step(x, n)]]
<1>1. N \in Nat /\ N \in NaturalNumbers /\ none \in IdLists
  BY LenProperties, EmptySeq DEF NaturalNumbers, Entries, IdLists
<1>2. Tier(q, priority) = tier[N]
  BY DEF Tier
<1>3. step \in StepFunctions(N, IdLists)
  <2>1. \A n \in 1 .. N : q[n].id \in CallIds
    BY EntryParts DEF Entries
  <2>2. \A n \in 1 .. N, x \in IdLists : Step(x, n) \in IdLists
    BY <2>1, AppendProperties DEF IdLists
  <2> HIDE DEF Step
  <2> QED BY <2>2 DEF StepFunctions
<1>4. \A n \in 1 .. N, x \in IdLists : step[n][x] = Step(x, n)
  OBVIOUS
<1> HIDE DEF Step, step, none, N
<1>5. PICK f : f \in Iterations(N, IdLists, none, step)
  BY <1>1, <1>3, Iteration
<1>6. Recursive(f)
  <2>1. \A n \in 0 .. N : f[n] = IF n = 0 THEN <<>> ELSE Step(f[n - 1], n)
    BY <1>1, <1>4, <1>5 DEF none, Iterations
  <2>2. f \in [0 .. N -> IdLists]
    BY <1>5 DEF Iterations
  <2> QED BY <2>1, <2>2
<1>7. Recursive(tier)
  BY <1>6
<1> HIDE DEF tier
<1>8. \A n \in 0 .. N : tier[n] = IF n = 0 THEN <<>> ELSE Step(tier[n - 1], n)
  BY <1>7, Zenon
<1>9. tier[0] = <<>> /\ \A n \in 1 .. N : tier[n] = Step(tier[n - 1], n)
  BY <1>1, <1>8
<1>10. tier \in [0 .. N -> IdLists]
  <2> DEFINE G == {n \in 0 .. N : tier[n] \in IdLists}
  <2>1. 0 \in G
    BY <1>1, <1>9 DEF none
  <2>2. \A n \in 1 .. N : n - 1 \in G => n \in G
    BY <1>1, <1>3, <1>4, <1>9 DEF StepFunctions
  <2> HIDE DEF G
  <2>3. \A n \in 0 .. N : n \in G
    BY <1>1, <2>1, <2>2, UpToInduction
  <2>4. \A n \in 0 .. N : tier[n] \in IdLists
    BY <2>3 DEF G
  <2>5. tier = [n \in 0 .. N |-> tier[n]]
    BY <1>7
  <2> QED BY <2>4, <2>5
<1>11. Tiering(tier, q, priority)
  BY <1>2, <1>9, <1>10 DEF Step, N, Tiering
<1> QED BY <1>11

LEMMA TierIsList ==
    ASSUME NEW q \in Entries, NEW priority
    PROVE  Tier(q, priority) \in IdLists
<1>1. Len(q) \in 0 .. Len(q)
  BY LenProperties DEF Entries
<1>2. PICK tier : Tiering(tier, q, priority)
  BY TierRecursion
<1> QED BY <1>1, <1>2 DEF Tiering

\* Nothing of a priority is queued: its tier is empty.
LEMMA TierEmpty ==
    ASSUME NEW q \in Entries, NEW priority, \A i \in 1 .. Len(q) : q[i].priority # priority
    PROVE  Tier(q, priority) = <<>>
<1> DEFINE N == Len(q)
           none == <<>>
<1>1. N \in Nat
  BY LenProperties DEF Entries
<1>2. PICK tier : Tiering(tier, q, priority)
  BY TierRecursion
<1>3. /\ Tier(q, priority) = tier[N] /\ tier[0] = none
      /\ \A n \in 1 .. N : tier[n] = tier[n - 1]
  BY <1>2 DEF Tiering
<1> DEFINE G == {n \in 0 .. N : tier[n] = none}
<1> HIDE DEF N, none
<1>4. 0 \in G
  BY <1>1, <1>3
<1>5. \A n \in 1 .. N : n - 1 \in G => n \in G
  BY <1>1, <1>3
<1> HIDE DEF G
<1>6. \A n \in 0 .. N : n \in G
  BY <1>1, <1>4, <1>5, UpToInduction
<1>7. tier[N] = none
  BY <1>1, <1>6 DEF G
<1> QED BY <1>3, <1>7 DEF none

LEMMA AppendToConcat ==
    ASSUME NEW a \in IdLists, NEW b \in IdLists, NEW c \in CallIds
    PROVE  Append(a \o b, c) = a \o Append(b, c)
  BY DEF IdLists

\* The tier of two lists is that of the first and that of the second.
LEMMA TierConcat ==
    ASSUME NEW a \in Entries, NEW b \in Entries, NEW priority
    PROVE  Tier(a \o b, priority) = Tier(a, priority) \o Tier(b, priority)
<1> DEFINE c == a \o b
           N == Len(a)
           M == Len(b)
           none == <<>>
<1>1. /\ c \in Entries /\ Len(c) = N + M /\ N \in Nat /\ M \in Nat
      /\ \A i \in 1 .. N : c[i] = a[i]
      /\ \A i \in 1 .. M : c[N + i] = b[i] /\ b[i] \in Item
  BY DEF Entries
<1>2. c \in Entries
  BY <1>1
<1> HIDE DEF c, N, M
<1>3. PICK f : Tiering(f, a, priority)
  BY TierRecursion
<1>4. PICK g : Tiering(g, b, priority)
  BY TierRecursion
<1>5. PICK h : Tiering(h, c, priority)
  BY <1>2, TierRecursion
<1>6. /\ Tier(a, priority) = f[N] /\ f[0] = none /\ f[N] \in IdLists
      /\ \A n \in 1 .. N : f[n] = IF a[n].priority = priority THEN Append(f[n - 1], a[n].id) ELSE f[n - 1]
  BY <1>1, <1>3 DEF Tiering, N
<1>7. /\ Tier(b, priority) = g[M] /\ g[0] = none /\ g \in [0 .. M -> IdLists]
      /\ \A n \in 1 .. M : g[n] = IF b[n].priority = priority THEN Append(g[n - 1], b[n].id) ELSE g[n - 1]
  BY <1>4 DEF Tiering, M
<1>8. /\ Tier(c, priority) = h[N + M] /\ h[0] = none
      /\ \A n \in 1 .. N + M :
            h[n] = IF c[n].priority = priority THEN Append(h[n - 1], c[n].id) ELSE h[n - 1]
  BY <1>1, <1>5 DEF Tiering
<1> HIDE DEF none
<1>9. \A n \in 0 .. N : h[n] = f[n]
  <2> DEFINE G == {n \in 0 .. N : h[n] = f[n]}
  <2>1. 0 \in G
    BY <1>1, <1>6, <1>8
  <2>2. ASSUME NEW n \in 1 .. N, n - 1 \in G PROVE n \in G
    <3>1. n \in 1 .. N + M /\ n \in 0 .. N /\ h[n - 1] = f[n - 1] /\ c[n] = a[n]
      BY <1>1, <2>2
    <3> QED BY <1>6, <1>8, <3>1
  <2> HIDE DEF G
  <2>3. \A n \in 0 .. N : n \in G
    BY <1>1, <2>1, <2>2, UpToInduction
  <2> QED BY <2>3 DEF G
<1>10. \A n \in 0 .. M : h[N + n] = f[N] \o g[n]
  <2> DEFINE G == {n \in 0 .. M : h[N + n] = f[N] \o g[n]}
  <2>1. 0 \in G
    <3>1. f[N] \o g[0] = f[N]
      BY <1>6, <1>7, ConcatEmptySeq DEF none, IdLists
    <3>2. h[N + 0] = f[N] /\ 0 \in 0 .. M
      BY <1>1, <1>9
    <3> QED BY <3>1, <3>2
  <2>2. ASSUME NEW n \in 1 .. M, n - 1 \in G PROVE n \in G
    <3>1. N + n \in 1 .. N + M /\ n \in 0 .. M /\ n - 1 \in 0 .. M /\ N + (n - 1) = (N + n) - 1
      BY <1>1
    <3>2. h[(N + n) - 1] = f[N] \o g[n - 1] /\ c[N + n] = b[n] /\ g[n - 1] \in IdLists
      BY <1>1, <1>7, <2>2, <3>1
    <3>3. CASE b[n].priority # priority
      BY <1>7, <1>8, <3>1, <3>2, <3>3
    <3>4. CASE b[n].priority = priority
      <4>1. h[N + n] = Append(f[N] \o g[n - 1], b[n].id) /\ g[n] = Append(g[n - 1], b[n].id)
        BY <1>7, <1>8, <3>1, <3>2, <3>4
      <4>2. b[n].id \in CallIds
        BY <1>1, EntryParts
      <4>3. Append(f[N] \o g[n - 1], b[n].id) = f[N] \o Append(g[n - 1], b[n].id)
        BY <1>6, <3>2, <4>2, AppendToConcat
      <4> QED BY <3>1, <4>1, <4>3
    <3> QED BY <3>3, <3>4
  <2> HIDE DEF G
  <2>3. \A n \in 0 .. M : n \in G
    BY <1>1, <2>1, <2>2, UpToInduction
  <2> QED BY <2>3 DEF G
<1>11. h[N + M] = f[N] \o g[M]
  <2>1. M \in 0 .. M
    BY <1>1
  <2> QED BY <1>10, <2>1
<1> QED BY <1>6, <1>7, <1>8, <1>11 DEF c

\* What one entry adds to a tier.
Alone(e, priority) == IF e.priority = priority THEN <<e.id>> ELSE <<>>

LEMMA AloneIsList ==
    ASSUME NEW e \in Item, NEW priority
    PROVE  Alone(e, priority) \in IdLists
  BY EntryParts, EmptySeq DEF Alone, IdLists

LEMMA TierOfOne ==
    ASSUME NEW e \in Item, NEW priority
    PROVE  <<e>> \in Entries /\ Tier(<<e>>, priority) = Alone(e, priority)
<1> DEFINE q == <<e>>
           none == <<>>
<1>1. q \in Entries /\ Len(q) = 1 /\ q[1] = e
  BY DEF Entries
<1> HIDE DEF q
<1>2. PICK tier : Tiering(tier, q, priority)
  BY <1>1, TierRecursion
<1>3. /\ Tier(q, priority) = tier[1] /\ tier[0] = none
      /\ tier[1] = IF e.priority = priority THEN Append(tier[0], e.id) ELSE tier[0]
  <2>1. 1 \in 1 .. Len(q) /\ 1 - 1 = 0
    BY <1>1
  <2>2. \A n \in 1 .. Len(q) :
          tier[n] = IF q[n].priority = priority THEN Append(tier[n - 1], q[n].id) ELSE tier[n - 1]
    BY <1>2 DEF Tiering
  <2>3. tier[1] = IF e.priority = priority THEN Append(tier[0], e.id) ELSE tier[0]
    BY <1>1, <2>1, <2>2
  <2> QED BY <1>1, <1>2, <2>3 DEF Tiering
<1>4. Append(none, e.id) = <<e.id>>
  OBVIOUS
<1> QED BY <1>1, <1>3, <1>4 DEF Alone, q

----------------------------------------------------------------------------
(* The list around one entry *)

Before(q, i) == SubSeq(q, 1, i - 1)
Behind(q, i) == SubSeq(q, i + 1, Len(q))

LEMMA AroundEntry ==
    ASSUME NEW q \in Entries, NEW i \in 1 .. Len(q)
    PROVE  /\ Before(q, i) \in Entries /\ Len(Before(q, i)) = i - 1
           /\ \A j \in 1 .. i - 1 : Before(q, i)[j] = q[j]
           /\ Behind(q, i) \in Entries /\ Len(Behind(q, i)) = Len(q) - i
           /\ \A j \in 1 .. Len(q) - i : Behind(q, i)[j] = q[i + j]
<1>1. Len(q) \in Nat /\ i - 1 \in Int /\ i + 1 \in Int
  BY LenProperties DEF Entries
<1>2. /\ Before(q, i) \in Seq(Item) /\ Len(Before(q, i)) = i - 1
      /\ \A j \in 1 .. i - 1 : Before(q, i)[j] = q[j]
  BY <1>1, SubSeqProperties DEF Before, Entries
<1>3. /\ Behind(q, i) \in Seq(Item) /\ Len(Behind(q, i)) = Len(q) - i
      /\ \A j \in 1 .. Len(q) - i : Behind(q, i)[j] = q[i + j]
  BY <1>1, SubSeqProperties DEF Behind, Entries
<1> QED BY <1>2, <1>3 DEF Entries

\* A list is what is before an entry, the entry and what is behind it.
LEMMA Middle ==
    ASSUME NEW r \in Entries, NEW a \in Entries, NEW e \in Item, NEW b \in Entries,
           Len(r) = Len(a) + 1 + Len(b),
           \A j \in 1 .. Len(a) : r[j] = a[j], r[Len(a) + 1] = e,
           \A j \in 1 .. Len(b) : r[Len(a) + 1 + j] = b[j]
    PROVE  r = (a \o <<e>>) \o b
<1> DEFINE one == <<e>>
           c == a \o one
           d == c \o b
           N == Len(a)
           M == Len(b)
<1>1. N \in Nat /\ M \in Nat /\ one \in Entries /\ Len(one) = 1 /\ one[1] = e
  BY DEF Entries
<1> HIDE DEF one
<1>2. /\ c \in Entries /\ Len(c) = N + 1
      /\ \A j \in 1 .. N + 1 : c[j] = IF j <= N THEN a[j] ELSE one[j - N]
  <2>1. /\ c \in Seq(Item) /\ Len(c) = Len(a) + Len(one)
        /\ \A j \in 1 .. Len(a) + Len(one) : c[j] = IF j <= Len(a) THEN a[j] ELSE one[j - Len(a)]
    <3>1. a \in Seq(Item) /\ one \in Seq(Item)
      BY <1>1 DEF Entries
    <3> QED BY ONLY <3>1, ConcatProperties
  <2> HIDE DEF c
  <2> QED BY <1>1, <2>1 DEF Entries
<1> HIDE DEF c
<1>3. /\ d \in Entries /\ Len(d) = N + 1 + M
      /\ \A j \in 1 .. N + 1 + M : d[j] = IF j <= N + 1 THEN c[j] ELSE b[j - (N + 1)]
  <2>1. /\ d \in Seq(Item) /\ Len(d) = Len(c) + Len(b)
        /\ \A j \in 1 .. Len(c) + Len(b) : d[j] = IF j <= Len(c) THEN c[j] ELSE b[j - Len(c)]
    BY <1>2, ConcatProperties DEF Entries
  <2> HIDE DEF d
  <2> QED BY <1>1, <1>2, <2>1 DEF Entries
<1> HIDE DEF d
<1>4. /\ Len(r) = N + 1 + M
      /\ \A j \in 1 .. N : r[j] = a[j]
      /\ r[N + 1] = e
      /\ \A j \in 1 .. M : r[N + 1 + j] = b[j]
  OBVIOUS
<1> HIDE DEF N, M
<1>5. ASSUME NEW j \in 1 .. N + 1 + M PROVE r[j] = d[j]
  <2>1. CASE j <= N
    <3>1. j \in 1 .. N /\ j \in 1 .. N + 1 /\ j <= N + 1
      BY <1>1, <2>1
    <3> QED BY <1>2, <1>3, <1>4, <2>1, <3>1
  <2>2. CASE j = N + 1
    <3>1. j \in 1 .. N + 1 /\ ~(j <= N) /\ j - N = 1 /\ j <= N + 1
      BY <1>1, <2>2
    <3>2. d[j] = c[j]
      BY <1>3, <3>1
    <3>3. c[j] = one[j - N]
      BY <1>2, <3>1
    <3>4. c[j] = e
      BY <1>1, <3>1, <3>3
    <3> QED BY <1>4, <2>2, <3>2, <3>4
  <2>3. CASE j > N + 1
    <3>1. j - (N + 1) \in 1 .. M /\ N + 1 + (j - (N + 1)) = j /\ ~(j <= N + 1)
      BY <1>1, <2>3
    <3> QED BY <1>3, <1>4, <3>1
  <2> QED BY <1>1, <2>1, <2>2, <2>3
<1>6. r = d
  BY <1>3, <1>4, <1>5, SeqEqual DEF Entries
<1> QED BY <1>6 DEF d, c, one

\* Removing an entry, or putting another one in its place, changes a tier only there.
LEMMA TierAround ==
    ASSUME NEW q \in Entries, NEW i \in 1 .. Len(q), NEW e \in Item, NEW priority
    PROVE  /\ Tier(Before(q, i), priority) \in IdLists /\ Tier(Behind(q, i), priority) \in IdLists
           /\ q[i] \in Item
           /\ Tier(q, priority)
                = (Tier(Before(q, i), priority) \o Alone(q[i], priority)) \o Tier(Behind(q, i), priority)
           /\ Tier(RemoveAt(q, i), priority)
                = Tier(Before(q, i), priority) \o Tier(Behind(q, i), priority)
           /\ Tier([q EXCEPT ![i] = e], priority)
                = (Tier(Before(q, i), priority) \o Alone(e, priority)) \o Tier(Behind(q, i), priority)
<1> DEFINE a == Before(q, i)
           b == Behind(q, i)
           r == [q EXCEPT ![i] = e]
<1>1. /\ a \in Entries /\ Len(a) = i - 1 /\ \A j \in 1 .. i - 1 : a[j] = q[j]
      /\ b \in Entries /\ Len(b) = Len(q) - i /\ \A j \in 1 .. Len(q) - i : b[j] = q[i + j]
  BY AroundEntry
<1>2. Len(q) \in Nat /\ q[i] \in Item /\ i \in Nat
  BY LenProperties, ElementOfSeq DEF Entries
<1>3. /\ r \in Entries /\ Len(r) = Len(q)
      /\ \A j \in 1 .. Len(q) : r[j] = IF j = i THEN e ELSE q[j]
  BY <1>2, ExceptSeq DEF Entries
<1>4. RemoveAt(q, i) = a \o b
  BY DEF RemoveAt, Before, Behind
<1> HIDE DEF a, b, r
<1>5. q = (a \o <<q[i]>>) \o b
  <2>1. Len(q) = Len(a) + 1 + Len(b) /\ Len(a) + 1 = i
    BY <1>1, <1>2
  <2>2. /\ \A j \in 1 .. Len(a) : q[j] = a[j]
        /\ q[Len(a) + 1] = q[i]
        /\ \A j \in 1 .. Len(b) : q[Len(a) + 1 + j] = b[j]
    BY <1>1, <2>1
  <2> QED BY <1>1, <1>2, <2>1, <2>2, Middle
<1>6. r = (a \o <<e>>) \o b
  <2>1. Len(r) = Len(a) + 1 + Len(b) /\ Len(a) + 1 = i /\ Len(a) = i - 1
    BY <1>1, <1>2, <1>3
  <2>2. \A j \in 1 .. Len(a) : r[j] = a[j]
    BY <1>1, <1>2, <1>3, <2>1
  <2>3. \A j \in 1 .. Len(b) : r[Len(a) + 1 + j] = b[j]
    <3>1. \A j \in 1 .. Len(b) : i + j \in 1 .. Len(q) /\ i + j # i
      BY <1>1, <1>2
    <3> QED BY <1>1, <1>3, <2>1, <3>1
  <2>4. r[Len(a) + 1] = e
    BY <1>3, <2>1
  <2> QED BY <1>1, <1>3, <2>1, <2>2, <2>3, <2>4, Middle
<1>7. ASSUME NEW x \in Item
      PROVE  Tier((a \o <<x>>) \o b, priority)
               = (Tier(a, priority) \o Alone(x, priority)) \o Tier(b, priority)
  <2> DEFINE one == <<x>>
             c == a \o one
  <2>1. one \in Entries /\ Tier(one, priority) = Alone(x, priority)
    BY TierOfOne
  <2> HIDE DEF one
  <2>2. c \in Entries
    BY <1>1, <2>1, ConcatProperties DEF Entries
  <2>3. Tier(c, priority) = Tier(a, priority) \o Tier(one, priority)
    <3>1. a \in Entries /\ one \in Entries
      BY <1>1, <2>1
    <3> QED BY ONLY <3>1, TierConcat
  <2> HIDE DEF c
  <2>4. Tier(c \o b, priority) = Tier(c, priority) \o Tier(b, priority)
    BY <1>1, <2>2, TierConcat
  <2>5. Tier(c \o b, priority) = (Tier(a, priority) \o Alone(x, priority)) \o Tier(b, priority)
    BY <2>1, <2>3, <2>4
  <2> QED BY <2>5 DEF c, one
<1>8. Tier(a, priority) \in IdLists /\ Tier(b, priority) \in IdLists
  BY <1>1, TierIsList
<1>9. Tier(a \o b, priority) = Tier(a, priority) \o Tier(b, priority)
  BY <1>1, TierConcat
<1>10. Tier(q, priority) = (Tier(a, priority) \o Alone(q[i], priority)) \o Tier(b, priority)
  BY <1>2, <1>5, <1>7
<1>11. Tier(r, priority) = (Tier(a, priority) \o Alone(e, priority)) \o Tier(b, priority)
  BY <1>6, <1>7
<1> QED BY <1>2, <1>4, <1>8, <1>9, <1>10, <1>11 DEF a, b, r

LEMMA TierAppend ==
    ASSUME NEW q \in Entries, NEW e \in Item, NEW priority
    PROVE  /\ Append(q, e) \in Entries
           /\ Tier(Append(q, e), priority) = Tier(q, priority) \o Alone(e, priority)
<1>1. Append(q, e) = q \o <<e>> /\ Append(q, e) \in Entries
  BY DEF Entries
<1>2. Tier(q \o <<e>>, priority) = Tier(q, priority) \o Tier(<<e>>, priority)
  BY TierOfOne, TierConcat
<1> QED BY <1>1, <1>2, TierOfOne

----------------------------------------------------------------------------
(* The number of entries *)

\* The places of Promise!Total for a list of entries.
PlacesOf(q) == UNION {{priority} \X DOMAIN Tiers(q)[priority] : priority \in Priorities}

LEMMA PlaceOf ==
    ASSUME NEW q \in Entries, NEW priority, NEW n
    PROVE  <<priority, n>> \in PlacesOf(q)
           <=> priority \in Priorities /\ n \in 1 .. Len(Tier(q, priority))
<1>1. ASSUME priority \in Priorities PROVE DOMAIN Tiers(q)[priority] = 1 .. Len(Tier(q, priority))
  <2>1. Tiers(q)[priority] = Tier(q, priority)
    BY <1>1 DEF Tiers
  <2>2. Tier(q, priority) \in Seq(CallIds)
    BY TierIsList DEF IdLists
  <2> QED BY <2>1, <2>2, LenProperties
<1>2. <<priority, n>> \in PlacesOf(q)
      <=> priority \in Priorities /\ n \in DOMAIN Tiers(q)[priority]
  BY DEF PlacesOf
<1> QED BY <1>1, <1>2

LEMMA PlacesArePairs ==
    ASSUME NEW q, NEW x \in PlacesOf(q)
    PROVE  \E priority, n : x = <<priority, n>>
  BY DEF PlacesOf

LEMMA AppendedPlace ==
    ASSUME NEW q \in Entries, NEW e \in Item
    PROVE  \E x : x \notin PlacesOf(q) /\ PlacesOf(Append(q, e)) = PlacesOf(q) \cup {x}
<1> DEFINE r == Append(q, e)
           L == Len(Tier(q, e.priority))
           x == <<e.priority, L + 1>>
<1>1. r \in Entries /\ e.priority \in Priorities
  BY TierAppend, EntryParts
<1>2. L \in Nat
  BY TierIsList, LenProperties DEF IdLists
<1>3. \A priority : Tier(r, priority) = Tier(q, priority) \o Alone(e, priority)
  BY TierAppend
<1>4. Len(Tier(r, e.priority)) = L + 1
  <2>1. Tier(r, e.priority) = Tier(q, e.priority) \o <<e.id>>
    BY <1>3 DEF Alone
  <2>2. Tier(q, e.priority) \in Seq(CallIds) /\ e.id \in CallIds
    BY TierIsList, EntryParts DEF IdLists
  <2> QED BY <2>1, <2>2
<1>5. ASSUME NEW priority, priority # e.priority PROVE Tier(r, priority) = Tier(q, priority)
  <2>1. Alone(e, priority) = <<>>
    BY <1>5 DEF Alone
  <2>2. Tier(q, priority) \in Seq(CallIds)
    BY TierIsList DEF IdLists
  <2> QED BY <1>3, <2>1, <2>2, ConcatEmptySeq
<1> HIDE DEF r, L
<1>6. x \notin PlacesOf(q)
  <2>1. L + 1 \notin 1 .. L
    BY <1>2
  <2> QED BY <2>1, PlaceOf DEF L
<1>7. ASSUME NEW priority, NEW n
      PROVE  <<priority, n>> \in PlacesOf(r) <=> <<priority, n>> \in PlacesOf(q) \/ <<priority, n>> = x
  <2>1. CASE priority = e.priority
    <3>1. <<priority, n>> \in PlacesOf(r) <=> n \in 1 .. L + 1
      BY <1>1, <1>4, <2>1, PlaceOf
    <3>2. <<priority, n>> \in PlacesOf(q) <=> n \in 1 .. L
      BY <1>1, <2>1, PlaceOf DEF L
    <3>3. n \in 1 .. L + 1 <=> n \in 1 .. L \/ n = L + 1
      BY <1>2
    <3> QED BY <2>1, <3>1, <3>2, <3>3
  <2>2. CASE priority # e.priority
    BY <1>1, <1>5, <2>2, PlaceOf
  <2> QED BY <2>1, <2>2
<1>8. PlacesOf(r) \subseteq PlacesOf(q) \cup {x}
  BY <1>7, PlacesArePairs
<1>9. PlacesOf(q) \cup {x} \subseteq PlacesOf(r)
  BY <1>7, PlacesArePairs
<1>10. PlacesOf(r) = PlacesOf(q) \cup {x}
  BY <1>8, <1>9
<1> QED BY <1>6, <1>10 DEF r

Counts(q) == IsFiniteSet(PlacesOf(q)) /\ Cardinality(PlacesOf(q)) = Len(q)

\* The per-priority queues hold together as many items as the list.
LEMMA TotalIsLength ==
    ASSUME NEW q \in Entries
    PROVE  Counts(q)
<1> DEFINE N == Len(q)
           First(n) == SubSeq(q, 1, n)
           G == {n \in 0 .. N : Counts(First(n))}
<1>1. N \in Nat /\ \A n \in 1 .. N : q[n] \in Item
  BY LenProperties, ElementOfSeq DEF Entries
<1>2. ASSUME NEW n \in 0 .. N
      PROVE  /\ First(n) \in Entries /\ Len(First(n)) = n
             /\ \A j \in 1 .. n : First(n)[j] = q[j]
  <2>1. n \in Int /\ n <= N /\ \A j \in 1 .. n : q[j] \in Item
    BY <1>1
  <2> QED BY <1>1, <2>1, SubSeqProperties DEF Entries
<1>3. 0 \in G
  <2> DEFINE s == First(0)
  <2>1. s \in Entries /\ Len(s) = 0 /\ 0 \in 0 .. N
    BY <1>1, <1>2
  <2> HIDE DEF s
  <2>2. \A priority : Len(Tier(s, priority)) = 0
    <3>1. \A priority : Tier(s, priority) = <<>>
      BY <2>1, TierEmpty
    <3> QED BY <3>1, EmptySeq
  <2>3. \A priority, n : <<priority, n>> \notin PlacesOf(s)
    <3>1. ASSUME NEW priority, NEW n PROVE <<priority, n>> \notin PlacesOf(s)
      <4>1. <<priority, n>> \in PlacesOf(s) => n \in 1 .. Len(Tier(s, priority))
        BY <2>1, PlaceOf
      <4>2. n \notin 1 .. 0
        OBVIOUS
      <4> QED BY <2>2, <4>1, <4>2
    <3> QED BY <3>1
  <2>4. PlacesOf(s) = {}
    BY <2>3, PlacesArePairs
  <2>5. Counts(s)
    BY <2>1, <2>4, FS_EmptySet DEF Counts
  <2> QED BY <2>1, <2>5 DEF s
<1>4. ASSUME NEW n \in 1 .. N, n - 1 \in G PROVE n \in G
  <2> DEFINE s == First(n - 1)
             r == First(n)
  <2>1. n - 1 \in 0 .. N /\ n \in 0 .. N /\ n \in Nat
    BY <1>1
  <2>2. s \in Entries /\ Len(s) = n - 1 /\ r \in Entries /\ Len(r) = n
    BY <1>2, <2>1
  <2>3. /\ \A j \in 1 .. n - 1 : s[j] = q[j]
        /\ \A j \in 1 .. n : r[j] = q[j]
    BY <1>2, <2>1
  <2>4. Counts(s)
    BY <1>4
  <2> HIDE DEF s, r
  <2>5. r = Append(s, q[n])
    <3> DEFINE t == Append(s, q[n])
    <3>1. /\ t \in Seq(Item) /\ Len(t) = n
          /\ \A j \in 1 .. n - 1 : t[j] = s[j]
          /\ t[n] = q[n]
      BY <1>1, <2>1, <2>2, AppendProperties DEF Entries
    <3> HIDE DEF t
    <3>2. \A j \in 1 .. n : j \in 1 .. n - 1 \/ j = n
      BY <2>1
    <3>3. \A j \in 1 .. n : r[j] = t[j]
      BY <2>3, <3>1, <3>2
    <3>4. r = t
      BY <2>2, <3>1, <3>3, SeqEqual DEF Entries
    <3> QED BY <3>4 DEF t
  <2>6. PICK x : x \notin PlacesOf(s) /\ PlacesOf(r) = PlacesOf(s) \cup {x}
    BY <1>1, <2>2, <2>5, AppendedPlace
  <2>7. Counts(r)
    BY <2>1, <2>2, <2>4, <2>6, FS_AddElement DEF Counts
  <2> QED BY <2>1, <2>7 DEF r
<1> HIDE DEF G
<1>5. \A n \in 0 .. N : n \in G
  BY <1>1, <1>3, <1>4, UpToInduction
<1>6. N \in 0 .. N
  BY <1>1
<1>7. Counts(First(N))
  BY <1>5, <1>6 DEF G
<1>8. First(N) = q
  <2>1. First(N) \in Entries /\ Len(First(N)) = N /\ \A j \in 1 .. N : First(N)[j] = q[j]
    BY <1>2, <1>6
  <2> HIDE DEF First
  <2> QED BY <2>1, SeqEqual DEF Entries
<1> QED BY <1>7, <1>8

----------------------------------------------------------------------------
(* The queue of one priority around one item *)

\* The list f, then x, then b.
Joined(f, x, b) == (f \o <<x>>) \o b

LEMMA JoinedProperties ==
    ASSUME NEW f \in IdLists, NEW x \in CallIds, NEW b \in IdLists
    PROVE  /\ Joined(f, x, b) \in IdLists /\ Len(Joined(f, x, b)) = Len(f) + 1 + Len(b)
           /\ \A n \in 1 .. Len(f) : Joined(f, x, b)[n] = f[n]
           /\ Joined(f, x, b)[Len(f) + 1] = x
           /\ \A n \in 1 .. Len(b) : Joined(f, x, b)[Len(f) + 1 + n] = b[n]
<1> DEFINE one == <<x>>
           c == f \o one
           d == c \o b
           N == Len(f)
           M == Len(b)
<1>1. N \in Nat /\ M \in Nat /\ one \in IdLists /\ Len(one) = 1 /\ one[1] = x
  BY DEF IdLists
<1> HIDE DEF one
<1>2. /\ c \in IdLists /\ Len(c) = N + 1
      /\ \A j \in 1 .. N + 1 : c[j] = IF j <= N THEN f[j] ELSE one[j - N]
  <2>1. /\ c \in Seq(CallIds) /\ Len(c) = Len(f) + Len(one)
        /\ \A j \in 1 .. Len(f) + Len(one) : c[j] = IF j <= Len(f) THEN f[j] ELSE one[j - Len(f)]
    <3>1. f \in Seq(CallIds) /\ one \in Seq(CallIds)
      BY <1>1 DEF IdLists
    <3> QED BY ONLY <3>1, ConcatProperties
  <2> HIDE DEF c
  <2> QED BY <1>1, <2>1 DEF IdLists
<1> HIDE DEF c
<1>3. /\ d \in IdLists /\ Len(d) = N + 1 + M
      /\ \A j \in 1 .. N + 1 + M : d[j] = IF j <= N + 1 THEN c[j] ELSE b[j - (N + 1)]
  <2>1. /\ d \in Seq(CallIds) /\ Len(d) = Len(c) + Len(b)
        /\ \A j \in 1 .. Len(c) + Len(b) : d[j] = IF j <= Len(c) THEN c[j] ELSE b[j - Len(c)]
    <3>1. c \in Seq(CallIds) /\ b \in Seq(CallIds)
      BY <1>2 DEF IdLists
    <3> QED BY ONLY <3>1, ConcatProperties
  <2> HIDE DEF d
  <2> QED BY <1>1, <1>2, <2>1 DEF IdLists
<1>4. Joined(f, x, b) = d
  BY DEF Joined, d, c, one
<1> HIDE DEF d, N, M
<1>5. ASSUME NEW n \in 1 .. N PROVE d[n] = f[n]
  <2>1. n \in 1 .. N + 1 + M /\ n <= N + 1 /\ n \in 1 .. N + 1 /\ n <= N
    BY <1>1
  <2> QED BY <1>2, <1>3, <2>1
<1>6. d[N + 1] = x
  <2>1. N + 1 \in 1 .. N + 1 + M /\ N + 1 <= N + 1 /\ N + 1 \in 1 .. N + 1 /\ ~(N + 1 <= N)
        /\ (N + 1) - N = 1
    BY <1>1
  <2>2. d[N + 1] = c[N + 1]
    BY <1>3, <2>1
  <2>3. c[N + 1] = one[(N + 1) - N]
    BY <1>2, <2>1
  <2> QED BY <1>1, <2>1, <2>2, <2>3
<1>7. ASSUME NEW n \in 1 .. M PROVE d[N + 1 + n] = b[n]
  <2>1. N + 1 + n \in 1 .. N + 1 + M /\ ~(N + 1 + n <= N + 1) /\ (N + 1 + n) - (N + 1) = n
    BY <1>1
  <2> QED BY <1>3, <2>1
<1> QED BY <1>3, <1>4, <1>5, <1>6, <1>7 DEF N, M

LEMMA ConcatParts ==
    ASSUME NEW f \in IdLists, NEW b \in IdLists
    PROVE  /\ f \o b \in IdLists /\ Len(f \o b) = Len(f) + Len(b)
           /\ \A n \in 1 .. Len(f) : (f \o b)[n] = f[n]
           /\ \A n \in 1 .. Len(b) : (f \o b)[Len(f) + n] = b[n]
  BY DEF IdLists

LEMMA EmptyIsList == <<>> \in IdLists /\ Len(<<>>) = 0
  BY EmptySeq DEF IdLists

LEMMA EmptyAround ==
    ASSUME NEW f \in IdLists
    PROVE  f \o <<>> = f /\ <<>> \o f = f
  BY ConcatEmptySeq DEF IdLists

\* A list that is f and then b.
LEMMA IsConcat ==
    ASSUME NEW s \in IdLists, NEW f \in IdLists, NEW b \in IdLists, Len(s) = Len(f) + Len(b),
           \A n \in 1 .. Len(f) : s[n] = f[n], \A n \in 1 .. Len(b) : s[Len(f) + n] = b[n]
    PROVE  s = f \o b
<1> DEFINE c == f \o b
           N == Len(f)
           M == Len(b)
<1>1. N \in Nat /\ M \in Nat
  BY LenProperties DEF IdLists
<1>2. /\ c \in IdLists /\ Len(c) = N + M
      /\ \A n \in 1 .. N : c[n] = f[n]
      /\ \A n \in 1 .. M : c[N + n] = b[n]
  BY ConcatParts
<1>3. /\ Len(s) = N + M
      /\ \A n \in 1 .. N : s[n] = f[n]
      /\ \A n \in 1 .. M : s[N + n] = b[n]
  OBVIOUS
<1> HIDE DEF c, N, M
<1>4. ASSUME NEW n \in 1 .. N + M PROVE s[n] = c[n]
  <2>1. CASE n \in 1 .. N
    BY <1>2, <1>3, <2>1
  <2>2. CASE n \notin 1 .. N
    <3>1. n - N \in 1 .. M /\ N + (n - N) = n
      BY <1>1, <2>2
    <3>2. s[N + (n - N)] = b[n - N] /\ c[N + (n - N)] = b[n - N]
      BY <1>2, <1>3, <3>1
    <3> QED BY <3>1, <3>2
  <2> QED BY <2>1, <2>2
<1>5. s = c
  BY <1>2, <1>3, <1>4, SeqEqual DEF IdLists
<1> QED BY <1>5 DEF c

\* The abstract queues' operations on the list f, x, b.
LEMMA JoinedRemoval ==
    ASSUME NEW f \in IdLists, NEW x \in CallIds, NEW b \in IdLists
    PROVE  RemoveAt(Joined(f, x, b), Len(f) + 1) = f \o b
<1> DEFINE s == Joined(f, x, b)
           N == Len(f)
           M == Len(b)
           r == RemoveAt(s, N + 1)
<1>1. N \in Nat /\ M \in Nat
  BY LenProperties DEF IdLists
<1>2. /\ s \in IdLists /\ Len(s) = N + 1 + M
      /\ \A n \in 1 .. N : s[n] = f[n]
      /\ \A n \in 1 .. M : s[N + 1 + n] = b[n]
  BY JoinedProperties
<1> HIDE DEF s, N, M
<1>3. N + 1 \in 1 .. Len(s) /\ Len(s) - 1 = N + M
  BY <1>1, <1>2
<1>4. /\ r \in IdLists /\ Len(r) = N + M
      /\ \A j \in 1 .. N + M : r[j] = IF j < N + 1 THEN s[j] ELSE s[j + 1]
  <2>1. /\ r \in Seq(CallIds) /\ Len(r) = Len(s) - 1
        /\ \A j \in 1 .. Len(s) - 1 : r[j] = IF j < N + 1 THEN s[j] ELSE s[j + 1]
    BY <1>2, <1>3, RemoveAtProperties DEF IdLists
  <2> HIDE DEF r
  <2> QED BY <1>3, <2>1 DEF IdLists
<1> HIDE DEF r
<1>5. ASSUME NEW n \in 1 .. N PROVE r[n] = f[n]
  <2>1. n \in 1 .. N + M /\ n < N + 1
    BY <1>1
  <2> QED BY <1>2, <1>4, <2>1
<1>6. ASSUME NEW n \in 1 .. M PROVE r[N + n] = b[n]
  <2>1. N + n \in 1 .. N + M /\ ~(N + n < N + 1) /\ (N + n) + 1 = N + 1 + n
    BY <1>1
  <2>2. r[N + n] = s[(N + n) + 1]
    BY <1>4, <2>1
  <2> QED BY <1>2, <2>1, <2>2
<1>7. r = f \o b
  BY <1>4, <1>5, <1>6, IsConcat DEF N, M
<1> QED BY <1>7 DEF r, s, N

LEMMA JoinedInsertion ==
    ASSUME NEW f \in IdLists, NEW x \in CallIds, NEW b \in IdLists
    PROVE  InsertAt(f \o b, Len(f) + 1, x) = Joined(f, x, b)
<1> DEFINE c == f \o b
           N == Len(f)
           M == Len(b)
           u == SubSeq(c, 1, N)
           w == SubSeq(c, N + 1, N + M)
<1>1. N \in Nat /\ M \in Nat
  BY LenProperties DEF IdLists
<1>2. /\ c \in IdLists /\ Len(c) = N + M
      /\ \A n \in 1 .. N : c[n] = f[n]
      /\ \A n \in 1 .. M : c[N + n] = b[n]
  BY ConcatParts
<1>3. InsertAt(c, N + 1, x) = (u \o <<x>>) \o w
  <2>1. (N + 1) - 1 = N
    BY <1>1
  <2> HIDE DEF c, N, M
  <2> QED BY <1>2, <2>1 DEF InsertAt
<1> HIDE DEF c, N, M
<1>4. /\ u \in Seq(CallIds) /\ Len(u) = N
      /\ \A n \in 1 .. N : u[n] = c[n]
  BY <1>1, <1>2, SubSeqProperties DEF IdLists
<1>5. /\ w \in Seq(CallIds) /\ Len(w) = M
      /\ \A n \in 1 .. M : w[n] = c[N + n]
  BY <1>1, <1>2, SubSeqProperties DEF IdLists
<1> HIDE DEF u, w
<1>6. u = f
  BY <1>2, <1>4, SeqEqual DEF IdLists, N
<1>7. w = b
  BY <1>2, <1>5, SeqEqual DEF IdLists, M
<1> QED BY <1>3, <1>6, <1>7 DEF Joined, c, N

LEMMA JoinedEnds ==
    ASSUME NEW f \in IdLists, NEW x \in CallIds
    PROVE  /\ Tail(Joined(<<>>, x, f)) = f
           /\ Front(Joined(f, x, <<>>)) = f
           /\ Joined(f, x, <<>>) = Append(f, x)
<1> DEFINE none == <<>>
           one == <<x>>
<1>1. none \in IdLists /\ Len(none) = 0 /\ one \in IdLists /\ x \in CallIds
  BY EmptySeq DEF IdLists
<1>2. Joined(none, x, f) = <<x>> \o f
  BY <1>1, EmptyAround DEF Joined
<1>3. Joined(f, x, none) = f \o <<x>>
  <2>1. f \o <<x>> \in IdLists
    BY <1>1, ConcatParts
  <2> QED BY <2>1, EmptyAround DEF Joined
<1>4. Tail(<<x>> \o f) = f
  BY DEF IdLists
<1>5. f \o <<x>> = Append(f, x)
  BY DEF IdLists
<1>6. Front(Append(f, x)) = f
  BY DEF IdLists, Front
<1> QED BY <1>2, <1>3, <1>4, <1>5, <1>6

----------------------------------------------------------------------------
(* What the operations of the list do to the queues of PriorityQueues *)

LEMMA TiersAt ==
    ASSUME NEW q, NEW priority \in Priorities
    PROVE  Tiers(q)[priority] = Tier(q, priority)
  BY DEF Tiers

\* The tier of an entry and the others.
LEMMA TierOwn ==
    ASSUME NEW q \in Entries, NEW i \in 1 .. Len(q), NEW priority, priority = q[i].priority
    PROVE  /\ Tier(q, priority) = Joined(Tier(Before(q, i), priority), q[i].id, Tier(Behind(q, i), priority))
           /\ Tier(q, priority) # <<>>
<1> DEFINE f == Tier(Before(q, i), priority)
           b == Tier(Behind(q, i), priority)
<1>1. q[i] \in Item
  BY ElementOfSeq DEF Entries
<1>2. f \in IdLists /\ b \in IdLists /\ Tier(q, priority) = (f \o Alone(q[i], priority)) \o b
  BY <1>1, TierAround
<1>3. Alone(q[i], priority) = <<q[i].id>> /\ q[i].id \in CallIds
  BY <1>1, EntryParts DEF Alone
<1> HIDE DEF f, b
<1>4. Tier(q, priority) = Joined(f, q[i].id, b)
  BY <1>2, <1>3 DEF Joined
<1>5. Len(Tier(q, priority)) = Len(f) + 1 + Len(b) /\ Len(f) \in Nat /\ Len(b) \in Nat
  BY <1>2, <1>3, <1>4, JoinedProperties, LenProperties DEF IdLists
<1>6. Tier(q, priority) # <<>>
  BY <1>5, EmptyIsList
<1> QED BY <1>4, <1>6 DEF f, b

LEMMA TierOther ==
    ASSUME NEW q \in Entries, NEW i \in 1 .. Len(q), NEW priority, priority # q[i].priority
    PROVE  Tier(q, priority) = Tier(RemoveAt(q, i), priority)
<1> DEFINE f == Tier(Before(q, i), priority)
           b == Tier(Behind(q, i), priority)
<1>1. q[i] \in Item
  BY ElementOfSeq DEF Entries
<1>2. /\ f \in IdLists /\ b \in IdLists /\ Tier(q, priority) = (f \o Alone(q[i], priority)) \o b
      /\ Tier(RemoveAt(q, i), priority) = f \o b
  BY <1>1, TierAround
<1>3. Alone(q[i], priority) = <<>>
  BY DEF Alone
<1> HIDE DEF f, b
<1> QED BY <1>2, <1>3, EmptyAround

\* The queues that hold something are those of the queued priorities.
NonEmptyOf(q) == {priority \in Priorities : Tiers(q)[priority] # <<>>}

LEMMA QueuedPriorities ==
    ASSUME NEW q \in Entries, NEW priority
    PROVE  priority \in NonEmptyOf(q) <=> \E i \in 1 .. Len(q) : q[i].priority = priority
<1>1. ASSUME priority \in NonEmptyOf(q) PROVE \E i \in 1 .. Len(q) : q[i].priority = priority
  <2>1. Tier(q, priority) # <<>>
    BY <1>1, TiersAt DEF NonEmptyOf
  <2> QED BY <2>1, TierEmpty
<1>2. ASSUME NEW i \in 1 .. Len(q), q[i].priority = priority PROVE priority \in NonEmptyOf(q)
  <2>1. priority \in Priorities
    BY <1>2, ElementOfSeq, EntryParts DEF Entries
  <2>2. Tier(q, priority) # <<>>
    BY <1>2, TierOwn
  <2> QED BY <2>1, <2>2, TiersAt DEF NonEmptyOf
<1> QED BY <1>1, <1>2

LEMMA MaxIs ==
    ASSUME NEW T, T \subseteq Int, NEW m \in T, \A y \in T : y <= m
    PROVE  Max(T) = m
<1>1. \A x \in T : (\A y \in T : x >= y) => x = m
  OBVIOUS
<1>2. \A y \in T : m >= y
  OBVIOUS
<1> QED BY <1>1, <1>2 DEF Max

LEMMA MinIs ==
    ASSUME NEW T, T \subseteq Int, NEW m \in T, \A y \in T : m <= y
    PROVE  Min(T) = m
<1>1. \A x \in T : (\A y \in T : x <= y) => x = m
  OBVIOUS
<1> QED BY <1>1 DEF Min

LEMMA QueuedAreIntegers ==
    ASSUME NEW q \in Entries
    PROVE  NonEmptyOf(q) \subseteq Int
  BY PrioritiesAssumption DEF NonEmptyOf

\* get(): the front of the highest queue.
LEMMA NextIsHighest ==
    ASSUME NEW q \in Entries, NEW i \in 1 .. Len(q), IsNext(q, i)
    PROVE  /\ Max(NonEmptyOf(q)) = q[i].priority
           /\ NonEmptyOf(q) # {}
           /\ Tier(Before(q, i), q[i].priority) = <<>>
<1>1. /\ DOMAIN q = 1 .. Len(q) /\ Len(q) \in Nat
      /\ \A j \in 1 .. Len(q) : q[j].priority \in Int
  BY LenProperties, ElementOfSeq, EntryParts DEF Entries
<1>2. \A j \in 1 .. Len(q) : \/ q[j].priority < q[i].priority
                             \/ q[j].priority = q[i].priority /\ i <= j
  BY <1>1 DEF IsNext
<1>3. q[i].priority \in NonEmptyOf(q)
  BY QueuedPriorities
<1>4. ASSUME NEW y \in NonEmptyOf(q) PROVE y <= q[i].priority
  <2>1. PICK j \in 1 .. Len(q) : q[j].priority = y
    BY QueuedPriorities
  <2> QED BY <1>1, <1>2, <2>1
<1>5. Max(NonEmptyOf(q)) = q[i].priority
  BY <1>3, <1>4, QueuedAreIntegers, MaxIs
<1>6. \A j \in 1 .. i - 1 : q[j].priority # q[i].priority
  BY <1>1, <1>2
<1>7. Tier(Before(q, i), q[i].priority) = <<>>
  <2>1. Before(q, i) \in Entries
    BY AroundEntry
  <2>2. /\ Len(Before(q, i)) = i - 1
        /\ \A j \in 1 .. i - 1 : Before(q, i)[j] = q[j]
    BY AroundEntry
  <2>3. \A j \in 1 .. Len(Before(q, i)) : Before(q, i)[j].priority # q[i].priority
    BY <1>6, <2>2
  <2> QED BY <2>1, <2>3, TierEmpty
<1> QED BY <1>3, <1>5, <1>7

LEMMA DeliverTiers ==
    ASSUME NEW q \in Entries, NEW i \in 1 .. Len(q), IsNext(q, i), NEW top, top = q[i].priority
    PROVE  Tiers(RemoveAt(q, i)) = [Tiers(q) EXCEPT ![top] = Tail(Tiers(q)[top])]
<1> DEFINE r == RemoveAt(q, i)
           b == Tier(Behind(q, i), top)
<1>1. q[i] \in Item /\ top \in Priorities /\ q[i].id \in CallIds
  BY ElementOfSeq, EntryParts DEF Entries
<1>2. Tier(r, top) = Tail(Tiers(q)[top])
  <2>1. Tier(Before(q, i), top) = <<>>
    BY NextIsHighest
  <2>2. Tier(q, top) = Joined(<<>>, q[i].id, b)
    BY <2>1, TierOwn
  <2>3. b \in IdLists /\ Tier(r, top) = <<>> \o b
    <3>1. b \in IdLists /\ Tier(r, top) = Tier(Before(q, i), top) \o b
      BY <1>1, TierAround
    <3> QED BY <2>1, <3>1
  <2> HIDE DEF b, r
  <2>4. Tier(r, top) = b
    BY <2>3, EmptyAround
  <2> QED BY <1>1, <2>2, <2>3, <2>4, JoinedEnds, TiersAt
<1>3. ASSUME NEW priority \in Priorities, priority # top PROVE Tier(r, priority) = Tiers(q)[priority]
  BY <1>3, TierOther, TiersAt
<1> HIDE DEF r
<1>4. \A priority \in Priorities :
        Tier(r, priority) = [Tiers(q) EXCEPT ![top] = Tail(Tiers(q)[top])][priority]
  BY <1>1, <1>2, <1>3 DEF Tiers
<1>5. Tiers(r) = [Tiers(q) EXCEPT ![top] = Tail(Tiers(q)[top])]
  BY <1>4 DEF Tiers
<1> QED BY <1>5 DEF r

\* _append: the back of the item's queue.
LEMMA EnqueueTiers ==
    ASSUME NEW q \in Entries, NEW e \in Item, NEW own, own = e.priority
    PROVE  Tiers(Append(q, e)) = [Tiers(q) EXCEPT ![own] = Append(Tiers(q)[own], e.id)]
<1> DEFINE r == Append(q, e)
<1>1. own \in Priorities /\ e.id \in CallIds
  BY EntryParts
<1>2. \A priority : Tier(r, priority) = Tier(q, priority) \o Alone(e, priority)
  BY TierAppend
<1>3. Tier(r, own) = Append(Tiers(q)[own], e.id)
  <2>1. Tier(r, own) = Tier(q, own) \o <<e.id>> /\ Tier(q, own) \in Seq(CallIds)
    BY <1>2, TierIsList DEF Alone, IdLists
  <2>2. Tier(r, own) = Append(Tier(q, own), e.id)
    BY <1>1, <2>1
  <2> QED BY <1>1, <2>2, TiersAt
<1>4. ASSUME NEW priority \in Priorities, priority # own PROVE Tier(r, priority) = Tiers(q)[priority]
  <2>1. Alone(e, priority) = <<>>
    BY <1>4 DEF Alone
  <2>2. Tier(q, priority) \in IdLists
    BY TierIsList
  <2> QED BY <1>2, <2>1, <2>2, EmptyAround, TiersAt
<1> HIDE DEF r
<1>5. \A priority \in Priorities :
        Tier(r, priority) = [Tiers(q) EXCEPT ![own] = Append(Tiers(q)[own], e.id)][priority]
  BY <1>1, <1>3, <1>4 DEF Tiers
<1>6. Tiers(r) = [Tiers(q) EXCEPT ![own] = Append(Tiers(q)[own], e.id)]
  BY <1>5 DEF Tiers
<1> QED BY <1>6 DEF r

\* DROP_LOWEST: the back of the lowest queue.
LEMMA LowestIsMin ==
    ASSUME NEW q \in Entries, NEW i \in 1 .. Len(q), IsLowest(q, i)
    PROVE  /\ Min(NonEmptyOf(q)) = q[i].priority
           /\ Tier(Behind(q, i), q[i].priority) = <<>>
<1>1. /\ DOMAIN q = 1 .. Len(q) /\ Len(q) \in Nat
      /\ \A j \in 1 .. Len(q) : q[j].priority \in Int
  BY LenProperties, ElementOfSeq, EntryParts DEF Entries
<1>2. \A j \in 1 .. Len(q) : \/ q[j].priority > q[i].priority
                             \/ q[j].priority = q[i].priority /\ j <= i
  BY <1>1 DEF IsLowest
<1>3. q[i].priority \in NonEmptyOf(q)
  BY QueuedPriorities
<1>4. ASSUME NEW y \in NonEmptyOf(q) PROVE q[i].priority <= y
  <2>1. PICK j \in 1 .. Len(q) : q[j].priority = y
    BY QueuedPriorities
  <2> QED BY <1>1, <1>2, <2>1
<1>5. Min(NonEmptyOf(q)) = q[i].priority
  BY <1>3, <1>4, QueuedAreIntegers, MinIs
<1>6. \A j \in 1 .. Len(q) - i : i + j \in 1 .. Len(q) /\ q[i + j].priority # q[i].priority
  BY <1>1, <1>2
<1>7. Tier(Behind(q, i), q[i].priority) = <<>>
  <2>1. Behind(q, i) \in Entries
    BY AroundEntry
  <2>2. /\ Len(Behind(q, i)) = Len(q) - i
        /\ \A j \in 1 .. Len(q) - i : Behind(q, i)[j] = q[i + j]
    BY AroundEntry
  <2>3. \A j \in 1 .. Len(Behind(q, i)) : Behind(q, i)[j].priority # q[i].priority
    BY <1>6, <2>2
  <2> QED BY <2>1, <2>3, TierEmpty
<1> QED BY <1>5, <1>7

LEMMA RemoveLowestTiers ==
    ASSUME NEW q \in Entries, NEW i \in 1 .. Len(q), IsLowest(q, i), NEW low, low = q[i].priority
    PROVE  Tiers(RemoveAt(q, i)) = [Tiers(q) EXCEPT ![low] = Front(Tiers(q)[low])]
<1> DEFINE r == RemoveAt(q, i)
           f == Tier(Before(q, i), low)
<1>1. q[i] \in Item /\ low \in Priorities /\ q[i].id \in CallIds
  BY ElementOfSeq, EntryParts DEF Entries
<1>2. Tier(r, low) = Front(Tiers(q)[low])
  <2>1. Tier(Behind(q, i), low) = <<>>
    BY LowestIsMin
  <2>2. Tier(q, low) = Joined(f, q[i].id, <<>>)
    BY <2>1, TierOwn
  <2>3. f \in IdLists /\ Tier(r, low) = f \o <<>>
    <3>1. f \in IdLists /\ Tier(r, low) = f \o Tier(Behind(q, i), low)
      BY <1>1, TierAround
    <3> QED BY <2>1, <3>1
  <2> HIDE DEF f, r
  <2>4. Tier(r, low) = f
    BY <2>3, EmptyAround
  <2> QED BY <1>1, <2>2, <2>3, <2>4, JoinedEnds, TiersAt
<1>3. ASSUME NEW priority \in Priorities, priority # low PROVE Tier(r, priority) = Tiers(q)[priority]
  BY <1>3, TierOther, TiersAt
<1> HIDE DEF r
<1>4. \A priority \in Priorities :
        Tier(r, priority) = [Tiers(q) EXCEPT ![low] = Front(Tiers(q)[low])][priority]
  BY <1>1, <1>2, <1>3 DEF Tiers
<1>5. Tiers(r) = [Tiers(q) EXCEPT ![low] = Front(Tiers(q)[low])]
  BY <1>4 DEF Tiers
<1> QED BY <1>5 DEF r

\* A merge takes an entry out of its queue, wherever it is there,
LEMMA WithoutTiers ==
    ASSUME NEW q \in Entries, NEW i \in 1 .. Len(q), NEW old, old = q[i].priority
    PROVE  \E k \in 1 .. Len(Tiers(q)[old]) :
              Tiers(RemoveAt(q, i)) = [Tiers(q) EXCEPT ![old] = RemoveAt(Tiers(q)[old], k)]
<1> DEFINE r == RemoveAt(q, i)
           f == Tier(Before(q, i), old)
           b == Tier(Behind(q, i), old)
           k == Len(f) + 1
<1>1. q[i] \in Item /\ old \in Priorities /\ q[i].id \in CallIds
  BY ElementOfSeq, EntryParts DEF Entries
<1>2. /\ f \in IdLists /\ b \in IdLists /\ Tier(r, old) = f \o b
      /\ Tiers(q)[old] = Joined(f, q[i].id, b)
  <2>1. f \in IdLists /\ b \in IdLists /\ Tier(r, old) = f \o b
    BY <1>1, TierAround
  <2>2. Tier(q, old) = Joined(f, q[i].id, b)
    BY TierOwn
  <2> QED BY <1>1, <2>1, <2>2, TiersAt
<1>3. ASSUME NEW priority \in Priorities, priority # old PROVE Tier(r, priority) = Tiers(q)[priority]
  BY <1>3, TierOther, TiersAt
<1> HIDE DEF r, f, b
<1>4. Tier(r, old) = RemoveAt(Tiers(q)[old], k)
  BY <1>1, <1>2, JoinedRemoval
<1>5. k \in 1 .. Len(Tiers(q)[old])
  <2>1. Len(f) \in Nat /\ Len(b) \in Nat /\ Len(Tiers(q)[old]) = Len(f) + 1 + Len(b)
    BY <1>1, <1>2, JoinedProperties, LenProperties DEF IdLists
  <2> QED BY <2>1
<1> HIDE DEF k
<1>6. \A priority \in Priorities :
        Tier(r, priority) = [Tiers(q) EXCEPT ![old] = RemoveAt(Tiers(q)[old], k)][priority]
  BY <1>1, <1>3, <1>4 DEF Tiers
<1>7. Tiers(r) = [Tiers(q) EXCEPT ![old] = RemoveAt(Tiers(q)[old], k)]
  BY <1>6 DEF Tiers
<1> QED BY <1>5, <1>7 DEF r

\* and puts the new one where its order says.
InsertedIn(t, s, own, id) ==
    \E j \in 1 .. Len(s[own]) + 1 : t = [s EXCEPT ![own] = InsertAt(s[own], j, id)]

LEMMA InsertedTiers ==
    ASSUME NEW q \in Entries, NEW i \in 1 .. Len(q), NEW e \in Item, NEW own, own = e.priority,
           NEW s, s = Tiers(RemoveAt(q, i)), NEW r, r = [q EXCEPT ![i] = e]
    PROVE  InsertedIn(Tiers(r), s, own, e.id)
<1> DEFINE f == Tier(Before(q, i), own)
           b == Tier(Behind(q, i), own)
           j == Len(f) + 1
<1>1. own \in Priorities /\ e.id \in CallIds
  BY EntryParts
<1>2. /\ f \in IdLists /\ b \in IdLists /\ s[own] = f \o b
      /\ Tier(r, own) = (f \o Alone(e, own)) \o b
  <2>1. /\ f \in IdLists /\ b \in IdLists /\ Tier(RemoveAt(q, i), own) = f \o b
        /\ Tier(r, own) = (f \o Alone(e, own)) \o b
    BY TierAround
  <2>2. s[own] = Tier(RemoveAt(q, i), own)
    BY <1>1, TiersAt
  <2> QED BY <2>1, <2>2
<1>3. ASSUME NEW priority \in Priorities, priority # own PROVE Tier(r, priority) = s[priority]
  <2> DEFINE g == Tier(Before(q, i), priority)
             h == Tier(Behind(q, i), priority)
  <2>1. /\ g \in IdLists /\ h \in IdLists /\ s[priority] = g \o h
        /\ Tier(r, priority) = (g \o Alone(e, priority)) \o h
    <3>1. /\ g \in IdLists /\ h \in IdLists /\ Tier(RemoveAt(q, i), priority) = g \o h
          /\ Tier(r, priority) = (g \o Alone(e, priority)) \o h
      BY TierAround
    <3>2. s[priority] = Tier(RemoveAt(q, i), priority)
      BY TiersAt
    <3> QED BY <3>1, <3>2
  <2>2. Alone(e, priority) = <<>>
    BY <1>3 DEF Alone
  <2> HIDE DEF g, h
  <2> QED BY <2>1, <2>2, EmptyAround
<1> HIDE DEF f, b
<1>4. Tier(r, own) = InsertAt(s[own], j, e.id)
  <2>1. Alone(e, own) = <<e.id>>
    BY DEF Alone
  <2>2. Tier(r, own) = Joined(f, e.id, b)
    BY <1>2, <2>1 DEF Joined
  <2> QED BY <1>1, <1>2, <2>2, JoinedInsertion
<1>5. j \in 1 .. Len(s[own]) + 1
  <2>1. Len(f) \in Nat /\ Len(b) \in Nat /\ Len(s[own]) = Len(f) + Len(b)
    BY <1>2, ConcatParts, LenProperties DEF IdLists
  <2> QED BY <2>1
<1> HIDE DEF j
<1>6. s \in [Priorities -> IdLists]
  <2>1. RemoveAt(q, i) \in Entries
    BY RemoveAtProperties DEF Entries
  <2> QED BY <2>1, TierIsList DEF Tiers
<1>7. \A priority \in Priorities :
        Tier(r, priority) = [s EXCEPT ![own] = InsertAt(s[own], j, e.id)][priority]
  BY <1>1, <1>3, <1>4, <1>6
<1>8. Tiers(r) = [s EXCEPT ![own] = InsertAt(s[own], j, e.id)]
  BY <1>6, <1>7 DEF Tiers
<1> QED BY <1>5, <1>8 DEF InsertedIn

----------------------------------------------------------------------------
(* The refinement of PriorityQueues *)

\* The operators of the community modules are the same in the instance.
LEMMA SameMax == ASSUME NEW T PROVE Promise!Max(T) = Max(T)
  BY DEF Promise!Max, Max

LEMMA SameMin == ASSUME NEW T PROVE Promise!Min(T) = Min(T)
  BY DEF Promise!Min, Min

LEMMA SameFront == ASSUME NEW s PROVE Promise!Front(s) = Front(s)
  BY DEF Promise!Front, Front

LEMMA SameRemoveAt == ASSUME NEW s, NEW k PROVE Promise!RemoveAt(s, k) = RemoveAt(s, k)
  BY DEF Promise!RemoveAt, RemoveAt

LEMMA SameInsertAt == ASSUME NEW s, NEW k, NEW x PROVE Promise!InsertAt(s, k, x) = InsertAt(s, k, x)
  BY DEF Promise!InsertAt, InsertAt

LEMMA SameCardinality == ASSUME NEW T PROVE Promise!Cardinality(T) = Cardinality(T)
  BY Zenon DEF Promise!Cardinality, Cardinality

LEMMA PromiseState ==
    ASSUME IInv
    PROVE  /\ items \in Entries /\ Len(items) \in Nat /\ DOMAIN items = 1 .. Len(items)
           /\ Promise!NonEmpty = NonEmptyOf(items)
           /\ Promise!Total = Len(items)
<1>1. items \in Entries /\ Len(items) \in Nat /\ DOMAIN items = 1 .. Len(items)
  BY LenProperties DEF IInv, TypeOK, Entries
<1>2. Promise!NonEmpty = NonEmptyOf(items)
  BY DEF Promise!NonEmpty, NonEmptyOf
<1>3. Promise!Places = PlacesOf(items)
  BY DEF Promise!Places, PlacesOf
<1>4. Promise!Total = Len(items)
  <2>1. Cardinality(PlacesOf(items)) = Len(items)
    BY <1>1, TotalIsLength DEF Counts
  <2> QED BY <1>3, <2>1, SameCardinality DEF Promise!Total
<1> QED BY <1>1, <1>2, <1>4

LEMMA AcceptRefines ==
    ASSUME IInv, NEW item \in Item, Accept(item)
    PROVE  Promise!Enqueue
<1>1. Promise!Total < Capacity
  BY PromiseState DEF Accept
<1>2. item.id \in 1 .. MaxPuts /\ item.priority \in Priorities
  BY EntryParts DEF CallIds
<1>3. Tiers(items') = [Tiers(items) EXCEPT ![item.priority] = Append(Tiers(items)[item.priority], item.id)]
  BY PromiseState, EnqueueTiers DEF Accept, AppendItem
<1> QED BY <1>1, <1>2, <1>3 DEF Promise!Enqueue

LEMMA DisplaceRefines ==
    ASSUME IInv, NEW item \in Item, NEW displacing, Displace(item, displacing)
    PROVE  Promise!Displace
<1>1. /\ items \in Entries /\ Len(items) \in Nat /\ DOMAIN items = 1 .. Len(items)
      /\ Promise!NonEmpty = NonEmptyOf(items) /\ Promise!Total = Len(items)
  BY PromiseState
<1>2. Promise!Total = Capacity
  <2>1. Len(items) = Capacity
    <3>1. Len(items) >= Capacity
      BY DEF Displace
    <3>2. Len(items) <= Capacity
      BY DEF IInv, Bounded
    <3>3. Len(items) \in Nat
      BY <1>1
    <3> QED BY ONLY <3>1, <3>2, <3>3, CapacityAssumption
  <2> QED BY <1>1, <2>1, Zenon
<1>3. PICK i \in 1 .. Len(items) : /\ Displaces(items, i, item.priority)
                                   /\ items' = Append(RemoveAt(items, i), item)
  BY <1>1 DEF Displace, AppendItem
<1> DEFINE low == items[i].priority
           own == item.priority
           r == RemoveAt(items, i)
           s == Tiers(items)
<1>4. IsLowest(items, i) /\ own > low
  BY <1>3 DEF Displaces
<1>5. item.id \in 1 .. MaxPuts /\ own \in Priorities
  BY EntryParts DEF CallIds
<1>6. Promise!Min(Promise!NonEmpty) = low
  BY <1>1, <1>4, LowestIsMin, SameMin
<1>7. r \in Entries
  BY <1>1, RemoveAtProperties DEF Entries
<1>8. Tiers(r) = [s EXCEPT ![low] = Front(s[low])]
  BY <1>1, <1>4, RemoveLowestTiers
<1>9. Tiers(items') = [Tiers(r) EXCEPT ![own] = Append(Tiers(r)[own], item.id)]
  <2> HIDE DEF r
  <2>1. items' = Append(r, item)
    BY <1>3 DEF r
  <2> QED BY <1>7, <2>1, EnqueueTiers
<1>10. Tiers(items') = [s EXCEPT ![low] = Promise!Front(s[low]), ![own] = Append(s[own], item.id)]
  <2>1. s = [priority \in Priorities |-> s[priority]] /\ own # low
    <3>1. own \in Int /\ low \in Int
      BY <1>1, ElementOfSeq, EntryParts DEF Entries
    <3> QED BY <1>4, <3>1 DEF Tiers
  <2>2. Tiers(r)[own] = s[own]
    <3> HIDE DEF r, s, own, low
    <3> QED BY <1>5, <1>8, <2>1
  <2> HIDE DEF r, s, own, low
  <2>3. Front(s[low]) = Promise!Front(s[low])
    BY SameFront
  <2> QED BY <1>8, <1>9, <2>2, <2>3, Zenon
<1>11. item.id \in 1 .. MaxPuts /\ own \in {p \in Priorities : p > Promise!Min(Promise!NonEmpty)}
  BY <1>4, <1>5, <1>6
<1>12. Tiers(items)' = [Tiers(items) EXCEPT ![Promise!Min(Promise!NonEmpty)] = Promise!Front(@),
                                            ![own] = Append(@, item.id)]
  <2> HIDE DEF low, own, r
  <2> QED BY <1>6, <1>10, Zenon
<1> HIDE DEF low, own, r, s
<1> QED BY <1>2, <1>11, <1>12 DEF Promise!Displace

LEMMA CoalesceRefines ==
    ASSUME IInv, NEW item \in Item, Coalesce(item)
    PROVE  Promise!Merge
<1>1. /\ items \in Entries /\ DOMAIN items = 1 .. Len(items)
      /\ Promise!NonEmpty = NonEmptyOf(items)
  BY PromiseState
<1>2. PICK i \in 1 .. Len(items) : items' = [items EXCEPT ![i] = item]
  BY <1>1 DEF Coalesce
<1> DEFINE old == items[i].priority
           new == item.priority
           w == Tiers(RemoveAt(items, i))
<1>3. item.id \in 1 .. MaxPuts /\ new \in Priorities
  BY EntryParts DEF CallIds
<1>4. old \in Promise!NonEmpty
  BY <1>1, QueuedPriorities
<1>5. PICK k \in 1 .. Len(Tiers(items)[old]) :
        w = [Tiers(items) EXCEPT ![old] = RemoveAt(Tiers(items)[old], k)]
  BY <1>1, WithoutTiers
<1>6. PICK j \in 1 .. Len(w[new]) + 1 :
        Tiers(items') = [w EXCEPT ![new] = InsertAt(w[new], j, item.id)]
  <2>1. InsertedIn(Tiers(items'), w, new, item.id)
    BY <1>1, <1>2, InsertedTiers
  <2> QED BY <2>1 DEF InsertedIn
<1> HIDE DEF old, new, w
<1>7. Promise!Without(old, k) = w
  BY <1>5, SameRemoveAt, Zenon DEF Promise!Without
<1>8. Tiers(items') = [w EXCEPT ![new] = Promise!InsertAt(w[new], j, item.id)]
  BY <1>6, SameInsertAt, Zenon
<1>9. Tiers(items)' = [Promise!Without(old, k) EXCEPT
                         ![new] = Promise!InsertAt(Promise!Without(old, k)[new], j, item.id)]
  BY <1>7, <1>8, Zenon
<1>10. j \in 1 .. Len(Promise!Without(old, k)[new]) + 1
  BY <1>7
<1>11. k \in 1 .. Len(Tiers(items)[old])
  OBVIOUS
<1>12. \E n \in 1 .. Len(Promise!Without(old, k)[new]) + 1 :
         Tiers(items)' = [Promise!Without(old, k) EXCEPT
                            ![new] = Promise!InsertAt(Promise!Without(old, k)[new], n, item.id)]
  BY ONLY <1>9, <1>10, Zenon
<1> QED BY ONLY <1>3, <1>4, <1>11, <1>12, Zenon DEF Promise!Merge

LEMMA GetRefines ==
    ASSUME IInv, Get
    PROVE  Promise!Deliver
<1>1. /\ items \in Entries /\ DOMAIN items = 1 .. Len(items)
      /\ Promise!NonEmpty = NonEmptyOf(items)
  BY PromiseState
<1>2. PICK i \in 1 .. Len(items) : IsNext(items, i) /\ items' = RemoveAt(items, i)
  BY <1>1 DEF Get
<1> DEFINE top == items[i].priority
<1>3. Promise!Max(Promise!NonEmpty) = top /\ Promise!NonEmpty # {}
  BY <1>1, <1>2, NextIsHighest, SameMax
<1>4. Tiers(items') = [Tiers(items) EXCEPT ![top] = Tail(Tiers(items)[top])]
  BY <1>1, <1>2, DeliverTiers
<1> HIDE DEF top
<1>5. Tiers(items)' = [Tiers(items) EXCEPT ![Promise!Max(Promise!NonEmpty)] = Tail(@)]
  BY <1>3, <1>4, Zenon
<1> QED BY <1>3, <1>5 DEF Promise!Deliver

LEMMA EmptyTiers == Tiers(<<>>) = [priority \in Priorities |-> <<>>]
<1> DEFINE none == <<>>
<1>1. none \in Entries /\ Len(none) = 0
  BY EmptySeq DEF Entries
<1>2. \A i : i \notin 1 .. 0
  OBVIOUS
<1> HIDE DEF none
<1>3. \A priority : Tier(none, priority) = <<>>
  BY <1>1, <1>2, TierEmpty
<1> QED BY <1>3 DEF Tiers, none

LEMMA CloseRefines ==
    ASSUME IInv, NEW discard \in BOOLEAN, Close(discard)
    PROVE  Promise!Shut
<1>1. Tiers(items') \in {Tiers(items), [priority \in Priorities |-> <<>>]}
  BY EmptyTiers DEF Close
<1>2. (~closed') = FALSE
  BY DEF Close
<1> QED BY <1>1, <1>2 DEF Promise!Shut

\* A put changes the queues as PriorityQueues allows, or not at all.
LEMMA PutRefines ==
    ASSUME IInv, NEW item \in Item, NEW displacing, TryPut(item, displacing), UNCHANGED closed
    PROVE  [Promise!Next]_<<Tiers(items), ~closed>>
<1>1. Promise!Enqueue \/ Promise!Displace \/ Promise!Merge
  BY AcceptRefines, DisplaceRefines, CoalesceRefines DEF TryPut
<1>2. ~closed
  BY DEF TryPut
<1> QED BY <1>1, <1>2 DEF Promise!Next

\* mailbox.py:76-80 for any priorities, capacity and producers: the list behaves as one FIFO
\* queue per priority, served from the highest and displaced from the lowest.
THEOREM MailboxKeepsPromise == Spec => KeepsPromise
<1>1. Init => Promise!Init
  BY EmptyTiers DEF Init, Promise!Init
<1>2. ASSUME IInv, [Next]_vars PROVE [Promise!Next]_<<Tiers(items), ~closed>>
  <2>1. CASE Get
    <3>1. UNCHANGED closed
      BY <2>1 DEF Get
    <3> QED BY <1>2, <2>1, <3>1, GetRefines DEF Promise!Next
  <2>2. CASE UNCHANGED <<items, closed>>
    BY <2>2
  <2>3. ASSUME NEW discard \in BOOLEAN, Close(discard)
        PROVE  [Promise!Next]_<<Tiers(items), ~closed>>
    BY <1>2, <2>3, CloseRefines DEF Promise!Next
  <2>4. ASSUME NEW p \in Producers, NEW key \in KeysInUse, NEW priority \in Priorities,
               NEW displacing \in BOOLEAN, CallPut(p), TryPut(NewItem(key, priority), displacing)
        PROVE  [Promise!Next]_<<Tiers(items), ~closed>>
    <3>1. NewItem(key, priority) \in Item /\ UNCHANGED closed
      BY <1>2, <2>4, NewItemType DEF CallPut, IInv
    <3> QED BY <1>2, <2>4, <3>1, PutRefines
  <2>5. ASSUME NEW p \in Producers, ResumeAdmitted(p)
        PROVE  [Promise!Next]_<<Tiers(items), ~closed>>
    <3>1. waiter[p].item \in Item
      BY <1>2, <2>5 DEF ResumeAdmitted, Waiting, Waiter, IInv, TypeOK
    <3>2. TryPut(waiter[p].item, waiter[p].displacing) /\ UNCHANGED closed
      BY <2>5 DEF ResumeAdmitted
    <3> QED BY <1>2, <3>1, <3>2, PutRefines
  <2>6. ASSUME NEW p \in Producers, NEW key \in KeysInUse, NEW priority \in Priorities,
               Put(p, key, priority)
        PROVE  [Promise!Next]_<<Tiers(items), ~closed>>
    <3>1. CASE PutAdmitted(p, key, priority)
      BY <2>4, <3>1 DEF PutAdmitted
    <3>2. CASE PutRejected(p, key, priority)
      BY <2>2, <3>2 DEF PutRejected, CallPut
    <3> QED BY <2>6, <3>1, <3>2 DEF Put
  <2>7. ASSUME NEW p \in Producers, NEW key \in KeysInUse, NEW priority \in Priorities,
               NEW displacing \in BOOLEAN, PutWait(p, key, priority, displacing)
        PROVE  [Promise!Next]_<<Tiers(items), ~closed>>
    <3>1. CASE PutWaitAdmitted(p, key, priority, displacing)
      BY <2>4, <3>1 DEF PutWaitAdmitted
    <3>2. CASE PutWaitParks(p, key, priority, displacing)
      BY <2>2, <3>2 DEF PutWaitParks, CallPut
    <3> QED BY <2>7, <3>1, <3>2 DEF PutWait
  <2>8. ASSUME NEW p \in Producers, PutRefused(p) \/ Supersede(p) \/ Resume(p) \/ Abandon(p)
        PROVE  [Promise!Next]_<<Tiers(items), ~closed>>
    BY <2>2, <2>5, <2>8 DEF PutRefused, CallPut, Supersede, Resume, Abandon, ResumeCancelled,
       ResumeClosed, ResumeParks
  <2>9. CASE GetParks \/ GetClosed \/ UNCHANGED vars
    BY <2>2, <2>9 DEF GetParks, GetClosed, vars
  <2> QED BY <1>2, <2>1, <2>3, <2>6, <2>7, <2>8, <2>9 DEF Next
<1> QED BY <1>1, <1>2, Invariance, PTL DEF Spec, KeepsPromise, Promise!Spec
============================================================================
