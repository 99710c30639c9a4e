------------------------------ MODULE Mailbox ------------------------------
(* runtime/mailbox.py: PriorityMailbox, one instance of it.                 *)
(*                                                                          *)
(* Producers call put (one immediate attempt) or put_wait (retry until      *)
(* there is room); one consumer calls get, as the actor loop does for the   *)
(* inbox and the WebSocket sender for the outbox. Every method body runs    *)
(* under _condition without suspending, so a call up to its first real      *)
(* suspension is one action. What suspends is modelled: a producer parked   *)
(* on _space_available and the cancellation signal, and a consumer parked   *)
(* on the condition variable.                                               *)
EXTENDS MailboxOps, FiniteSets

CONSTANTS Producers,   \* tasks that put
          Priorities,  \* EventPriority values in use
          Keys, NoKey, \* coalesce_key results; NoKey is None
          Capacity,    \* _capacity
          Policies,    \* OverflowPolicy values a mailbox may be built with
          MaxPuts,     \* bound: put calls of one behaviour
          NotWaiting   \* a producer that is not inside put_wait

ASSUME CapacityAssumption == Capacity \in Nat \ {0}
ASSUME PrioritiesAssumption == Priorities \subseteq Int
ASSUME PoliciesAssumption == Policies \subseteq {"reject", "drop_lowest", "coalesce"}
ASSUME BoundAssumption == MaxPuts \in Nat
ASSUME ProducersAssumption == IsFiniteSet(Producers)

Item == [id : 1 .. MaxPuts, key : Keys \cup {NoKey}, priority : Priorities]

\* A producer suspended in put_wait. `live` is accept_if() and the not yet
\* signalled cancel_waiter; `woken` that its space_task has completed.
Waiter == [item : Item, displacing : BOOLEAN, live : BOOLEAN, woken : BOOLEAN]

ASSUME NotWaitingAssumption == NotWaiting \notin Waiter

VARIABLES
    policy,    \* _overflow
    items,     \* _items
    closed,    \* _closed
    space,     \* _space_available.is_set()
    stats,     \* MailboxStats, and the put calls that raised
    waiter,    \* the producers suspended in put_wait
    consumer,  \* where the task that calls get is
    puts       \* put and put_wait calls so far

vars == <<policy, items, closed, space, stats, waiter, consumer, puts>>

Counters == {"accepted", "dequeued", "coalesced", "rejected", "cancelled",
             "evicted", "discarded", "raised"}

Bump(names) == [c \in Counters |-> IF c \in names THEN stats[c] + 1 ELSE stats[c]]

Waiting(p) == waiter[p] # NotWaiting

Init ==
    /\ policy \in Policies
    /\ items = <<>>
    /\ closed = FALSE
    /\ space = TRUE
    /\ stats = [c \in Counters |-> 0]
    /\ waiter = [p \in Producers |-> NotWaiting]
    /\ consumer = "busy"
    /\ puts = 0

----------------------------------------------------------------------------
(* _try_put_locked *)

\* _condition.notify(1): the parked consumer becomes runnable.
Notify == consumer' = IF consumer = "parked" THEN "notified" ELSE consumer

\* Event.set(): every space_task completes, whatever happens to the event next.
SignalSpace ==
    /\ space' = TRUE
    /\ waiter' = [p \in Producers |->
                    IF Waiting(p) THEN [waiter[p] EXCEPT !.woken = TRUE] ELSE waiter[p]]

Coalesces(item) ==
    policy = "coalesce" /\ item.key # NoKey /\ \E i \in DOMAIN items : items[i].key = item.key

\* Seeded fault of Coalesce: a merged item is not counted as accepted.
CoalesceUncounted(item) ==
    /\ Coalesces(item)
    /\ \E i \in DOMAIN items :
        /\ IsMatch(items, i, item.key)
        /\ items' = [items EXCEPT ![i] = item]
    /\ stats' = Bump({"coalesced"})
    /\ UNCHANGED space

\* The default coalescer keeps the new item; the entry keeps its place.
Coalesce(item) ==
    /\ Coalesces(item)
    /\ \E i \in DOMAIN items :
        /\ IsMatch(items, i, item.key)
        /\ items' = [items EXCEPT ![i] = item]
    /\ stats' = Bump({"accepted", "coalesced"})
    /\ UNCHANGED space

\* Seeded fault of AppendItem: > for >= in the test that clears the event.
AppendItemLateClear(queue, item) ==
    /\ items' = Append(queue, item)
    /\ space' = (space /\ Len(queue) + 1 <= Capacity)

\* _append
AppendItem(queue, item) ==
    /\ items' = Append(queue, item)
    /\ space' = (space /\ Len(queue) + 1 < Capacity)

\* Seeded fault of Accept: <= for < in the capacity test.
AcceptOneMore(item) ==
    /\ ~Coalesces(item)
    /\ Len(items) <= Capacity
    /\ AppendItem(items, item)
    /\ stats' = Bump({"accepted"})

Accept(item) ==
    /\ ~Coalesces(item)
    /\ Len(items) < Capacity
    /\ AppendItem(items, item)
    /\ stats' = Bump({"accepted"})

Displaceable(item, displacing) ==
    policy = "drop_lowest" /\ displacing /\ \E i \in DOMAIN items : Displaces(items, i, item.priority)

Displace(item, displacing) ==
    /\ ~Coalesces(item)
    /\ Len(items) >= Capacity
    /\ Displaceable(item, displacing)
    /\ \E i \in DOMAIN items :
        /\ Displaces(items, i, item.priority)
        /\ AppendItem(RemoveAt(items, i), item)
    /\ stats' = Bump({"accepted", "evicted"})

\* The attempts that mutate the queue; each ends with notify(1).
TryPut(item, displacing) ==
    /\ ~closed
    /\ Coalesce(item) \/ Accept(item) \/ Displace(item, displacing)
    /\ Notify

\* The attempt that returns None, or REJECTED_FULL from put.
NoRoom(item, displacing) ==
    /\ ~closed
    /\ ~Coalesces(item)
    /\ Len(items) >= Capacity
    /\ ~Displaceable(item, displacing)

----------------------------------------------------------------------------
(* put *)

\* Only a COALESCE mailbox is built with a coalesce_key.
KeysInUse == IF policy = "coalesce" THEN Keys \cup {NoKey} ELSE {NoKey}

\* Seeded fault of NewItem: numbering from zero.
NewItemFromZero(key, priority) == [id |-> puts, key |-> key, priority |-> priority]

\* The entry a call may add, numbered by the call.
NewItem(key, priority) == [id |-> puts + 1, key |-> key, priority |-> priority]

CallPut(p) ==
    /\ ~Waiting(p)
    /\ puts < MaxPuts
    /\ puts' = puts + 1
    /\ UNCHANGED <<policy, closed>>

PutAdmitted(p, key, priority) ==
    /\ CallPut(p)
    /\ TryPut(NewItem(key, priority), TRUE)
    /\ UNCHANGED waiter

PutRejected(p, key, priority) ==
    /\ CallPut(p)
    /\ NoRoom(NewItem(key, priority), TRUE)
    /\ stats' = Bump({"rejected"})
    /\ UNCHANGED <<items, space, waiter, consumer>>

\* MailboxClosed, from either put
PutRefused(p) ==
    /\ CallPut(p)
    /\ closed
    /\ stats' = Bump({"raised"})
    /\ UNCHANGED <<items, space, waiter, consumer>>

Put(p, key, priority) == PutAdmitted(p, key, priority) \/ PutRejected(p, key, priority)

(* put_wait *)

PutWaitAdmitted(p, key, priority, displacing) ==
    /\ CallPut(p)
    /\ TryPut(NewItem(key, priority), displacing)
    /\ UNCHANGED waiter

PutWaitParks(p, key, priority, displacing) ==
    /\ CallPut(p)
    /\ NoRoom(NewItem(key, priority), displacing)
    /\ waiter' = [waiter EXCEPT ![p] = [item |-> NewItem(key, priority), displacing |-> displacing,
                                        live |-> TRUE, woken |-> FALSE]]
    /\ UNCHANGED <<items, space, stats, consumer>>

PutWait(p, key, priority, displacing) ==
    \/ PutWaitAdmitted(p, key, priority, displacing)
    \/ PutWaitParks(p, key, priority, displacing)

\* The owner cancels the waiter's generation: accept_if() turns false and
\* cancel_waiter completes.
Supersede(p) ==
    /\ Waiting(p) /\ waiter[p].live
    /\ waiter' = [waiter EXCEPT ![p].live = FALSE]
    /\ UNCHANGED <<policy, items, closed, space, stats, consumer, puts>>

Leave(p) == waiter' = [waiter EXCEPT ![p] = NotWaiting]

\* Cancellation wins over room; it is found by the wait, the loop's first
\* test or accept_if.
ResumeCancelled(p) ==
    /\ Waiting(p) /\ ~waiter[p].live
    /\ stats' = Bump({"cancelled"})
    /\ Leave(p)
    /\ UNCHANGED <<policy, items, closed, space, consumer, puts>>

\* A closed mailbox raises MailboxClosed, unless the cancellation task has
\* already completed: a superseded waiter of a closed mailbox may end either way.
ResumeClosed(p) ==
    /\ Waiting(p) /\ waiter[p].woken /\ closed
    /\ stats' = Bump({"raised"})
    /\ Leave(p)
    /\ UNCHANGED <<policy, items, closed, space, consumer, puts>>

ResumeAdmitted(p) ==
    /\ Waiting(p) /\ waiter[p].woken /\ waiter[p].live
    /\ TryPut(waiter[p].item, waiter[p].displacing)
    /\ Leave(p)
    /\ UNCHANGED <<policy, closed, puts>>

\* Another producer took the room first: a new space_task is created.
ResumeParks(p) ==
    /\ Waiting(p) /\ waiter[p].woken /\ waiter[p].live
    /\ NoRoom(waiter[p].item, waiter[p].displacing)
    /\ waiter' = [waiter EXCEPT ![p].woken = FALSE]
    /\ UNCHANGED <<policy, items, closed, space, stats, consumer, puts>>

Resume(p) == ResumeCancelled(p) \/ ResumeClosed(p) \/ ResumeAdmitted(p) \/ ResumeParks(p)

\* The producer's task is cancelled inside put_wait; its finally clause
\* releases both helper tasks.
Abandon(p) ==
    /\ Waiting(p)
    /\ stats' = Bump({"raised"})
    /\ Leave(p)
    /\ UNCHANGED <<policy, items, closed, space, consumer, puts>>

----------------------------------------------------------------------------
(* get and close *)

Get ==
    /\ consumer \in {"busy", "notified"}
    /\ \E i \in DOMAIN items : IsNext(items, i) /\ items' = RemoveAt(items, i)
    /\ stats' = Bump({"dequeued"})
    /\ consumer' = "busy"
    /\ SignalSpace
    /\ UNCHANGED <<policy, closed, puts>>

GetParks ==
    /\ consumer \in {"busy", "notified"}
    /\ items = <<>> /\ ~closed
    /\ consumer' = "parked"
    /\ UNCHANGED <<policy, items, closed, space, stats, waiter, puts>>

\* MailboxClosed: the consumer's loop ends.
GetClosed ==
    /\ consumer \in {"busy", "notified"}
    /\ items = <<>> /\ closed
    /\ consumer' = "ended"
    /\ UNCHANGED <<policy, items, closed, space, stats, waiter, puts>>

\* Seeded fault of Close: _space_available is not set.
CloseSilently(discard) ==
    /\ items' = IF discard THEN <<>> ELSE items
    /\ stats' = [stats EXCEPT !["discarded"] = IF discard THEN @ + Len(items) ELSE @]
    /\ closed' = TRUE
    /\ Notify
    /\ UNCHANGED <<policy, space, waiter, puts>>

\* Repeated by the actor's finally clause after stop(), so a second close,
\* possibly with another discard, is a legal call.
Close(discard) ==
    /\ items' = IF discard THEN <<>> ELSE items
    /\ stats' = [stats EXCEPT !["discarded"] = IF discard THEN @ + Len(items) ELSE @]
    /\ closed' = TRUE
    /\ SignalSpace
    /\ Notify
    /\ UNCHANGED <<policy, puts>>

----------------------------------------------------------------------------

Next ==
    \/ \E p \in Producers, key \in KeysInUse, priority \in Priorities :
        \/ Put(p, key, priority)
        \/ \E displacing \in BOOLEAN : PutWait(p, key, priority, displacing)
    \/ \E p \in Producers : PutRefused(p) \/ Supersede(p) \/ Resume(p) \/ Abandon(p)
    \/ Get \/ GetParks \/ GetClosed
    \/ \E discard \in BOOLEAN : Close(discard)

\* The event loop runs every runnable task: a woken or cancelled waiter, and
\* a consumer that is not parked.
Fairness ==
    /\ \A p \in Producers : WF_vars(Resume(p))
    /\ WF_vars(Get \/ GetParks \/ GetClosed)

Spec == Init /\ [][Next]_vars /\ Fairness

----------------------------------------------------------------------------
(* Properties *)

TypeOK ==
    /\ policy \in Policies
    /\ items \in Seq(Item)
    /\ closed \in BOOLEAN
    /\ space \in BOOLEAN
    /\ stats \in [Counters -> Nat]
    /\ waiter \in [Producers -> Waiter \cup {NotWaiting}]
    /\ consumer \in {"busy", "parked", "notified", "ended"}
    /\ puts \in 0 .. MaxPuts

\* However immediate puts, woken waiters and displacements interleave, the
\* queue never holds more than _capacity entries (the len test of
\* _try_put_locked, mailbox.py:302, and the pop before _append at 316).
Bounded == Len(items) <= Capacity

\* No wakeup is lost. _space_available is set exactly when a put could find
\* room or must find out that the mailbox is closed; a producer still parked
\* on it is parked for a reason; and a consumer is only parked on an empty,
\* open mailbox (get, close and _append of mailbox.py keep this together).
WakeupsNotLost ==
    /\ space <=> (closed \/ Len(items) < Capacity)
    /\ \A p \in Producers : Waiting(p) /\ ~waiter[p].woken => ~space
    /\ consumer = "parked" => items = <<>> /\ ~closed

\* Every put call ends one way or is still waiting, and every accepted item
\* is delivered, merged, displaced, discarded by close or still queued:
\* MailboxStats accounts for every item (stats, mailbox.py:133-143).
Accounted ==
    /\ puts = stats["accepted"] + stats["rejected"] + stats["cancelled"] + stats["raised"]
              + Cardinality({p \in Producers : Waiting(p)})
    /\ stats["accepted"] = stats["coalesced"] + stats["dequeued"] + stats["evicted"]
                           + stats["discarded"] + Len(items)

\* An accepted item of the highest priority leaves the queue only by being
\* delivered, merged or discarded by close, never to make room: "Critical
\* priority prevents a successfully queued lifecycle event from later being
\* displaced" (foreground_voice.py:75).
TopPriority(item) == \A priority \in Priorities : priority <= item.priority

TopPriorityKept ==
    [][\A i \in DOMAIN items :
        /\ TopPriority(items[i])
        /\ ~\E j \in DOMAIN items' : items'[j].id = items[i].id
        => \/ stats'["dequeued"] = stats["dequeued"] + 1 /\ IsNext(items, i)
           \/ stats'["coalesced"] = stats["coalesced"] + 1
           \/ closed']_vars

\* A producer whose generation was superseded, or whose mailbox was closed,
\* does not stay in put_wait, whether or not the consumer ever makes room
\* (the second wait of put_wait, and set() in close).
WaitersReleased ==
    \A p \in Producers : (Waiting(p) /\ (closed \/ ~waiter[p].live)) ~> ~Waiting(p)

\* The ids of the entries of one priority, in the order of the list.
Tier(q, priority) ==
    LET tier[n \in 0 .. Len(q)] ==
            IF n = 0 THEN <<>>
            ELSE IF q[n].priority = priority THEN Append(tier[n - 1], q[n].id)
            ELSE tier[n - 1]
    IN  tier[Len(q)]

\* The per-priority queues that the flat list of entries stands for.
Tiers(q) == [priority \in Priorities |-> Tier(q, priority)]

Promise == INSTANCE PriorityQueues WITH
    Ids <- 1 .. MaxPuts,
    queue <- Tiers(items),
    open <- ~closed

\* The single list scanned by get and _try_put_locked behaves as one FIFO
\* queue per priority: "Higher priorities are delivered first and equal
\* priorities retain FIFO order" (mailbox.py:76-80), through coalescing,
\* displacement and waiting producers.
KeepsPromise == Promise!Spec

============================================================================
