--------------------------- MODULE PriorityQueues ---------------------------
(* What PriorityMailbox promises (its docstring, mailbox.py:74-81): one     *)
(* FIFO queue per priority, served from the highest non-empty one, with a   *)
(* bound on the total and displacement from the back of the lowest queue.   *)
EXTENDS Integers, FiniteSets, SequencesExt, FiniteSetsExt

CONSTANTS Priorities, Capacity, Ids

VARIABLES queue,   \* queue[priority], the item ids in delivery order
          open     \* puts are still allowed

NonEmpty == {priority \in Priorities : queue[priority] # <<>>}

\* The number of items in all queues.
Places == UNION {{priority} \X DOMAIN queue[priority] : priority \in Priorities}
Total == Cardinality(Places)

Init == queue = [priority \in Priorities |-> <<>>] /\ open = TRUE

Enqueue ==
    /\ Total < Capacity
    /\ \E id \in Ids, priority \in Priorities :
        queue' = [queue EXCEPT ![priority] = Append(@, id)]

\* A full mailbox makes room for a strictly more important item only, at the
\* expense of the newest item of the lowest tier.
Displace ==
    /\ Total = Capacity
    /\ LET lowest == Min(NonEmpty)
       IN  \E id \in Ids : \E priority \in {p \in Priorities : p > lowest} :
            queue' = [queue EXCEPT ![lowest] = Front(@), ![priority] = Append(@, id)]

Without(priority, i) == [queue EXCEPT ![priority] = RemoveAt(queue[priority], i)]

\* A merge replaces one item by a newer one, which may have another priority
\* and then takes the place its arrival order gives it there.
Merge ==
    \E old \in NonEmpty : \E i \in 1 .. Len(queue[old]) :
        \E id \in Ids, new \in Priorities :
            \E j \in 1 .. Len(Without(old, i)[new]) + 1 :
                queue' = [Without(old, i) EXCEPT ![new] = InsertAt(Without(old, i)[new], j, id)]

Deliver ==
    /\ NonEmpty # {}
    /\ queue' = [queue EXCEPT ![Max(NonEmpty)] = Tail(@)]

Shut ==
    /\ open' = FALSE
    /\ queue' \in {queue, [priority \in Priorities |-> <<>>]}

\* Every step but a close changes the queues.
Next ==
    \/ open /\ queue' # queue /\ (Enqueue \/ Displace \/ Merge) /\ UNCHANGED open
    \/ queue' # queue /\ Deliver /\ UNCHANGED open
    \/ Shut

Spec == Init /\ [][Next]_<<queue, open>>
=============================================================================
