---------------------------- MODULE MailboxOps ----------------------------
(* The two scans of runtime/mailbox.py over the list of queued entries.     *)
(* The list is a sequence in arrival order: _Entry.order increases along it *)
(* because _append is the only insertion, so comparing two orders is        *)
(* comparing two positions.                                                 *)
EXTENDS Integers, SequencesExt

\* Seeded fault of IsNext: max over (priority, order), the newest of a tier first.
IsNextNewest(q, i) ==
    \A j \in DOMAIN q :
        \/ q[j].priority < q[i].priority
        \/ q[j].priority = q[i].priority /\ j <= i

\* get(): the entry that maximises (priority, -order).
IsNext(q, i) ==
    \A j \in DOMAIN q :
        \/ q[j].priority < q[i].priority
        \/ q[j].priority = q[i].priority /\ i <= j

\* DROP_LOWEST: the newest entry of the lowest queued priority.
IsLowest(q, i) ==
    \A j \in DOMAIN q :
        \/ q[j].priority > q[i].priority
        \/ q[j].priority = q[i].priority /\ j <= i

\* Seeded fault of Displaces: >= for > lets equals displace each other.
DisplacesEqual(q, i, priority) == IsLowest(q, i) /\ priority >= q[i].priority

\* A full queue admits an item of this priority by displacing entry i.
Displaces(q, i, priority) == IsLowest(q, i) /\ priority > q[i].priority

\* _matching_entry(): the first entry, in list order, with the requested key.
IsMatch(q, i, key) ==
    /\ q[i].key = key
    /\ \A j \in 1 .. i - 1 : q[j].key # key
===========================================================================
