----------------------- MODULE MCConversationStorage -----------------------
(* Texts whose history does not fit as a whole, so that it is cut and one    *)
(* message dropped; and the two compilers and observe on small inputs.       *)
EXTENDS ConversationStorage

Context == INSTANCE ContextCompiler

MCMessageChars == [s \in Sequences |-> IF s % 2 = 1 THEN 2 ELSE 3]

SmallEntries(id) ==
    [id : {id}, tier : Context!Tiers, bytes : {3, 9}, priority : {0, 1},
     mandatory : BOOLEAN, demotable : BOOLEAN]
SmallBudgets == [tier : {<<1, 1, 1>>, <<2, 1, 0>>, <<3, 3, 2>>}, total : {1, 4}]
TurnEntries == {Context!TurnEntries(canon, persona) : canon \in 1..9, persona \in 1..9}

\* The snapshot keeps every budget, tier and total, places each entry once or drops it, never
\* moves one to a more authoritative tier, and always has canon.
ASSUME SnapshotsKeepBudgets ==
    \A entries \in TurnEntries \cup {{e, f} : e \in SmallEntries(1), f \in SmallEntries(2)},
       b \in SmallBudgets :
        LET result == Context!CompileContext(entries, b)
            tokens(placed) == FoldLeft(LAMBDA n, x : n + x.tokens, 0, SetToSeq(placed))
        IN  /\ \A tier \in Context!Tiers :
                  tokens({x \in result.selected : x.tier = tier}) <= b.tier[tier]
            /\ tokens(result.selected) = result.total /\ result.total <= b.total
            /\ \A g \in Context!WithFallback(entries) :
                  Cardinality({x \in result.selected : x.id = g.id})
                    + Cardinality(result.dropped \cap {g.id}) = 1
            /\ \A x \in result.selected, g \in entries : x.id = g.id => x.tier >= g.tier
            /\ \E x \in result.selected : x.tier = 1

\* observe keeps the bound and the order, and loses an event that may not be displaced only
\* when nothing displaceable waits.
ASSUME DurableEventsKept ==
    \A pending \in SeqOf(BOOLEAN, RecorderCapacity), displaceable \in BOOLEAN :
        LET before == [pending |-> pending, task |-> "persisting", wake |-> TRUE, closed |-> FALSE]
            after == Observe(before, displaceable).pending
            durable(events) == SelectSeq(events, LAMBDA d : ~d)
        IN  /\ Len(after) <= RecorderCapacity
            /\ durable(after) = IF displaceable \/ (Len(pending) = RecorderCapacity
                                                      /\ Displaceable(pending) = {})
                                THEN durable(pending) ELSE Append(durable(pending), FALSE)
=============================================================================
