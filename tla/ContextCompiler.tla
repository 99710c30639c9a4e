--------------------------- MODULE ContextCompiler ---------------------------
(* ContextCompiler.compile (memory/context.py): the entries of a context     *)
(* snapshot, chosen tier by tier within the budgets. A text is its number of *)
(* UTF-8 bytes; what an entry says is left out.                              *)
EXTENDS Naturals, Sequences, FiniteSets, SequencesExt

BytesPerToken == 4

\* Utf8HeuristicTokenEstimator.estimate
Estimate(bytes) == (bytes + BytesPerToken - 1) \div BytesPerToken

\* truncate, for a text of one-byte characters that does not end in a space at the cut.
Truncate(bytes, tokens) ==
    IF Estimate(bytes) <= tokens THEN bytes ELSE tokens * BytesPerToken

Tiers == 1..3    \* t0_canon, t1_hot, t2_map

\* _entry_sort_key; a number stands for entry_id, the last key.
Precedes(e, f) ==
    LET rank(x) == IF x.mandatory THEN 1 ELSE 0
    IN  \/ rank(e) > rank(f)
        \/ rank(e) = rank(f) /\ e.priority > f.priority
        \/ rank(e) = rank(f) /\ e.priority = f.priority /\ e.id < f.id

MinimalCanon == [id |-> 0, tier |-> 1, bytes |-> 8, priority |-> 10000, mandatory |-> TRUE,
                 demotable |-> FALSE]

\* Without a mandatory canon entry the compiler adds its minimal one.
WithFallback(entries) ==
    IF \E e \in entries : e.tier = 1 /\ e.mandatory THEN entries ELSE entries \cup {MinimalCanon}

Placed(e, tier, bytes) ==
    [id |-> e.id, tier |-> tier, tokens |-> Estimate(bytes), trimmed |-> bytes < e.bytes]

\* One entry of a tier: selected whole, a mandatory one cut to what is left, handed on to the
\* next tier, or dropped.
Place(state, e, tier, allowance) ==
    LET remaining == IF allowance > state.used THEN allowance - state.used ELSE 0
        take(bytes) == [state EXCEPT !.selected = @ \cup {Placed(e, tier, bytes)},
                                     !.used = @ + Estimate(bytes)]
    IN  IF Estimate(e.bytes) <= remaining THEN take(e.bytes)
        ELSE IF e.mandatory /\ remaining > 0 THEN take(Truncate(e.bytes, remaining))
        ELSE IF e.demotable /\ ~e.mandatory /\ tier < 3
        THEN [state EXCEPT !.demoted = @ \cup {e}]
        ELSE [state EXCEPT !.dropped = @ \cup {e.id}]

\* A tier: its own entries and the ones the tier before handed on, in order.
CompileTier(result, tier, entries, budget) ==
    LET queue == SetToSortSeq({e \in entries : e.tier = tier} \cup result.demoted, Precedes)
        left == budget.total - result.total
        allowance == IF budget.tier[tier] < left THEN budget.tier[tier] ELSE left
        placed == FoldLeft(LAMBDA state, e : Place(state, e, tier, allowance),
                           [selected |-> result.selected, used |-> 0, demoted |-> {},
                            dropped |-> result.dropped], queue)
    IN  [selected |-> placed.selected, demoted |-> placed.demoted, dropped |-> placed.dropped,
         total |-> result.total + placed.used]

\* compile
CompileContext(entries, budget) ==
    FoldLeft(LAMBDA result, tier : CompileTier(result, tier, WithFallback(entries), budget),
             [selected |-> {}, demoted |-> {}, dropped |-> {}, total |-> 0], <<1, 2, 3>>)

\* compile_for_turn: the owner's canon and the character's persona. What it compiles is also
\* published in the snapshot cache; the memory generation is 0, so none is refused as stale.
TurnEntries(canonBytes, personaBytes) ==
    {[id |-> 1, tier |-> 1, bytes |-> canonBytes, priority |-> 10000, mandatory |-> TRUE,
      demotable |-> FALSE],
     [id |-> 2, tier |-> 2, bytes |-> personaBytes, priority |-> 1000, mandatory |-> FALSE,
      demotable |-> TRUE]}
=============================================================================
