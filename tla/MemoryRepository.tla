-------------------------- MODULE MemoryRepository --------------------------
(* SqliteMemoryRepository (storage/memory_repository.py): memory candidates, *)
(* the decisions on them and the revisions they become. A call's reads run   *)
(* before its transaction takes the write lock: SQLite begins a transaction  *)
(* at the first statement that writes, and the session does not flush by     *)
(* itself (autoflush=False). So a call of apply_decision reads the candidate,*)
(* reads the record, and then writes everything atomically from what it read.*)
(* Callers run concurrently, each on a thread with a session of its own. A   *)
(* revision is named after the candidate it was promoted from, a memory      *)
(* after its first candidate: both ids are generated and fresh in the code.  *)
EXTENDS MemoryPromotion, Naturals, FiniteSets

CONSTANTS Candidates,    \* candidate ids
          Attr,          \* what the policy reads of each candidate
          NamespaceOf, ScopeOf, VisibilityOf,
          Mortal,        \* the candidates with a ttl or valid_until
          Callers,       \* concurrent calls of apply_decision
          MaxCalls,      \* bound: how many calls read a candidate
          None

Namespaces == {NamespaceOf[c] : c \in Candidates}

ASSUME CandidateAssumption ==
    /\ \A c \in Candidates : Attr[c] \in Attributes /\ VisibilityOf[c] \in Visibilities
    /\ Mortal \subseteq Candidates /\ None \notin Candidates

VARIABLES candidates,    \* memory_candidates: the status and base of those that are stored
          records,       \* memory_records: the current revision of each memory
          revisions,     \* memory_revisions
          generation,    \* memory_generations
          decisions,     \* memory_decisions
          lapsed,        \* the revisions whose validity is over
          calls,         \* the calls under way
          made           \* the number of calls so far, up to MaxCalls

vars == <<candidates, records, revisions, generation, decisions, lapsed, calls, made>>

NoBase == [memory |-> None, revision |-> None]
Idle == [at |-> "idle"]
Stored(c) == candidates[c].status /= "absent"
RecordExists(m) == records[m] /= None
NextOrder == Cardinality(revisions) + 1

Init ==
    /\ candidates = [c \in Candidates |-> [status |-> "absent", base |-> NoBase]]
    /\ records = [m \in Candidates |-> None]
    /\ revisions = {}
    /\ generation = [n \in Namespaces |-> 0]
    /\ decisions = {}
    /\ lapsed = {}
    /\ calls = [p \in Callers |-> Idle]
    /\ made = 0

\* add_candidate: as a new memory, or as a revision of what its proposer last read. A replay
\* of the same id changes nothing: it returns or raises.
AddCandidate(c) ==
    /\ ~Stored(c)
    /\ \E base \in {NoBase} \cup {[memory |-> m, revision |-> records[m]] :
                                    m \in {x \in Candidates : RecordExists(x)}} :
          candidates' = [candidates EXCEPT ![c] = [status |-> "pending", base |-> base]]
    /\ UNCHANGED <<records, revisions, generation, decisions, lapsed, calls, made>>

\* The start of apply_decision, for a candidate that is stored and not terminal and a valid
\* decision; otherwise it returns what is committed or raises, and changes nothing.
ReadCandidate(p, c, action, approval) ==
    /\ calls[p] = Idle /\ made < MaxCalls
    /\ made' = made + 1
    /\ candidates[c].status \in {"pending", "review_required"}
    /\ ValidDecision(Attr[c], action, approval)
    /\ calls' = [calls EXCEPT ![p] =
            [at |-> IF StatusAfter(action, approval) = "committed" THEN "record" ELSE "status",
             candidate |-> c, seen |-> candidates[c].status,
             action |-> action, approval |-> approval, began |-> NextOrder]]
    /\ UNCHANGED <<candidates, records, revisions, generation, decisions, lapsed>>

Decision(call) ==
    [candidate |-> call.candidate, action |-> call.action, approval |-> call.approval]

\* The transaction of a decision that commits nothing. The row is updated only if the status
\* differs from the one the call read.
WriteStatus(p) ==
    LET call == calls[p]
        status == StatusAfter(call.action, call.approval)
    IN  /\ call.at = "status"
        /\ candidates' = [candidates EXCEPT ![call.candidate].status =
                            IF status = call.seen THEN @ ELSE status]
        /\ decisions' = decisions \cup {Decision(call)}
        /\ calls' = [calls EXCEPT ![p] = Idle]
        /\ UNCHANGED <<records, revisions, generation, lapsed, made>>

\* Seeded fault: the current revision is not compared with the base.
BaseAcceptedUnchecked(c) ==
    candidates[c].base /= NoBase => RecordExists(candidates[c].base.memory)

\* The checks of _commit_candidate on the record that is revised.
BaseAccepted(c) ==
    LET base == candidates[c].base
    IN  base /= NoBase =>
            /\ RecordExists(base.memory)
            /\ records[base.memory] = base.revision
            /\ Attr[base.memory].kind = Attr[c].kind
            /\ ScopeOf[base.memory] = ScopeOf[c]

\* The call reads the record and goes on, or raises.
ReadRecord(p) ==
    /\ calls[p].at = "record"
    /\ calls' = [calls EXCEPT ![p] =
            IF BaseAccepted(calls[p].candidate) THEN [@ EXCEPT !.at = "commit"] ELSE Idle]
    /\ UNCHANGED <<candidates, records, revisions, generation, decisions, lapsed, made>>

\* Seeded fault: nothing keeps a candidate from being promoted twice.
NeverPromoted(c) == FALSE

\* The unique index on memory_revisions.candidate_id.
Promoted(c) == \E r \in revisions : r.candidate = c

\* The transaction of _commit_candidate: the next generation of the namespace, the record,
\* the revision, the status and the decision, or nothing if the index refuses the revision.
WriteCommit(p) ==
    LET call == calls[p]
        c == call.candidate
        base == candidates[c].base
        memory == IF base = NoBase THEN c ELSE base.memory
        namespace == NamespaceOf[c]
    IN  /\ call.at = "commit"
        /\ calls' = [calls EXCEPT ![p] = Idle]
        /\ \/ /\ Promoted(c)
              /\ UNCHANGED <<candidates, records, revisions, generation, decisions>>
           \/ /\ ~Promoted(c)
              /\ generation' = [generation EXCEPT ![namespace] = @ + 1]
              /\ records' = [records EXCEPT ![memory] = c]
              /\ revisions' = revisions \cup
                    {[candidate |-> c, memory |-> memory, namespace |-> namespace,
                      generation |-> generation'[namespace], parent |-> base.revision,
                      began |-> call.began, order |-> NextOrder]}
              /\ candidates' = [candidates EXCEPT ![c].status = "committed"]
              /\ decisions' = decisions \cup {Decision(call)}
        /\ UNCHANGED <<lapsed, made>>

\* The busy timeout or a crash ends a call before its transaction: it is rolled back.
CallFails(p) ==
    /\ calls[p] /= Idle
    /\ calls' = [calls EXCEPT ![p] = Idle]
    /\ UNCHANGED <<candidates, records, revisions, generation, decisions, lapsed, made>>

\* A ttl or a valid_until passes.
Lapse(c) ==
    /\ c \in Mortal /\ Promoted(c) /\ c \notin lapsed
    /\ lapsed' = lapsed \cup {c}
    /\ UNCHANGED <<candidates, records, revisions, generation, decisions, calls, made>>

\* search: the current revisions of a namespace that the audience may see.
Search(namespace, allowed) ==
    {r \in revisions : /\ r.namespace = namespace
                       /\ records[r.memory] = r.candidate
                       /\ VisibilityOf[r.candidate] \in allowed
                       /\ r.candidate \notin lapsed}

\* An approver matters to a review only; with the other actions the name is just logged.
DecisionInputs ==
    {d \in [action : PromotionActions, approval : Approvals] :
        d.action /= "require_review" => d.approval = "none"}

Next ==
    \/ \E c \in Candidates : AddCandidate(c) \/ Lapse(c)
    \/ \E p \in Callers, c \in Candidates, d \in DecisionInputs :
          ReadCandidate(p, c, d.action, d.approval)
    \/ \E p \in Callers : WriteStatus(p) \/ ReadRecord(p) \/ WriteCommit(p) \/ CallFails(p)

Spec == Init /\ [][Next]_vars

-----------------------------------------------------------------------------
(* Properties                                                               *)

\* The ledger apply_decision leaves behind, however its calls overlap: the generations of a
\* namespace are its revisions counted from 1 without a gap, a candidate has at most one
\* revision and a committed one has it (else apply_decision raises "committed candidate has
\* no revision"), and every record points at its newest revision (else get_record raises
\* "points to a missing revision").
LedgerConsistent ==
    /\ \A n \in Namespaces :
          LET own == {r \in revisions : r.namespace = n}
          IN  /\ {r.generation : r \in own} = 1..generation[n]
              /\ Cardinality(own) = generation[n]
    /\ \A r, s \in revisions : r.candidate = s.candidate => r = s
    /\ \A c \in Candidates : candidates[c].status = "committed" =>
          \E r \in revisions : r.candidate = c
    /\ \A m \in Candidates : RecordExists(m) =>
          \E r \in revisions : /\ r.candidate = records[m] /\ r.memory = m
                               /\ \A s \in revisions : s.memory = m => s.order <= r.order

\* Nothing that search can return came past the policy: not what the baseline rejects or
\* quarantines, and what needs a review only with the decision of a named approver, even
\* when the decisions on a candidate race each other.
OnlyAdmittedIsFound ==
    \A n \in Namespaces : \A r \in Search(n, Visibilities) :
        LET baseline == Classify(Attr[r.candidate])
        IN  /\ baseline \notin {"reject", "quarantine"}
            /\ baseline = "require_review" =>
                  \E d \in decisions : /\ d.candidate = r.candidate
                                       /\ d.action = "require_review" /\ d.approval = "named"

\* A stale base is refused (OptimisticConcurrencyError): of two revisions of the same base,
\* the later one can only come from a call that was already under way when the earlier one
\* was committed.
BranchesOnlyFromOverlap ==
    \A r, s \in revisions :
        r.parent /= None /\ r.parent = s.parent /\ r.order < s.order => s.began <= r.order
=============================================================================
