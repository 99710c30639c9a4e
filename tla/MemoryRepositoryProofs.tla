----------------------- MODULE MemoryRepositoryProofs -----------------------
(* The properties of MemoryRepository for any candidates, attributes,        *)
(* namespaces and any number of overlapping calls.                           *)
EXTENDS MemoryRepository, FiniteSetTheorems, TLAPS

Statuses == {"absent", "pending", "review_required", "committed", "rejected", "quarantined"}
Base == [memory : Candidates \cup {None}, revision : Candidates \cup {None}]
Revision == [candidate : Candidates, memory : Candidates, namespace : Namespaces,
             generation : Nat, parent : Candidates \cup {None}, began : Nat, order : Nat]
Call == [at : {"status", "record", "commit"}, candidate : Candidates, seen : Statuses,
         action : PromotionActions, approval : Approvals, began : Nat]

Types ==
    /\ candidates \in [Candidates -> [status : Statuses, base : Base]]
    /\ records \in [Candidates -> Candidates \cup {None}]
    /\ revisions \subseteq Revision /\ IsFiniteSet(revisions)
    /\ generation \in [Namespaces -> Nat]
    /\ calls \in [Callers -> {Idle} \cup Call]

\* What a call under way has found out: its candidate is stored, its decision was valid, and
\* it began no later than now.
SoundCall(call) ==
    /\ Stored(call.candidate)
    /\ call.began <= NextOrder
    /\ call.at \in {"record", "commit"} =>
          /\ ValidDecision(Attr[call.candidate], call.action, call.approval)
          /\ StatusAfter(call.action, call.approval) = "committed"
    /\ call.at = "status" => StatusAfter(call.action, call.approval) /= "committed"

SoundCalls == \A p \in Callers : calls[p] /= Idle => SoundCall(calls[p])

\* A revision that was built on the base of a call about to commit came after the call began.
RivalsAreLater(call) ==
    call.at = "commit" =>
        \A r \in revisions :
            /\ candidates[call.candidate].base.revision /= None
            /\ r.parent = candidates[call.candidate].base.revision
            => call.began <= r.order

RivalCalls == \A p \in Callers : calls[p] /= Idle => RivalsAreLater(calls[p])

\* Revisions are numbered in the order of their commits.
Numbered == \A r \in revisions : r.order <= Cardinality(revisions)

UniqueRevisions == \A r, s \in revisions : r.candidate = s.candidate => r = s

IsRevisionOf(revision, memory) ==
    \E q \in revisions : q.candidate = revision /\ q.memory = memory

\* A base names a memory and one of its revisions.
Bases ==
    \A c \in Candidates : candidates[c].base /= NoBase =>
        /\ candidates[c].base.memory \in Candidates
        /\ candidates[c].base.revision \in Candidates
        /\ IsRevisionOf(candidates[c].base.revision, candidates[c].base.memory)

\* A parent is an older revision of the same memory.
Parents ==
    \A r \in revisions : r.parent /= None =>
        \E q \in revisions : /\ q.candidate = r.parent /\ q.memory = r.memory
                             /\ q.order < r.order

Own(n) == {r \in revisions : r.namespace = n}

Generations ==
    \A n \in Namespaces : /\ {r.generation : r \in Own(n)} = 1..generation[n]
                          /\ Cardinality(Own(n)) = generation[n]

CommittedHaveRevision ==
    \A c \in Candidates : candidates[c].status = "committed" =>
        \E r \in revisions : r.candidate = c

\* A record points at the newest revision of its memory.
Heads ==
    \A m \in Candidates : RecordExists(m) =>
        \E r \in revisions : /\ r.candidate = records[m] /\ r.memory = m
                             /\ \A s \in revisions : s.memory = m => s.order <= r.order

\* The policy admitted what became a revision.
Admitted(r) ==
    LET baseline == Classify(Attr[r.candidate])
    IN  /\ baseline \notin {"reject", "quarantine"}
        /\ baseline = "require_review" =>
              \E d \in decisions : /\ d.candidate = r.candidate
                                   /\ d.action = "require_review" /\ d.approval = "named"

AllAdmitted == \A r \in revisions : Admitted(r)

IInv ==
    /\ Types /\ SoundCalls /\ RivalCalls
    /\ Numbered /\ UniqueRevisions /\ Bases /\ Parents
    /\ Generations /\ CommittedHaveRevision /\ Heads
    /\ AllAdmitted /\ BranchesOnlyFromOverlap

-----------------------------------------------------------------------------
(* The policy and the decisions                                             *)

LEMMA StatusAfterType ==
    ASSUME NEW action \in PromotionActions, NEW approval \in Approvals
    PROVE  /\ StatusAfter(action, approval) \in Statuses
           /\ StatusAfter(action, approval) /= "absent"
  BY DEF StatusAfter, Statuses, PromotionActions, Approvals

\* A valid decision that commits is an automatic commit of what the baseline lets through, or
\* a review with a named approver.
LEMMA CommitIsAdmitted ==
    ASSUME NEW a, NEW action \in PromotionActions, NEW approval \in Approvals,
           ValidDecision(a, action, approval),
           StatusAfter(action, approval) = "committed"
    PROVE  /\ Classify(a) \notin {"reject", "quarantine"}
           /\ Classify(a) = "require_review" => action = "require_review" /\ approval = "named"
  BY DEF ValidDecision, StatusAfter, PromotionActions, Approvals

-----------------------------------------------------------------------------
(* Steps that leave the revisions alone                                      *)

\* The part of the invariant about the ledger alone.
Ledger ==
    /\ Numbered /\ UniqueRevisions /\ Parents /\ Generations /\ Heads
    /\ AllAdmitted /\ BranchesOnlyFromOverlap

LEMMA LedgerFrame ==
    ASSUME Ledger, UNCHANGED <<records, revisions, generation>>, decisions \subseteq decisions'
    PROVE  Ledger'
  <1>1. (Numbered /\ UniqueRevisions /\ Parents /\ BranchesOnlyFromOverlap)'
    BY DEF Ledger, Numbered, UniqueRevisions, Parents, BranchesOnlyFromOverlap
  <1>2. Generations'
    BY DEF Ledger, Generations, Own
  <1>3. Heads'
    BY DEF Ledger, Heads, RecordExists
  <1>4. AllAdmitted'
    BY DEF Ledger, AllAdmitted, Admitted
  <1> QED BY <1>1, <1>2, <1>3, <1>4 DEF Ledger

\* A call that ends takes nothing else with it.
LEMMA CallEnds ==
    ASSUME IInv, NEW p \in Callers, calls' = [calls EXCEPT ![p] = Idle],
           UNCHANGED <<candidates, records, revisions, generation, decisions>>
    PROVE  IInv'
  <1>1. Ledger'
    BY LedgerFrame DEF IInv, Ledger
  <1>2. Types'
    BY DEF IInv, Types
  <1>3. (SoundCalls /\ RivalCalls)'
    BY DEF IInv, Types, SoundCalls, RivalCalls, SoundCall, RivalsAreLater, Stored, NextOrder
  <1>4. (Bases /\ CommittedHaveRevision)'
    BY DEF IInv, Bases, CommittedHaveRevision, IsRevisionOf
  <1> QED BY <1>1, <1>2, <1>3, <1>4 DEF IInv, Ledger

LEMMA InitIInv == Init => IInv
  <1> SUFFICES ASSUME Init PROVE IInv
    OBVIOUS
  <1>1. Types
    BY FS_EmptySet DEF Init, Types, Statuses, Base, NoBase
  <1>2. SoundCalls /\ RivalCalls
    BY DEF Init, SoundCalls, RivalCalls
  <1>3. Numbered /\ UniqueRevisions /\ Parents /\ AllAdmitted /\ BranchesOnlyFromOverlap
    BY DEF Init, Numbered, UniqueRevisions, Parents, AllAdmitted, BranchesOnlyFromOverlap
  <1>4. Bases /\ CommittedHaveRevision
    BY DEF Init, Bases, CommittedHaveRevision
  <1>5. Generations
    <2> SUFFICES ASSUME NEW n \in Namespaces
                 PROVE  /\ {r.generation : r \in Own(n)} = 1..generation[n]
                        /\ Cardinality(Own(n)) = generation[n]
      BY DEF Generations
    <2>1. Own(n) = {} /\ generation[n] = 0
      BY DEF Init, Own
    <2> QED BY <2>1, FS_EmptySet
  <1>6. Heads
    BY DEF Init, Heads, RecordExists
  <1> QED BY <1>1, <1>2, <1>3, <1>4, <1>5, <1>6 DEF IInv

LEMMA AddCandidateIInv ==
    ASSUME IInv, NEW c \in Candidates, AddCandidate(c)
    PROVE  IInv'
  <1>1. PICK base \in {NoBase} \cup {[memory |-> m, revision |-> records[m]] :
                                    m \in {x \in Candidates : RecordExists(x)}} :
            candidates' = [candidates EXCEPT ![c] = [status |-> "pending", base |-> base]]
    BY DEF AddCandidate
  <1>2. UNCHANGED <<records, revisions, generation, decisions, calls>> /\ ~Stored(c)
    BY DEF AddCandidate
  <1>3. Ledger'
    BY <1>2, LedgerFrame DEF IInv, Ledger
  <1>4. base /= NoBase => /\ base.memory \in Candidates /\ base.revision \in Candidates
                          /\ IsRevisionOf(base.revision, base.memory)
    BY DEF IInv, Types, RecordExists, Heads, IsRevisionOf
  <1>5. base \in Base
    BY <1>1 DEF IInv, Types, Base, NoBase
  <1>6. Types'
    BY <1>1, <1>2, <1>5 DEF IInv, Types, Statuses
  <1>7. \A x \in Candidates : x /= c => candidates'[x] = candidates[x]
    BY <1>1 DEF IInv, Types
  <1>8. candidates'[c] = [status |-> "pending", base |-> base]
    BY <1>1 DEF IInv, Types
  <1>9. Bases'
    BY <1>2, <1>4, <1>7, <1>8 DEF IInv, Bases, IsRevisionOf
  <1>10. CommittedHaveRevision'
    BY <1>2, <1>7, <1>8 DEF IInv, CommittedHaveRevision
  <1>11. \A p \in Callers : calls[p] /= Idle =>
            calls[p].candidate \in Candidates /\ calls[p].candidate /= c
    BY <1>2 DEF IInv, Types, Call, SoundCalls, SoundCall
  <1>12. (SoundCalls /\ RivalCalls)'
    BY <1>2, <1>7, <1>11
    DEF IInv, SoundCalls, RivalCalls, SoundCall, RivalsAreLater, Stored, NextOrder
  <1> QED BY <1>3, <1>6, <1>9, <1>10, <1>12 DEF IInv, Ledger

LEMMA ReadCandidateIInv ==
    ASSUME IInv, NEW p \in Callers, NEW c \in Candidates, NEW action \in PromotionActions,
           NEW approval \in Approvals, ReadCandidate(p, c, action, approval)
    PROVE  IInv'
  <1> DEFINE call == [at |-> IF StatusAfter(action, approval) = "committed"
                             THEN "record" ELSE "status",
                      candidate |-> c, seen |-> candidates[c].status,
                      action |-> action, approval |-> approval, began |-> NextOrder]
  <1>1. /\ calls' = [calls EXCEPT ![p] = call]
        /\ UNCHANGED <<candidates, records, revisions, generation, decisions>>
        /\ candidates[c].status \in {"pending", "review_required"}
        /\ ValidDecision(Attr[c], action, approval)
    BY DEF ReadCandidate
  <1>2. Ledger'
    BY <1>1, LedgerFrame DEF IInv, Ledger
  <1>3. NextOrder \in Nat
    BY FS_CardinalityType DEF IInv, Types, NextOrder
  <1>4. call \in Call
    BY <1>3 DEF IInv, Types, Call
  <1>5. Types'
    BY <1>1, <1>4 DEF IInv, Types
  <1>6. SoundCall(call)'
    BY <1>1, <1>3 DEF SoundCall, Stored, NextOrder
  <1>7. RivalsAreLater(call)'
    BY DEF RivalsAreLater
  <1>8. calls'[p] = call /\ \A q \in Callers : q /= p => calls'[q] = calls[q]
    BY <1>1 DEF IInv, Types
  <1>9. SoundCalls'
    BY <1>1, <1>6, <1>8 DEF IInv, SoundCalls, SoundCall, Stored, NextOrder
  <1>10. RivalCalls'
    BY <1>1, <1>7, <1>8 DEF IInv, RivalCalls, RivalsAreLater
  <1>11. (Bases /\ CommittedHaveRevision)'
    BY <1>1 DEF IInv, Bases, CommittedHaveRevision, IsRevisionOf
  <1> QED BY <1>2, <1>5, <1>9, <1>10, <1>11 DEF IInv, Ledger

LEMMA WriteStatusIInv ==
    ASSUME IInv, NEW p \in Callers, WriteStatus(p)
    PROVE  IInv'
  <1> DEFINE call == calls[p]
             status == StatusAfter(call.action, call.approval)
             c == call.candidate
  <1>1. /\ call.at = "status"
        /\ candidates' = [candidates EXCEPT ![c].status = IF status = call.seen THEN @ ELSE status]
        /\ decisions \subseteq decisions'
        /\ calls' = [calls EXCEPT ![p] = Idle]
        /\ UNCHANGED <<records, revisions, generation>>
    BY DEF WriteStatus
  <1>2. call \in Call /\ call /= Idle
    BY <1>1 DEF IInv, Types, Idle
  <1>3. status \in Statuses /\ status /= "absent" /\ status /= "committed"
    BY <1>1, <1>2, StatusAfterType DEF IInv, SoundCalls, SoundCall, Call
  <1>4. Ledger'
    BY <1>1, LedgerFrame DEF IInv, Ledger
  <1>5. Types'
    BY <1>1, <1>2, <1>3 DEF IInv, Types, Call
  <1>6. \A x \in Candidates :
            /\ candidates'[x].base = candidates[x].base
            /\ candidates[x].status /= "absent" => candidates'[x].status /= "absent"
            /\ candidates'[x].status = "committed" => candidates[x].status = "committed"
    BY <1>1, <1>2, <1>3 DEF IInv, Types, Call
  <1>7. Bases'
    BY <1>1, <1>6 DEF IInv, Bases, IsRevisionOf
  <1>8. CommittedHaveRevision'
    BY <1>1, <1>6 DEF IInv, CommittedHaveRevision
  <1>9. \A q \in Callers : calls'[q] /= Idle =>
            calls'[q] = calls[q] /\ calls[q].candidate \in Candidates
    BY <1>1 DEF IInv, Types, Call
  <1>10. SoundCalls'
    BY <1>1, <1>6, <1>9 DEF IInv, SoundCalls, SoundCall, Stored, NextOrder
  <1>11. RivalCalls'
    BY <1>1, <1>6, <1>9 DEF IInv, RivalCalls, RivalsAreLater
  <1> QED BY <1>4, <1>5, <1>7, <1>8, <1>10, <1>11 DEF IInv, Ledger

\* When a call finds that its base is current, nothing has been built on that base: what is
\* built on a revision is a newer revision of the same memory, and the record would point at it.
LEMMA CurrentBaseHasNoChild ==
    ASSUME IInv, NEW c \in Candidates, BaseAccepted(c), candidates[c].base.revision /= None,
           NEW r \in revisions, r.parent = candidates[c].base.revision
    PROVE  FALSE
  <1> DEFINE base == candidates[c].base
  <1>1. /\ base /= NoBase /\ base.memory \in Candidates
        /\ RecordExists(base.memory) /\ records[base.memory] = base.revision
    BY DEF IInv, Bases, BaseAccepted, NoBase
  <1>2. PICK h \in revisions :
            /\ h.candidate = base.revision /\ h.memory = base.memory
            /\ \A s \in revisions : s.memory = base.memory => s.order <= h.order
    BY <1>1 DEF IInv, Heads
  <1>3. PICK q \in revisions : q.candidate = r.parent /\ q.memory = r.memory /\ q.order < r.order
    BY DEF IInv, Parents
  <1>4. q = h
    BY <1>2, <1>3 DEF IInv, UniqueRevisions
  <1>5. r.order <= q.order
    BY <1>2, <1>3, <1>4
  <1>6. r.order \in Nat /\ q.order \in Nat
    BY DEF IInv, Types, Revision
  <1> QED BY <1>3, <1>5, <1>6

LEMMA ReadRecordIInv ==
    ASSUME IInv, NEW p \in Callers, ReadRecord(p)
    PROVE  IInv'
  <1> DEFINE call == calls[p]
  <1>1. /\ call.at = "record"
        /\ UNCHANGED <<candidates, records, revisions, generation, decisions>>
        /\ calls' = [calls EXCEPT ![p] = IF BaseAccepted(call.candidate)
                                         THEN [call EXCEPT !.at = "commit"] ELSE Idle]
    BY DEF ReadRecord
  <1>2. call \in Call /\ call /= Idle
    BY <1>1 DEF IInv, Types, Idle
  <1>3. CASE ~BaseAccepted(call.candidate)
    BY <1>1, <1>3, CallEnds
  <1>4. CASE BaseAccepted(call.candidate)
    <2> DEFINE next == [call EXCEPT !.at = "commit"]
    <2>1. Ledger'
      BY <1>1, LedgerFrame DEF IInv, Ledger
    <2>2. next \in Call /\ next.at = "commit" /\ next.candidate = call.candidate
          /\ next.action = call.action /\ next.approval = call.approval
          /\ next.began = call.began
      BY <1>2 DEF Call
    <2>3. calls'[p] = next /\ \A q \in Callers : q /= p => calls'[q] = calls[q]
      BY <1>1, <1>4 DEF IInv, Types
    <2>4. Types'
      BY <1>1, <1>4, <2>2 DEF IInv, Types
    <2> HIDE DEF next
    <2>5. SoundCall(calls[p])'
      <3>1. SoundCall(call)
        BY <1>2 DEF IInv, SoundCalls
      <3> QED BY <1>1, <2>2, <2>3, <3>1 DEF SoundCall, Stored, NextOrder
    <2>6. RivalsAreLater(calls[p])'
      BY <1>1, <1>2, <1>4, <2>2, <2>3, CurrentBaseHasNoChild DEF RivalsAreLater, Call
    <2>7. SoundCalls'
      BY <1>1, <2>3, <2>5 DEF IInv, SoundCalls, SoundCall, Stored, NextOrder
    <2>8. RivalCalls'
      BY <1>1, <2>3, <2>6 DEF IInv, RivalCalls, RivalsAreLater
    <2>9. (Bases /\ CommittedHaveRevision)'
      BY <1>1 DEF IInv, Bases, CommittedHaveRevision, IsRevisionOf
    <2> QED BY <2>1, <2>4, <2>7, <2>8, <2>9 DEF IInv, Ledger
  <1> QED BY <1>3, <1>4

-----------------------------------------------------------------------------
(* The transaction that adds a revision                                      *)

LEMMA WriteCommitIInv ==
    ASSUME IInv, NEW p \in Callers, WriteCommit(p)
    PROVE  IInv'
  <1> DEFINE call == calls[p]
             c == call.candidate
             base == candidates[c].base
             memory == IF base = NoBase THEN c ELSE base.memory
             namespace == NamespaceOf[c]
             new == [candidate |-> c, memory |-> memory, namespace |-> namespace,
                     generation |-> generation[namespace] + 1, parent |-> base.revision,
                     began |-> call.began, order |-> NextOrder]
  <1>1. call.at = "commit" /\ calls' = [calls EXCEPT ![p] = Idle]
    BY DEF WriteCommit
  <1>2. call \in Call /\ call /= Idle
    BY <1>1 DEF IInv, Types, Idle
  <1>3. CASE Promoted(c)
    <2>1. UNCHANGED <<candidates, records, revisions, generation, decisions>>
      BY <1>3 DEF WriteCommit
    <2> QED BY <1>1, <2>1, CallEnds
  <1>4. CASE ~Promoted(c)
    <2>1. /\ c \in Candidates /\ namespace \in Namespaces
          /\ base \in Base /\ memory \in Candidates
      BY <1>2 DEF IInv, Types, Call, Namespaces, Bases
    <2>2. generation' = [generation EXCEPT ![namespace] = @ + 1]
      BY <1>4 DEF WriteCommit
    <2>3. generation'[namespace] = generation[namespace] + 1
      BY <2>1, <2>2 DEF IInv, Types
    <2>4. /\ records' = [records EXCEPT ![memory] = c]
          /\ revisions' = revisions \cup {new}
          /\ candidates' = [candidates EXCEPT ![c].status = "committed"]
          /\ decisions' = decisions \cup {Decision(call)}
      BY <1>4, <2>3 DEF WriteCommit
    <2>5. NextOrder \in Nat /\ Cardinality(revisions) \in Nat
      BY FS_CardinalityType DEF IInv, Types, NextOrder
    <2>6. new \in Revision
      BY <1>2, <2>1, <2>5 DEF IInv, Types, Revision, Call, Base
    <2>7. /\ new \notin revisions
          /\ \A r \in revisions : r.candidate /= c
      BY <1>4 DEF Promoted
    <2>fields. /\ new.candidate = c /\ new.memory = memory /\ new.namespace = namespace
          /\ new.generation = generation[namespace] + 1 /\ new.parent = base.revision
          /\ new.began = call.began /\ new.order = NextOrder
      OBVIOUS
    <2> HIDE DEF new
    <2>8. Cardinality(revisions') = Cardinality(revisions) + 1 /\ IsFiniteSet(revisions')
      BY <2>4, <2>7, FS_AddElement DEF IInv, Types
    <2>9. Types'
      BY <1>1, <2>1, <2>2, <2>4, <2>6, <2>8 DEF IInv, Types, Statuses
    <2>10. \A r \in revisions : r.order \in Nat /\ r.order < new.order
      BY <2>5, <2>fields DEF IInv, Types, Revision, Numbered, NextOrder
    <2>11. Numbered'
      BY <2>4, <2>5, <2>8, <2>10, <2>fields DEF IInv, Numbered, NextOrder
    <2>12. UniqueRevisions'
      BY <2>4, <2>7, <2>fields DEF IInv, UniqueRevisions
    <2>13. /\ candidates'[c].status = "committed"
           /\ \A x \in Candidates : /\ candidates'[x].base = candidates[x].base
                                    /\ x /= c => candidates'[x] = candidates[x]
      BY <2>1, <2>4 DEF IInv, Types
    <2>14. Bases'
      BY <2>4, <2>13 DEF IInv, Bases, IsRevisionOf
    <2>15. CommittedHaveRevision'
      BY <2>4, <2>13, <2>fields DEF IInv, CommittedHaveRevision
    <2>16. Parents'
      <3>1. base.revision /= None =>
              \E q \in revisions : q.candidate = base.revision /\ q.memory = memory
        BY <2>1 DEF IInv, Bases, IsRevisionOf, NoBase
      <3> QED BY <2>4, <2>10, <2>fields, <3>1 DEF IInv, Parents
    <2>17. Heads'
      <3> SUFFICES ASSUME NEW m \in Candidates, RecordExists(m)'
                   PROVE  \E r \in revisions' :
                            /\ r.candidate = records'[m] /\ r.memory = m
                            /\ \A s \in revisions' : s.memory = m => s.order <= r.order
        BY DEF Heads
      <3>1. CASE m = memory
        <4>1. records'[m] = new.candidate /\ new.memory = m /\ new \in revisions'
          BY <2>1, <2>4, <2>fields, <3>1 DEF IInv, Types
        <4>2. \A s \in revisions' : s.order <= new.order
          BY <2>4, <2>5, <2>10, <2>fields
        <4> QED BY <4>1, <4>2
      <3>2. CASE m /= memory
        <4>1. records'[m] = records[m] /\ RecordExists(m)
          BY <2>1, <2>4, <3>2 DEF IInv, Types, RecordExists
        <4> QED BY <2>4, <2>fields, <3>2, <4>1 DEF IInv, Heads
      <3> QED BY <3>1, <3>2
    <2>18. Generations'
      <3> SUFFICES ASSUME NEW n \in Namespaces
                   PROVE  /\ {r.generation : r \in Own(n)'} = 1..generation'[n]
                          /\ Cardinality(Own(n)') = generation'[n]
        BY DEF Generations
      <3>1. /\ {r.generation : r \in Own(n)} = 1..generation[n]
            /\ Cardinality(Own(n)) = generation[n] /\ generation[n] \in Nat
        BY DEF IInv, Generations, Types
      <3>2. CASE n = namespace
        <4>1. Own(n)' = Own(n) \cup {new}
          BY <2>4, <2>fields, <3>2 DEF Own
        <4>2. IsFiniteSet(Own(n)) /\ new \notin Own(n)
          BY <2>7, FS_Subset DEF IInv, Types, Own
        <4>3. Cardinality(Own(n)') = generation[n] + 1
          BY <3>1, <4>1, <4>2, FS_AddElement
        <4>4. {r.generation : r \in Own(n)'} = (1..generation[n]) \cup {generation[n] + 1}
          BY <2>fields, <3>1, <3>2, <4>1
        <4>5. (1..generation[n]) \cup {generation[n] + 1} = 1..(generation[n] + 1)
          BY <3>1
        <4> QED BY <2>3, <3>2, <4>3, <4>4, <4>5
      <3>3. CASE n /= namespace
        <4>1. Own(n)' = Own(n)
          BY <2>4, <2>fields, <3>3 DEF Own
        <4>2. generation'[n] = generation[n]
          BY <2>1, <2>2, <3>3 DEF IInv, Types
        <4> QED BY <3>1, <4>1, <4>2
      <3> QED BY <3>2, <3>3
    <2>19. AllAdmitted'
      <3>1. SoundCall(call)
        BY <1>2 DEF IInv, SoundCalls
      <3>2. /\ Classify(Attr[c]) \notin {"reject", "quarantine"}
            /\ Classify(Attr[c]) = "require_review" =>
                  call.action = "require_review" /\ call.approval = "named"
        BY <1>1, <1>2, <3>1, CommitIsAdmitted DEF SoundCall, Call
      <3>3. Decision(call) \in decisions' /\ decisions \subseteq decisions'
        BY <2>4
      <3>4. /\ Decision(call).candidate = c /\ Decision(call).action = call.action
            /\ Decision(call).approval = call.approval
        BY DEF Decision
      <3> SUFFICES ASSUME NEW r \in revisions' PROVE Admitted(r)'
        BY DEF AllAdmitted
      <3>5. CASE r = new
        <4>1. r.candidate = c
          BY <2>fields, <3>5
        <4> QED BY <3>2, <3>3, <3>4, <4>1 DEF Admitted
      <3>6. CASE r \in revisions
        <4>1. Admitted(r)
          BY <3>6 DEF IInv, AllAdmitted
        <4> QED BY <3>3, <4>1 DEF Admitted
      <3> QED BY <2>4, <3>5, <3>6
    <2>20. BranchesOnlyFromOverlap'
      <3>1. \A r \in revisions : base.revision /= None /\ r.parent = base.revision
                                    => call.began <= r.order
        BY <1>1, <1>2 DEF IInv, RivalCalls, RivalsAreLater
      <3>2. \A r \in revisions : ~(new.order < r.order)
        BY <2>5, <2>10, <2>fields
      <3> QED BY <2>4, <2>5, <2>fields, <3>1, <3>2 DEF IInv, BranchesOnlyFromOverlap
    <2>21. \A q \in Callers : calls'[q] /= Idle =>
              /\ calls'[q] = calls[q] /\ calls[q] \in Call
              /\ calls[q].candidate \in Candidates
      BY <1>1 DEF IInv, Types, Call
    <2>22. SoundCalls'
      BY <2>5, <2>8, <2>13, <2>21 DEF IInv, SoundCalls, SoundCall, Stored, NextOrder, Call
    <2>23. RivalCalls'
      BY <2>4, <2>13, <2>21, <2>fields DEF IInv, RivalCalls, RivalsAreLater, SoundCalls, SoundCall
    <2> QED BY <2>9, <2>11, <2>12, <2>14, <2>15, <2>16, <2>17, <2>18, <2>19, <2>20, <2>22, <2>23
            DEF IInv
  <1> QED BY <1>3, <1>4

-----------------------------------------------------------------------------
LEMMA NextIInv == IInv /\ [Next]_vars => IInv'
  <1> SUFFICES ASSUME IInv, [Next]_vars PROVE IInv'
    OBVIOUS
  <1>1. ASSUME NEW c \in Candidates, AddCandidate(c) PROVE IInv'
    BY <1>1, AddCandidateIInv
  <1>2. ASSUME UNCHANGED <<candidates, records, revisions, generation, decisions, calls>>
        PROVE  IInv'
    <2>1. Ledger'
      BY <1>2, LedgerFrame DEF IInv, Ledger
    <2>2. (Types /\ SoundCalls /\ RivalCalls /\ Bases /\ CommittedHaveRevision)'
      BY <1>2 DEF IInv, Types, SoundCalls, RivalCalls, SoundCall, RivalsAreLater, Stored,
                  NextOrder, Bases, CommittedHaveRevision, IsRevisionOf
    <2> QED BY <2>1, <2>2 DEF IInv, Ledger
  <1>3. ASSUME NEW c \in Candidates, Lapse(c) PROVE IInv'
    BY <1>2, <1>3 DEF Lapse
  <1>4. ASSUME NEW p \in Callers, NEW c \in Candidates, NEW d \in DecisionInputs,
               ReadCandidate(p, c, d.action, d.approval)
        PROVE  IInv'
    BY <1>4, ReadCandidateIInv DEF DecisionInputs
  <1>5. ASSUME NEW p \in Callers, WriteStatus(p) PROVE IInv'
    BY <1>5, WriteStatusIInv
  <1>6. ASSUME NEW p \in Callers, ReadRecord(p) PROVE IInv'
    BY <1>6, ReadRecordIInv
  <1>7. ASSUME NEW p \in Callers, WriteCommit(p) PROVE IInv'
    BY <1>7, WriteCommitIInv
  <1>8. ASSUME NEW p \in Callers, CallFails(p) PROVE IInv'
    BY <1>8, CallEnds DEF CallFails
  <1>9. CASE UNCHANGED vars
    BY <1>2, <1>9 DEF vars
  <1> QED BY <1>1, <1>3, <1>4, <1>5, <1>6, <1>7, <1>8, <1>9 DEF Next

LEMMA Invariance == Spec => []IInv
  BY InitIInv, NextIInv, PTL DEF Spec

\* However the calls of apply_decision overlap, fail or are retried, the memory ledger stays
\* consistent: generations without a gap, at most one revision per candidate, a revision for
\* every committed candidate, and every record at its newest revision.
THEOREM LedgerStaysConsistent == Spec => []LedgerConsistent
  <1>1. IInv => LedgerConsistent
    BY DEF IInv, LedgerConsistent, Generations, Own, UniqueRevisions, CommittedHaveRevision,
           Heads
  <1> QED BY <1>1, Invariance, PTL

\* search returns nothing that _validate_decision should have kept out: what the policy
\* rejects or quarantines never, and what it wants reviewed only after a named approval.
THEOREM OnlyAdmittedIsEverFound == Spec => []OnlyAdmittedIsFound
  <1>1. IInv => OnlyAdmittedIsFound
    BY DEF IInv, OnlyAdmittedIsFound, AllAdmitted, Admitted, Search
  <1> QED BY <1>1, Invariance, PTL

\* The optimistic check of _commit_candidate on a base read before the transaction lets a
\* memory branch only between calls that overlap in time.
THEOREM BranchesNeedOverlap == Spec => []BranchesOnlyFromOverlap
  <1>1. IInv => BranchesOnlyFromOverlap
    BY DEF IInv
  <1> QED BY <1>1, Invariance, PTL
=============================================================================
