------------------------- MODULE MCMemoryRepository -------------------------
(* An owner's statement, two revisions of it that may be proposed and decided *)
(* at the same time, one of which needs a review and comes from another       *)
(* namespace, and a viewer's remark.                                         *)
EXTENDS MemoryRepository, TLC

CallerSymmetry == Permutations(Callers)

Statement == [kind |-> "semantic_fact", trust |-> "owner_stated", sensitivity |-> "public",
              contradicts |-> FALSE, consented |-> TRUE, confident |-> TRUE]

MCCandidates == {"c1", "c2", "c3", "c4"}
MCAttr == [c \in MCCandidates |->
    CASE c = "c3" -> [Statement EXCEPT !.trust = "model_inference"]
      [] c = "c4" -> [Statement EXCEPT !.trust = "public_viewer"]
      [] OTHER -> Statement]
MCNamespaceOf == [c \in MCCandidates |-> IF c = "c3" THEN "n2" ELSE "n1"]
MCScopeOf == [c \in MCCandidates |-> "owner"]
MCVisibilityOf == [c \in MCCandidates |-> IF c = "c2" THEN "owner_only" ELSE "stream_safe"]

Strictness(action) ==
    CASE action = "auto_commit" -> 0
      [] action = "require_review" -> 1
      [] action = "quarantine" -> 2
      [] action = "reject" -> 3

\* The policy never gets looser when a candidate gets worse in one respect: contradicted,
\* not consented, not confident, more sensitive, or from an untrusted source.
ASSUME PolicyIsMonotone ==
    \A a \in Attributes :
        \A b \in {[a EXCEPT !.contradicts = TRUE], [a EXCEPT !.consented = FALSE],
                  [a EXCEPT !.confident = FALSE], [a EXCEPT !.sensitivity = "restricted"],
                  [a EXCEPT !.trust = "public_viewer"]} :
            Strictness(Classify(b)) >= Strictness(Classify(a))
=============================================================================
