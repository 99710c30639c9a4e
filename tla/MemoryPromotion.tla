--------------------------- MODULE MemoryPromotion ---------------------------
(* PromotionPolicy (memory/promotion.py): what the admission policy makes of *)
(* a memory candidate, and the decisions the repository lets override it.    *)
(* Text, subject and evidence are left out: no decision reads them.          *)

Kinds == {"canon", "persona", "user_profile", "viewer_profile", "relationship",
          "semantic_fact", "episode", "active_task", "procedural_skill", "policy", "security"}
Trusts == {"owner_authored", "owner_stated", "trusted_operator", "authenticated_user",
           "tool_observation", "model_inference", "public_viewer", "unverified_import"}
Sensitivities == {"public", "internal", "private", "restricted"}
Visibilities == {"stream_safe", "trusted_context", "private_session", "owner_only"}
PromotionActions == {"auto_commit", "require_review", "quarantine", "reject"}

\* What an approver gave: nothing, a blank name, or a name.
Approvals == {"none", "blank", "named"}

\* The part of a MemoryCandidate the policy reads; confident: at least auto_commit_confidence.
Attributes ==
    [kind : Kinds, trust : Trusts, sensitivity : Sensitivities,
     contradicts : BOOLEAN, consented : BOOLEAN, confident : BOOLEAN]

NotPersonalMemory == {"policy", "security", "procedural_skill"}
AutoKinds == {"user_profile", "relationship", "semantic_fact", "episode", "active_task"}
AutoTrusts == {"owner_authored", "owner_stated", "trusted_operator"}

ReviewReasons(a) ==
    \/ a.kind \in {"canon", "persona"}
    \/ a.sensitivity \in {"private", "restricted"}
    \/ a.contradicts
    \/ a.trust = "model_inference"
    \/ ~a.consented
    \/ ~a.confident

\* PromotionPolicy.decide
Classify(a) ==
    CASE a.kind \in NotPersonalMemory -> "reject"
      [] a.kind \notin NotPersonalMemory /\ a.trust \in {"public_viewer", "unverified_import"}
            -> "quarantine"
      [] OTHER -> IF ReviewReasons(a) \/ a.kind \notin AutoKinds \/ a.trust \notin AutoTrusts
                  THEN "require_review" ELSE "auto_commit"

\* Seeded fault: the review that the baseline asks for can be skipped.
ValidDecisionUnreviewed(a, action, approval) ==
    /\ Classify(a) \in {"reject", "quarantine"} => action = Classify(a)
    /\ ~(action = "require_review" /\ approval = "blank")

\* _validate_decision: a decision may be stricter than the baseline, or a review with an
\* approver, and never looser; what the baseline rejects or quarantines stays so.
ValidDecision(a, action, approval) ==
    /\ Classify(a) \in {"reject", "quarantine"} => action = Classify(a)
    /\ Classify(a) = "require_review" => action /= "auto_commit"
    /\ ~(action = "require_review" /\ approval = "blank")

\* _non_commit_status: the status a decision leaves, or "committed".
StatusAfter(action, approval) ==
    CASE action = "reject" -> "rejected"
      [] action = "quarantine" -> "quarantined"
      [] action = "require_review" /\ approval = "none" -> "review_required"
      [] OTHER -> "committed"
=============================================================================
