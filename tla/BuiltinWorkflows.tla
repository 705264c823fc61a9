-------------------------- MODULE BuiltinWorkflows --------------------------
(***************************************************************************)
(* The workflow definitions shipped with the program, as data: what a run  *)
(* reads of an atomic workflow, and the steps of the composite ones.       *)
(***************************************************************************)

(* An atomic workflow: the role it runs as, the roles it may reuse, whether *)
(* it writes code, what it needs, what it yields, and its own worker mode.  *)
Atomic(role, allowed, mutates, requires, produces, worker) ==
  [role |-> role, allowed |-> allowed, mutates |-> mutates, requires |-> requires,
   produces |-> produces, worker |-> worker]

PlanFeature == Atomic("planner", {"planner"}, FALSE, {}, {"implementation_contract", "goal"}, "auto")
ImplementApprovedPlan ==
  Atomic("implementer", {"implementer"}, TRUE, {"implementation_contract"}, {}, "auto")
FullVerify == Atomic("verifier", {"verifier"}, FALSE, {"goal"}, {"verification"}, "fresh")
SmokeTest == Atomic("verifier", {"verifier"}, FALSE, {"goal"}, {"smoke_verification"}, "fresh")
VerifyChecks == Atomic("verifier", {"verifier"}, FALSE, {}, {"verification"}, "fresh")
IndependentReview == Atomic("reviewer", {"reviewer"}, FALSE, {}, {"review"}, "fresh")
AddressReviewComments ==
  Atomic("implementer", {"implementer", "review_comments"}, TRUE, {}, {"comment_resolutions"}, "existing")
FinalizeChange == Atomic("implementer", {"implementer", "general"}, FALSE, {}, {}, "existing")
InvestigateIssue ==
  Atomic("investigator", {"investigator", "question", "general"}, FALSE, {}, {"goal", "findings"}, "fresh")
ImplementFix == Atomic("implementer", {"implementer"}, TRUE, {"findings"}, {}, "auto")
RebaseStack == Atomic("implementer", {"implementer", "rebase"}, TRUE, {}, {}, "existing")

Definition ==
  [plan_feature |-> PlanFeature, implement_approved_plan |-> ImplementApprovedPlan,
   full_verify |-> FullVerify, smoke_test |-> SmokeTest, verify_checks |-> VerifyChecks,
   independent_review |-> IndependentReview, address_review_comments |-> AddressReviewComments,
   finalize_change |-> FinalizeChange, investigate_issue |-> InvestigateIssue,
   implement_fix |-> ImplementFix, rebase_stack |-> RebaseStack]

(* A composite step with every field at its default, and the exceptions. *)
Step(workflow) ==
  [workflow |-> workflow, when |-> "always", approval |-> "none", worker |-> "auto", max |-> 1]
Fresh(step) == [step EXCEPT !.worker = "fresh"]
When(step, condition) == [step EXCEPT !.when = condition]
Approved(step, approval) == [step EXCEPT !.approval = approval]
AtMost(step, n) == [step EXCEPT !.max = n]

CompleteTicket == <<
  Approved(Step("plan_feature"), "required"),
  Step("implement_approved_plan"),
  Fresh(Step("full_verify")),
  Fresh(Step("independent_review")),
  AtMost(When(Step("address_review_comments"), "blocking-findings"), 2),
  Fresh(When(Step("full_verify"), "code-changed")),
  Fresh(When(Step("independent_review"), "code-changed")),
  Step("finalize_change")>>

DiagnoseAndFix == <<
  Fresh(Step("investigate_issue")),
  Fresh(Step("implement_fix")),
  Fresh(Step("full_verify")),
  Fresh(Step("independent_review")),
  AtMost(When(Step("implement_fix"), "blocking-findings"), 2),
  Fresh(When(Step("full_verify"), "code-changed")),
  Step("finalize_change")>>

LightweightFeature == <<
  Approved(Step("plan_feature"), "only-if-decisions"),
  Step("implement_approved_plan"),
  Fresh(Step("smoke_test")),
  Step("finalize_change")>>

Rebase == <<Step("rebase_stack"), Fresh(Step("verify_checks"))>>

ReviewOnly == <<Fresh(Step("independent_review"))>>
=============================================================================
