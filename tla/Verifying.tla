------------------------------ MODULE Verifying ----------------------------
(***************************************************************************)
(* What an answer to a change amounts to, and what a later look at the     *)
(* target proves (mutation.rs), over the reconciliation rules of           *)
(* condition.rs.  Every operator is a function of a plan and of one        *)
(* observation; when each is asked is module Mutating's matter.            *)
(***************************************************************************)
EXTENDS Planning, Sequences

-----------------------------------------------------------------------------
(* Requests.  An apply sends only the fields of its plan that it sets: a   *)
(* field that is to be removed is left out, as is every other field.       *)

Document(action) ==
  LET set == {change \in action.changes : change.to # Unset}
  IN  [f \in {change.path : change \in set} |->
         (CHOOSE change \in set : change.path = f).to]

RequestUnguarded(plan, how) ==
  [uid |-> Unset, rv |-> Unset, document |-> Document(plan.action),
   propagation |-> plan.action.propagation,
   deletes |-> IsDestructive(plan.action), dry_run |-> how.dry_run, force |-> how.force]

(* `apply_request` and `delete_request`: the preconditions of the plan     *)
(* travel with either.                                                     *)
Request(plan, how) ==
  [uid |-> plan.uid, rv |-> plan.rv, document |-> Document(plan.action),
   propagation |-> plan.action.propagation,
   deletes |-> IsDestructive(plan.action), dry_run |-> how.dry_run, force |-> how.force]

-----------------------------------------------------------------------------
(* Answers.                                                                *)

Acceptances == {"persisted", "dry_run", "conflict", "precondition_failed", "refused"}

(* `refusal`: a 409 is read for a conflict over fields first, and then for *)
(* a precondition.                                                         *)
Refusal(answer) ==
  CASE answer.code = 409 /\ answer.cause = "field_manager_conflict" -> "conflict"
    [] answer.code = 409 /\ answer.cause \in {"uid", "modified"}    -> "precondition_failed"
    [] OTHER -> "refused"

(* `MutationOutcome::read`.                                                *)
Acceptance(answer, dry_run) ==
  IF answer.code \in 200..299
  THEN IF dry_run THEN "dry_run" ELSE "persisted"
  ELSE Refusal(answer)

RequiresVerification(acceptance) == acceptance = "persisted"

-----------------------------------------------------------------------------
(* Reconciliation.                                                         *)

Stages == {"none", "spec_observed", "generation_observed", "status_converged"}

(* Only a kind whose objects carry a generation leaves evidence of it.     *)
HasGeneration(kind) == ControllerBacked(kind)

DeploymentState(object) ==
  IF ~ object.progressing
  THEN "failed"
  ELSE IF object.values["replicas"] # Unset /\ object.ready = object.values["replicas"]
       THEN "converged"
       ELSE "observed_convergence_pending"

Reconciliation(kind, object) ==
  CASE ~ HasGeneration(kind) -> "unknown_insufficient_evidence"
    [] HasGeneration(kind) /\ object.observed < object.generation ->
         "desired_changed_not_observed"
    [] kind = "Deployment" /\ object.observed >= object.generation -> DeploymentState(object)
    [] OTHER -> "observed_convergence_pending"

Reached(state) ==
  CASE state = "desired_changed_not_observed" -> "spec_observed"
    [] state \in {"observed_convergence_pending", "failed"} -> "generation_observed"
    [] state = "converged" -> "status_converged"
    [] OTHER -> "none"

-----------------------------------------------------------------------------
(* Verification.                                                           *)

Verdicts == {"confirmed", "refuted", "pending", "inconclusive"}

UnfinishedReasons == {"generation_not_observed", "conditions_inconclusive", "window_expired",
                      "watch_gap", "partial_coverage", "watch_unavailable", "target_gone"}

Verification == [verdict : Verdicts,
                 reached : Stages,
                 reason  : UnfinishedReasons \cup {"none"}]

Verified(verdict, reached) == [verdict |-> verdict, reached |-> reached, reason |-> "none"]

Inconclusive == Verified("inconclusive", "none")

(* `window_ended`.                                                         *)
WindowEnded(reached) ==
  CASE reached = "none"          -> "window_expired"
    [] reached = "spec_observed" -> "generation_not_observed"
    [] OTHER                     -> "conditions_inconclusive"

(* `unfinished`: a watch that could not go on, at the last evidence.       *)
UnfinishedAt(reason, last) ==
  [verdict |-> "inconclusive", reached |-> last.reached, reason |-> reason]

(* `waiting`: pending until the deadline.                                  *)
Waiting(reached, expired) ==
  IF expired
  THEN [verdict |-> "inconclusive", reached |-> reached, reason |-> WindowEnded(reached)]
  ELSE Verified("pending", reached)

Decided(verification) == verification.verdict \in {"confirmed", "refuted"}

(* The requested fields are on the object.                                 *)
Met(plan, object) ==
  \A change \in plan.action.changes : object.values[change.path] = change.to

(* A mutated form of the next: any lifetime of the name is the target.     *)
OfObjectOfTheName(plan, object, expired) ==
  CASE plan.rule = "absence" -> Waiting("none", expired)
    [] plan.rule # "absence" /\ ~ Met(plan, object) -> Waiting("none", expired)
    [] plan.rule = "field_observed" /\ Met(plan, object) ->
         Verified("confirmed", "spec_observed")
    [] OTHER -> LET state == Reconciliation(plan.kind, object)
                IN  CASE state = "converged" -> Verified("confirmed", Reached(state))
                      [] state = "failed"    -> Verified("refuted", Reached(state))
                      [] OTHER               -> Waiting(Reached(state), expired)

(* `of_object`.  Whatever rule is not about a field alone is decided by    *)
(* the controller's status.                                                *)
OfObject(plan, object, expired) ==
  CASE object.uid # plan.uid /\ plan.rule = "absence" -> Verified("confirmed", "none")
    [] object.uid # plan.uid /\ plan.rule # "absence" -> Inconclusive
    [] object.uid = plan.uid /\ plan.rule = "absence" -> Waiting("none", expired)
    [] object.uid = plan.uid /\ plan.rule # "absence" /\ ~ Met(plan, object) ->
         Waiting("none", expired)
    [] object.uid = plan.uid /\ plan.rule = "field_observed" /\ Met(plan, object) ->
         Verified("confirmed", "spec_observed")
    [] OTHER -> LET state == Reconciliation(plan.kind, object)
                IN  CASE state = "converged" -> Verified("confirmed", Reached(state))
                      [] state = "failed"    -> Verified("refuted", Reached(state))
                      [] OTHER               -> Waiting(Reached(state), expired)

(* `of`: only a read that found nothing proves an absence.                 *)
OfLook(plan, look, expired) ==
  CASE look.is = "object"       -> OfObject(plan, look.object, expired)
    [] look.is = "absent" /\ plan.rule = "absence" -> Verified("confirmed", "none")
    [] OTHER -> Inconclusive

(* `watchable`: an absence is read and not watched for.                    *)
Watchable(rule) == rule # "absence"

-----------------------------------------------------------------------------
(* Deletion.                                                               *)

DeletionRead(answer) == IF answer.terminating THEN "terminating" ELSE "accepted"

(* `observe` and `observe_absence`.                                        *)
DeletionObserved(state, look) ==
  CASE look.is = "object" /\ look.object.terminating -> "terminating"
    [] look.is = "absent" -> "absent"
    [] OTHER -> state
=============================================================================
