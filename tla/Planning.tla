------------------------------ MODULE Planning -----------------------------
(***************************************************************************)
(* A change before it is made: an intent (planning.rs) against the object  *)
(* that was read becomes a plan (plan.rs), with its preconditions, what it *)
(* will do beyond the fields it names, and how it can be verified.         *)
(*                                                                         *)
(* An object is what a plan and a verification tell apart.  A field is one *)
(* JSON pointer and its value a number, with 0 for a field that is not     *)
(* there; `rv` is the opaque resourceVersion the object was read at.       *)
(***************************************************************************)
EXTENDS Naturals, FiniteSets

Kinds == {"Deployment", "StatefulSet", "Pod", "Node", "ConfigMap", "Namespace",
          "PersistentVolumeClaim"}

(* "image" and "restarted" are pointers under /spec/template, "metadata"   *)
(* is a label or an annotation, "data" any other field.                    *)
TemplateFields == {"image", "restarted"}
SpecFields     == TemplateFields \cup {"replicas", "unschedulable", "data"}
Fields         == SpecFields \cup {"metadata"}

Value    == Nat
Unset    == 0
Managers == {"ono-sendai", "another"}

Content == [uid         : Nat,
            rv          : Nat,
            values      : [Fields -> Value],
            owners      : [Fields -> SUBSET Managers],
            generation  : Nat,
            observed    : Nat,        \* status.observedGeneration
            ready       : Nat,        \* the three replica counts of the status
            progressing : BOOLEAN,    \* the Progressing condition is True
            terminating : BOOLEAN,    \* a deletionTimestamp is set
            finalizers  : BOOLEAN]

-----------------------------------------------------------------------------
(* Intents and actions.                                                    *)

(* What an invocation asks for: a verb, and the value of each field it     *)
(* names (`Unset` for one it asks to give up).                             *)
Intent(verb, wanted) == [verb |-> verb, wanted |-> wanted, propagation |-> "background"]

DeleteIntent(propagation) ==
  [verb |-> "delete", wanted |-> [f \in {} |-> Unset], propagation |-> propagation]

IsDestructive(action) == action.verb = "delete"
IsLowLevel(action)    == action.verb = "apply"

Against(object, f, wanted) == [path |-> f, from |-> object.values[f], to |-> wanted]

(* An absent field is not removed; a restart is marked with the version it *)
(* was planned against.                                                    *)
ChangesOf(intent, object) ==
  IF intent.verb = "restart_rollout"
  THEN {Against(object, "restarted", object.rv)}
  ELSE {Against(object, f, intent.wanted[f]) :
          f \in {g \in DOMAIN intent.wanted :
                   intent.wanted[g] # Unset \/ object.values[g] # Unset}}

(* A restart and an image need a pod template on the object.               *)
HasTemplate(object) == object.values["image"] # Unset

Expressible(intent, object) ==
  intent.verb \in {"restart_rollout", "set_image"} => HasTemplate(object)

ActionOf(intent, object) ==
  [verb        |-> intent.verb,
   changes     |-> ChangesOf(intent, object),
   propagation |-> intent.propagation]

-----------------------------------------------------------------------------
(* What a kind is.                                                         *)

ControllerBacked(kind) == kind \in {"Deployment", "StatefulSet"}
RunsWorkload(kind)     == ControllerBacked(kind) \/ kind \in {"Pod", "Namespace"}
StorageBearing(kind)   == kind \in {"PersistentVolumeClaim", "Namespace", "StatefulSet"}
IsNamespace(kind)      == kind = "Namespace"

-----------------------------------------------------------------------------
(* Effects.                                                                *)

IsScaleDown(change) ==
  /\ change.path = "replicas"
  /\ change.from # Unset
  /\ change.to # Unset
  /\ change.to < change.from

ApplyEffects(action) ==
  {"configuration_changed"}
    \cup (IF action.verb = "cordon"   THEN {"scheduling_stopped"}  ELSE {})
    \cup (IF action.verb = "uncordon" THEN {"scheduling_restored"} ELSE {})
    \cup (IF action.verb = "restart_rollout"
             \/ \E change \in action.changes : change.path \in TemplateFields
          THEN {"pods_replaced", "traffic_disrupted"} ELSE {})
    \cup (IF \E change \in action.changes : IsScaleDown(change)
          THEN {"pods_stopped", "traffic_disrupted"} ELSE {})

DeleteEffects(kind, action) ==
  {"object_removed", "external_side_effects"}
    \cup (IF RunsWorkload(kind) THEN {"pods_stopped", "traffic_disrupted"} ELSE {})
    \cup (IF action.propagation = "orphan"
          THEN {"dependents_orphaned"} ELSE {"dependents_removed"})
    \cup (IF StorageBearing(kind) THEN {"persistent_data_at_risk"} ELSE {})

EffectsOf(kind, action) ==
  IF IsDestructive(action) THEN DeleteEffects(kind, action) ELSE ApplyEffects(action)

Reversibility(effect) ==
  CASE effect \in {"configuration_changed", "scheduling_stopped", "scheduling_restored"} ->
         "configuration_reapplicable"
    [] effect \in {"dependents_orphaned", "external_side_effects"} -> "unknown"
    [] OTHER -> "irreversible"

(* `recovery`: reapplying the fields restores configuration and no more.   *)
Restores(effects) ==
  {effect \in effects : Reversibility(effect) = "configuration_reapplicable"}

-----------------------------------------------------------------------------
(* Verification rules.                                                     *)

Rules == {"absence", "schedulability_observed", "metadata_observed", "rollout_observed",
          "controller_convergence", "field_observed"}

RuleFor(kind, action) ==
  CASE action.verb = "delete"                -> "absence"
    [] action.verb \in {"cordon", "uncordon"} -> "schedulability_observed"
    [] action.verb = "label"                 -> "metadata_observed"
    [] action.verb \in {"set_image", "restart_rollout"} /\ ControllerBacked(kind) ->
         "rollout_observed"
    [] action.verb \in {"scale", "apply"} /\ ControllerBacked(kind) ->
         "controller_convergence"
    [] OTHER -> "field_observed"

(* `established_stage`: how far the rule can prove a change.               *)
EstablishedStage(rule) ==
  CASE rule \in {"schedulability_observed", "metadata_observed", "field_observed"} ->
         "spec_observed"
    [] rule \in {"rollout_observed", "controller_convergence"} -> "status_converged"
    [] OTHER -> "none"

-----------------------------------------------------------------------------
(* The plan.                                                               *)

(* `Plan::build`: a low-level change that names no field is refused.       *)
Refuses(action) == IsLowLevel(action) /\ action.changes = {}

(* The preconditions are the identity and the version of what was read.    *)
PlanOf(kind, intent, object) ==
  LET action == ActionOf(intent, object)
  IN  [kind |-> kind, uid |-> object.uid, rv |-> object.rv, action |-> action,
       rule |-> RuleFor(kind, action)]

(* `staleness` of a plan against a later read of its target.               *)
Staleness(plan, object) ==
  CASE object.uid # plan.uid -> "target_replaced"
    [] object.rv # plan.rv   -> "changed"
    [] OTHER                 -> "fresh"

TouchesReplicas(action) == \E change \in action.changes : change.path = "replicas"

(* `from_review`: only what a review says outright is an answer.           *)
Preflight(review) ==
  CASE review.status = FALSE -> "not_answered"
    [] review.allowed        -> "allowed"
    [] review.denied         -> "denied"
    [] OTHER                 -> "not_answered"

Reviews == [status : BOOLEAN, allowed : BOOLEAN, denied : BOOLEAN]

(* `rebuild_caveats`: what a reader of the plan is warned of.  `inventory` *)
(* says what the reads around the target established: which writers are    *)
(* known to compete, and whether all of them could be asked.               *)
ApplyCaveats(action, object, inventory) ==
  {"admission_effects_not_previewed"}
    \cup (IF IsLowLevel(action) THEN {"low_level_change"} ELSE {})
    \cup (IF \E f \in Fields : object.owners[f] # {} THEN {"other_field_managers"} ELSE {})
    \cup (IF TouchesReplicas(action) /\ inventory.autoscaler
          THEN {"autoscaler_may_reconcile_replicas"} ELSE {})
    \cup (IF inventory.complete THEN {} ELSE {"competing_writer_evidence_incomplete"})

DeleteCaveats(kind, action, object, inventory) ==
  {"dependent_preview_incomplete"}
    \cup (IF object.finalizers THEN {"finalizers_must_be_removed"} ELSE {})
    \cup (IF action.propagation = "orphan" THEN {} ELSE {"dependent_order_not_guaranteed"})
    \cup (IF StorageBearing(kind) THEN {"storage_reclaim_not_promised"} ELSE {})
    \cup (IF IsNamespace(kind)
          THEN {"external_effects_may_outlive_the_namespace"}
                 \cup (IF inventory.complete THEN {} ELSE {"contained_inventory_incomplete"})
          ELSE {})

Caveats(plan, object, inventory, preflight) ==
  (IF IsDestructive(plan.action)
   THEN DeleteCaveats(plan.kind, plan.action, object, inventory)
   ELSE ApplyCaveats(plan.action, object, inventory))
    \cup (IF object.terminating THEN {"target_already_terminating"} ELSE {})
    \cup (CASE preflight = "allowed" -> {"permission_check_is_advisory"}
            [] preflight = "denied"  -> {"permission_denied_by_preflight"}
            [] OTHER                 -> {"permission_not_verified"})
=============================================================================
