------------------------------- MODULE Target -------------------------------
(***************************************************************************)
(* The object a change is aimed at, as the API server and everybody else   *)
(* in the cluster treat it.  None of it is in the repository: it is what   *)
(* mutation.rs relies on when it sends an apply patch or a delete with     *)
(* preconditions, and what condition.rs relies on when it reads a status.  *)
(*                                                                         *)
(* versions[v] is the object at resourceVersion v, or None; every version  *)
(* is one change of it.  The server may have forgotten any of them but the *)
(* last when a watch is to open from it.                                   *)
(***************************************************************************)
EXTENDS Verifying

CONSTANTS
  None,
  Autoscaled,     \* whether an autoscaler may name the target
  Finalized,      \* whether it may have a finalizer
  Theirs,         \* the fields the other managers go on writing
  MaxVersion      \* bound on the versions of a behaviour

ASSUME TargetAssumption ==
  /\ {Autoscaled, Finalized} \subseteq SUBSET BOOLEAN
  /\ Theirs \subseteq Fields
  /\ MaxVersion \in Nat \ {0}

(* `None` is not an object.                                                *)
ASSUME ContentAssumption == None \notin Content

VARIABLES
  kind,        \* what the target is
  versions,    \* the object at each version
  autoscaler   \* whether an autoscaler names the target

target == << kind, versions, autoscaler >>

Now     == Len(versions)
Current == versions[Now]

TargetTypeOK ==
  /\ kind \in Kinds
  /\ versions \in Seq(Content \cup {None})
  /\ autoscaler \in BOOLEAN

(* An object nobody but its creator has written, and whose controller has  *)
(* caught up with it.                                                      *)
Created(k, values, v) ==
  [uid |-> v, rv |-> v,
   values |-> values,
   owners |-> [f \in Fields |-> IF values[f] = Unset THEN {} ELSE {"another"}],
   generation |-> 1, observed |-> 1,
   ready |-> values["replicas"], progressing |-> TRUE,
   terminating |-> FALSE, finalizers |-> FALSE]

NewValues(k) ==
  [f \in Fields |-> CASE f = "replicas" /\ ControllerBacked(k) -> 2
                      [] f = "image" /\ ControllerBacked(k)    -> 1
                      [] f = "data" /\ k = "ConfigMap"         -> 1
                      [] OTHER -> Unset]

(* What the target may be, and whose fields: `ours` is what an earlier     *)
(* apply of this package took for its own.                                 *)
TargetInit(kinds, ours) ==
  /\ kind \in kinds
  /\ autoscaler \in (IF kind = "Deployment" THEN Autoscaled ELSE {FALSE})
  /\ \E finalizers \in Finalized, mine \in SUBSET ours :
       versions = << [Created(kind, NewValues(kind), 1) EXCEPT
                        !.finalizers = finalizers,
                        !.owners = [f \in Fields |->
                          IF f \in mine /\ @[f] # {} THEN {"ono-sendai"} ELSE @[f]]] >>

-----------------------------------------------------------------------------
(* Requests.                                                               *)

(* Server-side apply: a field of the document is set and taken, and a      *)
(* field its manager alone held and now leaves out is given up.  A         *)
(* Deployment without replicas is given one.                               *)
GivenUp(object, document) ==
  {f \in Fields : object.owners[f] = {"ono-sendai"} /\ f \notin DOMAIN document}

Default(k, f) == IF f = "replicas" /\ ControllerBacked(k) THEN 1 ELSE Unset

AppliedValues(object, document) ==
  [f \in Fields |-> CASE f \in DOMAIN document -> document[f]
                      [] f \in GivenUp(object, document) -> Default(kind, f)
                      [] OTHER -> object.values[f]]

AppliedOwners(object, document) ==
  [f \in Fields |->
     IF f \in DOMAIN document
     THEN IF document[f] = object.values[f]
          THEN object.owners[f] \cup {"ono-sendai"} ELSE {"ono-sendai"}
     ELSE object.owners[f] \ {"ono-sendai"}]

WithValues(object, values, owners, v) ==
  [object EXCEPT
     !.rv = v, !.values = values, !.owners = owners,
     !.generation = @ + (IF \E f \in SpecFields : object.values[f] # values[f] THEN 1 ELSE 0)]

(* An apply that changes nothing writes nothing.                           *)
Applied(object, document, v) ==
  LET values == AppliedValues(object, document)
      owners == AppliedOwners(object, document)
  IN  IF values = object.values /\ owners = object.owners
      THEN object
      ELSE WithValues(object, values, owners, v)

Conflicts(object, document) ==
  \E f \in DOMAIN document :
    object.values[f] # document[f] /\ "another" \in object.owners[f]

Terminated(object, propagation, v) ==
  IF object.terminating
  THEN object
  ELSE IF object.finalizers \/ propagation = "foreground"
       THEN [object EXCEPT !.rv = v, !.terminating = TRUE, !.finalizers = TRUE]
       ELSE None

Answer(code, cause) == [code |-> code, cause |-> cause, terminating |-> FALSE]

(* The fields objects of a kind have.                                      *)
FieldsOf(k) ==
  {"metadata"} \cup (CASE ControllerBacked(k) -> TemplateFields \cup {"replicas"}
                       [] k = "Pod"           -> {"image"}
                       [] k = "Node"          -> {"unschedulable"}
                       [] OTHER               -> {"data"})

(* The server's checks, in its order.                                      *)
AnswerTo(request) ==
  IF ~ DOMAIN request.document \subseteq FieldsOf(kind) THEN Answer(400, "not_a_field")
  ELSE IF Current = None
       THEN IF request.deletes THEN Answer(404, "not_found") ELSE Answer(409, "no_such_object")
  ELSE IF request.uid \notin {Unset, Current.uid} THEN Answer(409, "uid")
  ELSE IF request.rv \notin {Unset, Current.rv} THEN Answer(409, "modified")
  ELSE IF ~ request.deletes /\ ~ request.force /\ Conflicts(Current, request.document)
       THEN Answer(409, "field_manager_conflict")
  ELSE [Answer(200, "none") EXCEPT
          !.terminating = /\ request.deletes
                          /\ Terminated(Current, request.propagation, Now) # None]

Result(request) ==
  IF request.deletes
  THEN Terminated(Current, request.propagation, Now + 1)
  ELSE Applied(Current, request.document, Now + 1)

(* What serving the request does to the target.                            *)
Serves(request) ==
  /\ UNCHANGED << kind, autoscaler >>
  /\ IF \/ AnswerTo(request).code # 200
        \/ request.dry_run
        \/ Result(request) = Current
     THEN UNCHANGED versions
     ELSE /\ Now < MaxVersion
          /\ versions' = Append(versions, Result(request))

-----------------------------------------------------------------------------
(* Everybody else.                                                         *)

Becomes(object) ==
  /\ Now < MaxVersion
  /\ versions' = Append(versions, object)
  /\ UNCHANGED << kind, autoscaler >>

(* The controller records the generation it saw, the pods it has, and      *)
(* whether the rollout still progresses.                                   *)
Reconcile ==
  /\ HasGeneration(kind)
  /\ Current # None
  /\ \E ready \in {0, Current.values["replicas"]}, progressing \in BOOLEAN :
       LET next == [Current EXCEPT !.observed = Current.generation,
                                   !.ready = ready, !.progressing = progressing]
       IN  next # Current /\ Becomes([next EXCEPT !.rv = Now + 1])

(* Another manager writes a field of its own.                              *)
WriteOfAnother ==
  /\ Current # None
  /\ \E f \in Theirs, value \in 1..2 :
       /\ "another" \in Current.owners[f]
       /\ Current.values[f] # value
       /\ f = "replicas" => ~ autoscaler
       /\ Becomes(WithValues(Current, [Current.values EXCEPT ![f] = value],
                             [Current.owners EXCEPT ![f] = {"another"}], Now + 1))

(* The autoscaler takes the replica count back.                            *)
Autoscale ==
  /\ autoscaler
  /\ Current # None
  /\ Current.values["replicas"] # 2
  /\ Becomes(WithValues(Current, [Current.values EXCEPT !["replicas"] = 2],
                        [Current.owners EXCEPT !["replicas"] = {"another"}], Now + 1))

(* The object goes when its finalizers do, or when somebody deletes it.    *)
Finalize ==
  /\ Current # None
  /\ Current.terminating
  /\ Becomes(None)

DeleteOfAnother ==
  /\ Current # None
  /\ ~ Current.terminating
  /\ Becomes(Terminated(Current, "background", Now + 1))

(* It is created again under its name, as new or from what it was before.  *)
Recreate ==
  /\ Current = None
  /\ \E values \in {NewValues(kind), versions[Now - 1].values} :
       Becomes(Created(kind, values, Now + 1))

TargetNext ==
  \/ Reconcile \/ WriteOfAnother \/ Autoscale
  \/ Finalize \/ DeleteOfAnother \/ Recreate
=============================================================================
