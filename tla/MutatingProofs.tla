--------------------------- MODULE MutatingProofs --------------------------
(***************************************************************************)
(* That a change does what its plan foretold, and that a verdict on it is  *)
(* true, whatever is asked for and of what, however many invocations ask,  *)
(* and whoever else writes the target at any moment.                       *)
(***************************************************************************)
EXTENDS Mutating, TLAPS

-----------------------------------------------------------------------------
(* The inductive invariant.                                                *)

(* The versions of the target: each carries its number, and a lifetime     *)
(* ends before another begins.                                             *)
VersionsAreNumbered == \A v \in 1..Now : versions[v] # None => versions[v].rv = v

LifetimesEnd ==
  \A u, v \in 1..Now :
    /\ u < v
    /\ versions[u] # None /\ versions[v] # None
    /\ versions[u].uid # versions[v].uid
    => \E w \in u..v : versions[w] = None

(* An object that is gone was there.                                       *)
NoneIsGone == \A v \in 1..Now : versions[v] = None => v > 1 /\ versions[v - 1] # None

TargetInv == TargetTypeOK /\ Now >= 1 /\ VersionsAreNumbered /\ LifetimesEnd /\ NoneIsGone

(* An invocation that is under way, or has written, has a plan.            *)
HasPlan(c) == call[c].pc \notin {"idle", "done"} \/ Persisted(c)

PlanStands(c) == HasPlan(c) =>
  /\ call[c].planned \in 1..Now /\ Before(c) # None
  /\ call[c].intent \in Intents
  /\ call[c].inventory \in Inventories(Plan(c).action)

(* What was written was written over the version that was planned on.      *)
WriteStands(c) == Persisted(c) =>
  /\ call[c].written \in {call[c].planned, call[c].planned + 1}
  /\ call[c].written <= Now
  /\ Plan(c).rule # "absence" =>
       \/ After(c) = Before(c)
       \/ After(c).values = AppliedValues(Before(c), Document(Plan(c).action))

(* What an invocation knows, by where it is.                               *)
PlaceStands(c) ==
  /\ At(c, "idle") => call[c] = NoCall
  /\ call[c].pc \in {"preflight", "sending"} => call[c].outcome = "none" /\ call[c].last = None
  /\ call[c].deletion # "none" => Persisted(c)
  /\ At(c, "looking") => Persisted(c)
  /\ Verifies(c) =>
       /\ Persisted(c) /\ Plan(c).rule # "absence"
       /\ call[c].last \in Verification /\ ~ Decided(call[c].last)
       /\ call[c].from \in call[c].written..Now
  /\ At(c, "watching") => call[c].at \in call[c].written..Now

(* What VerdictIsOfTheWrite and AbsenceIsTheEnd say of one invocation.     *)
ConfirmedBy(c, object) ==
  /\ Met(Plan(c), object)
  /\ EstablishedStage(Plan(c).rule) = "status_converged" => IsConverged(object)

RefutedBy(c, object) == Met(Plan(c), object) /\ HasFailed(object)

VerdictStands(c) ==
  Persisted(c) /\ Plan(c).rule # "absence" /\ Sound(c) =>
    /\ Says(c, "confirmed") => \E v \in Since(c) : ConfirmedBy(c, versions[v])
    /\ Says(c, "refuted")   => \E v \in Since(c) : RefutedBy(c, versions[v])

SaysItEnded(c) ==
  \/ call[c].deletion = "absent"
  \/ Persisted(c) /\ Plan(c).rule = "absence" /\ Says(c, "confirmed")
  \/ Persisted(c) /\ Sound(c) /\ call[c].last # None /\ call[c].last.reason = "target_gone"

EndStands(c) == SaysItEnded(c) => \E v \in call[c].planned..Now : versions[v] = None

CallInv(c) ==
  /\ PlanStands(c) /\ WriteStands(c) /\ PlaceStands(c)
  /\ VerdictStands(c) /\ EndStands(c)

(* A stream has the fields of one, and a synchronised one holds the target *)
(* as it was at the checkpoint.                                            *)
IsStream(s) ==
  s = [state |-> s.state, checkpoint |-> s.checkpoint, objects |-> s.objects,
       segments |-> s.segments, gaps |-> s.gaps, trim_gap |-> s.trim_gap,
       pending_writes |-> s.pending_writes, staging |-> s.staging]

ObjectAt(v) == IF versions[v] = None THEN None ELSE [uid |-> versions[v].uid, rv |-> v]

StreamStands(s) ==
  /\ IsStream(s)
  /\ s.staging = None
  /\ Session!HasSynced(s) =>
       s.checkpoint \in 1..Now /\ s.objects = [n \in {Name} |-> ObjectAt(s.checkpoint)]

SlotStands ==
  slot # None =>
    slot = [stream |-> slot.stream, index |-> slot.index] /\ StreamStands(slot.stream)

(* What the cache answers to an invocation that verifies is of the write   *)
(* or later: the checkpoint has passed it, or the target is quarantined    *)
(* until the next event, which is the write or later.                      *)
PastTheWrite(c, s) ==
  Session!HasSynced(s) =>
    \/ s.checkpoint >= call[c].written
    \/ s.checkpoint >= call[c].planned /\ Name \in s.pending_writes

AnswersAfter(c) ==
  Verifies(c) /\ ~ call[c].lagged /\ slot # None => PastTheWrite(c, slot.stream)

MInv ==
  /\ TargetInv
  /\ call \in [Callers -> Call]
  /\ \A c \in Callers : CallInv(c)
  /\ SlotStands
  /\ \A c \in Callers : AnswersAfter(c)

-----------------------------------------------------------------------------
(* What is asked for, and what the plan makes of it.                       *)

USE DEF Unset

(* The fields there are, each by its name.                                 *)
LEMMA FieldNames ==
  /\ Fields = {"image", "restarted", "replicas", "unschedulable", "data", "metadata"}
  /\ TemplateFields = {"image", "restarted"}
BY DEF Fields, SpecFields, TemplateFields

(* Each change of an action is of a field, from what the object has to     *)
(* what is asked for.                                                      *)
LEMMA ChangesAreOfFields ==
  ASSUME NEW intent \in Intents, NEW object \in Content,
         NEW change \in ActionOf(intent, object).changes
  PROVE  /\ change.path \in Fields
         /\ change.from = object.values[change.path]
         /\ change.to \in Value
<1>1. change \in ChangesOf(intent, object)
  BY DEF ActionOf
<1>2. object.rv \in Value /\ object.values \in [Fields -> Value]
  BY DEF Content, Value
<1>3. CASE intent.verb = "restart_rollout"
  <2>1. change = Against(object, "restarted", object.rv)
    BY <1>1, <1>3 DEF ChangesOf
  <2> QED
    BY <1>2, <2>1, FieldNames DEF Against
<1>4. CASE intent.verb # "restart_rollout"
  <2>1. PICK f \in DOMAIN intent.wanted : change = Against(object, f, intent.wanted[f])
    BY <1>1, <1>4 DEF ChangesOf
  <2>2. f \in Fields /\ intent.wanted[f] \in Value
    BY MutatingAssumption
  <2> QED
    BY <2>1, <2>2 DEF Against
<1> QED
  BY <1>3, <1>4

(* A field of the document is one that a change of the action sets.        *)
LEMMA DocumentIsSet ==
  ASSUME NEW action, NEW f \in DOMAIN Document(action)
  PROVE  \E change \in action.changes :
           change.path = f /\ change.to = Document(action)[f] /\ change.to # 0
<1> DEFINE set == {change \in action.changes : change.to # 0}
<1>1. Document(action) = [g \in {change.path : change \in set} |->
                            (CHOOSE change \in set : change.path = g).to]
  BY DEF Document
<1>2. PICK change \in set : change.path = f
  BY <1>1
<1> DEFINE chosen == CHOOSE x \in set : x.path = f
<1>3. chosen \in set /\ chosen.path = f
  BY <1>2
<1>4. Document(action)[f] = chosen.to
  BY <1>1
<1>5. chosen \in action.changes /\ chosen.to # 0
  BY <1>3
<1> HIDE DEF chosen
<1> QED
  BY <1>3, <1>4, <1>5

(* A document sets fields of an object to values.                          *)
LEMMA DocumentType ==
  ASSUME NEW intent \in Intents, NEW object \in Content
  PROVE  LET document == Document(ActionOf(intent, object))
         IN  \A f \in DOMAIN document : f \in Fields /\ document[f] \in Value
<1> DEFINE action == ActionOf(intent, object)
<1> SUFFICES ASSUME NEW f \in DOMAIN Document(action)
             PROVE  f \in Fields /\ Document(action)[f] \in Value
  OBVIOUS
<1>1. PICK change \in action.changes : change.path = f /\ change.to = Document(action)[f]
  BY DocumentIsSet
<1>2. change.path \in Fields /\ change.to \in Value
  BY ChangesAreOfFields
<1> HIDE DEF action
<1> QED
  BY <1>1, <1>2

(* A plan expects what was read, and only a deletion waits for an absence. *)
LEMMA PlanFacts ==
  ASSUME NEW k, NEW intent, NEW object
  PROVE  LET plan == PlanOf(k, intent, object)
         IN  /\ plan.kind = k /\ plan.uid = object.uid /\ plan.rv = object.rv
             /\ plan.action = ActionOf(intent, object)
             /\ plan.rule = RuleFor(k, plan.action)
             /\ plan.rule = "absence" <=> IsDestructive(plan.action)
<1> DEFINE action == ActionOf(intent, object)
<1>1. PlanOf(k, intent, object) =
        [kind |-> k, uid |-> object.uid, rv |-> object.rv, action |-> action,
         rule |-> RuleFor(k, action)]
  BY DEF PlanOf
<1> HIDE DEF action
<1>2. RuleFor(k, action) = "absence" <=> action.verb = "delete"
  BY DEF RuleFor
<1> QED
  BY <1>1, <1>2 DEF IsDestructive, action

-----------------------------------------------------------------------------
(* The target.                                                             *)

(* What every step leaves as it was: the kind, the autoscaler, and every   *)
(* version there has been.                                                 *)
Grows ==
  /\ kind' = kind /\ autoscaler' = autoscaler
  /\ Now \in Nat /\ Now' \in Nat /\ Now <= Now'
  /\ \A v \in 1..Now : versions'[v] = versions[v]

(* Nothing is written.                                                     *)
LEMMA TargetStands == TargetInv /\ UNCHANGED target => TargetInv' /\ Grows
BY DEF target, TargetInv, TargetTypeOK, VersionsAreNumbered, LifetimesEnd, NoneIsGone, Now, Grows

Appends(object) == versions' = Append(versions, object) /\ UNCHANGED << kind, autoscaler >>

(* A version is written that carries its number, and that is of the same   *)
(* lifetime as the one before it.                                          *)
LEMMA TargetAppends ==
  ASSUME TargetInv, NEW object \in Content \cup {None},
         object # None => object.rv = Now + 1,
         object # None /\ Current # None => object.uid = Current.uid,
         object = None => Current # None, Appends(object)
  PROVE  TargetInv' /\ Grows
<1>1. /\ versions \in Seq(Content \cup {None}) /\ Now \in Nat /\ Now >= 1
      /\ kind \in Kinds /\ autoscaler \in BOOLEAN
  BY DEF TargetInv, TargetTypeOK, Now
<1>2. /\ versions' \in Seq(Content \cup {None}) /\ Now' = Now + 1
      /\ \A v \in 1..Now : versions'[v] = versions[v]
      /\ versions'[Now + 1] = object
      /\ kind' = kind /\ autoscaler' = autoscaler
  BY <1>1 DEF Now, Appends
<1>3. Grows
  BY <1>1, <1>2 DEF Grows
<1>4. TargetTypeOK' /\ Now' >= 1
  BY <1>1, <1>2 DEF TargetTypeOK
<1>5. VersionsAreNumbered'
  <2>1. \A v \in 1..Now : versions[v] # None => versions[v].rv = v
    BY DEF TargetInv, VersionsAreNumbered
  <2> SUFFICES ASSUME NEW v \in 1..(Now + 1), versions'[v] # None
               PROVE  versions'[v].rv = v
    BY <1>2 DEF VersionsAreNumbered
  <2>2. CASE v = Now + 1
    BY <1>2, <2>2
  <2>3. CASE v # Now + 1
    BY <1>1, <1>2, <2>1, <2>3
  <2> QED
    BY <2>2, <2>3
<1>6. LifetimesEnd'
  <2>1. \A u, v \in 1..Now :
          /\ u < v
          /\ versions[u] # None /\ versions[v] # None
          /\ versions[u].uid # versions[v].uid
          => \E w \in u..v : versions[w] = None
    BY DEF TargetInv, LifetimesEnd
  <2> SUFFICES ASSUME NEW u \in 1..(Now + 1), NEW v \in 1..(Now + 1), u < v,
                      versions'[u] # None, versions'[v] # None,
                      versions'[u].uid # versions'[v].uid
               PROVE  \E w \in u..v : versions'[w] = None
    BY <1>2 DEF LifetimesEnd
  <2>2. u \in 1..Now /\ versions'[u] = versions[u]
    BY <1>1, <1>2
  <2>3. CASE v # Now + 1
    <3>1. v \in 1..Now /\ versions'[v] = versions[v]
      BY <1>1, <1>2, <2>3
    <3>2. PICK w \in u..v : versions[w] = None
      BY <2>1, <2>2, <3>1
    <3>3. w \in 1..Now
      BY <1>1, <2>2, <3>1, <3>2
    <3> QED
      BY <1>2, <3>2, <3>3
  <2>4. CASE v = Now + 1
    <3>1. versions'[v] = object
      BY <1>2, <2>4
    <3>2. CASE Current = None
      <4>1. Now \in u..v /\ versions'[Now] = versions[Now]
        BY <1>1, <1>2, <2>2, <2>4
      <4> QED
        BY <3>2, <4>1 DEF Current
    <3>3. CASE Current # None
      <4>1. versions[Now] # None /\ versions[Now].uid = object.uid
        BY <3>1, <3>3 DEF Current
      <4>2. versions[u].uid # versions[Now].uid /\ u # Now
        BY <2>2, <3>1, <4>1
      <4>3. u < Now /\ Now \in 1..Now
        BY <1>1, <2>2, <4>2
      <4>4. versions[u] # None
        BY <2>2
      <4>5. PICK w \in u..Now : versions[w] = None
        BY <2>1, <2>2, <4>1, <4>2, <4>3, <4>4
      <4>6. w \in u..v /\ w \in 1..Now
        BY <1>1, <2>2, <2>4, <4>5
      <4> QED
        BY <1>2, <4>5, <4>6
    <3> QED
      BY <3>2, <3>3
  <2> QED
    BY <2>3, <2>4
<1>7. NoneIsGone'
  <2>1. \A v \in 1..Now : versions[v] = None => v > 1 /\ versions[v - 1] # None
    BY DEF TargetInv, NoneIsGone
  <2> SUFFICES ASSUME NEW v \in 1..(Now + 1), versions'[v] = None
               PROVE  v > 1 /\ versions'[v - 1] # None
    BY <1>2 DEF NoneIsGone
  <2>2. CASE v = Now + 1
    <3>1. versions[Now] # None
      BY <1>2, <2>2 DEF Current
    <3>2. v > 1 /\ v - 1 = Now /\ Now \in 1..Now
      BY <1>1, <2>2
    <3> QED
      BY <1>2, <3>1, <3>2
  <2>3. CASE v # Now + 1
    <3>1. v \in 1..Now
      BY <1>1, <2>3
    <3>2. v > 1 /\ versions[v - 1] # None
      BY <1>2, <2>1, <3>1
    <3>3. v - 1 \in 1..Now
      BY <1>1, <3>1, <3>2
    <3> QED
      BY <1>2, <3>2, <3>3
  <2> QED
    BY <2>2, <2>3
<1> QED
  BY <1>3, <1>4, <1>5, <1>6, <1>7 DEF TargetInv

(* The object there is.                                                    *)
LEMMA CurrentIs ==
  ASSUME TargetInv, Current # None
  PROVE  Current \in Content /\ Current.rv = Now
<1>1. Now \in 1..Now /\ versions[Now] \in Content \cup {None}
  BY DEF TargetInv, TargetTypeOK, Now
<1>2. versions[Now] # None => versions[Now].rv = Now
  BY <1>1 DEF TargetInv, VersionsAreNumbered
<1> QED
  BY <1>1, <1>2 DEF Current

(* An object with other fields is an object of the same lifetime.          *)
LEMMA WithValuesType ==
  ASSUME NEW object \in Content, NEW values \in [Fields -> Value],
         NEW owners \in [Fields -> SUBSET Managers], NEW v \in Nat
  PROVE  LET next == WithValues(object, values, owners, v)
         IN  /\ next \in Content
             /\ next.rv = v /\ next.uid = object.uid /\ next.values = values
<1> DEFINE step == IF \E f \in SpecFields : object.values[f] # values[f] THEN 1 ELSE 0
<1>1. step \in Nat
  OBVIOUS
<1> DEFINE generation == object.generation + step
<1>2. WithValues(object, values, owners, v) =
        [object EXCEPT !.rv = v, !.values = values, !.owners = owners,
                       !.generation = generation]
  BY DEF WithValues
<1>3. generation \in Nat
  BY <1>1 DEF Content
<1> HIDE DEF step, generation
<1> QED
  BY <1>2, <1>3 DEF Content

(* A created object has the fields of its kind, and its creator's name.    *)
LEMMA CreatedType ==
  ASSUME NEW k \in Kinds, NEW values \in [Fields -> Value], NEW v \in Nat
  PROVE  Created(k, values, v) \in Content /\ Created(k, values, v).rv = v
<1>1. values["replicas"] \in Nat
  BY FieldNames DEF Value
<1>2. [f \in Fields |-> IF values[f] = 0 THEN {} ELSE {"another"}]
        \in [Fields -> SUBSET Managers]
  BY DEF Managers
<1> QED
  BY <1>1, <1>2 DEF Created, Content

(* A new object has a value for each field.                                *)
LEMMA NewValuesType == ASSUME NEW k \in Kinds PROVE NewValues(k) \in [Fields -> Value]
BY DEF NewValues, Value

(* Everybody else writes a version of the target, or takes it away.        *)
LEMMA TargetSteps == TargetInv /\ TargetNext => TargetInv' /\ Grows
<1> SUFFICES ASSUME TargetInv, TargetNext PROVE TargetInv' /\ Grows
  OBVIOUS
<1>1. Now \in Nat /\ Now + 1 \in Nat /\ kind \in Kinds /\ versions \in Seq(Content \cup {None})
  BY DEF TargetInv, TargetTypeOK, Now
<1>2. Current # None => Current \in Content
  BY CurrentIs
<1>3. CASE Reconcile
  <2>1. PICK ready \in {0, Current.values["replicas"]}, progressing \in BOOLEAN :
          Becomes([[Current EXCEPT !.observed = Current.generation, !.ready = ready,
                                   !.progressing = progressing] EXCEPT !.rv = Now + 1])
    BY <1>3 DEF Reconcile
  <2> DEFINE next == [[Current EXCEPT !.observed = Current.generation, !.ready = ready,
                                      !.progressing = progressing] EXCEPT !.rv = Now + 1]
  <2>2. Current \in Content
    BY <1>2, <1>3 DEF Reconcile
  <2>3. ready \in Nat
    BY <2>2, FieldNames DEF Content, Value
  <2>4. next \in Content /\ next.rv = Now + 1 /\ next.uid = Current.uid
    BY <1>1, <2>2, <2>3 DEF Content
  <2> HIDE DEF next
  <2>5. Appends(next)
    BY <2>1 DEF Becomes, Appends, next
  <2> QED
    BY <2>4, <2>5, ContentAssumption, TargetAppends
<1>4. ASSUME NEW values \in [Fields -> Value], NEW owners \in [Fields -> SUBSET Managers],
             Current # None, Becomes(WithValues(Current, values, owners, Now + 1))
      PROVE  TargetInv' /\ Grows
  <2> DEFINE next == WithValues(Current, values, owners, Now + 1)
  <2>1. next \in Content /\ next.rv = Now + 1 /\ next.uid = Current.uid
    BY <1>1, <1>2, <1>4, WithValuesType
  <2> HIDE DEF next
  <2>2. Appends(next)
    BY <1>4 DEF Becomes, Appends, next
  <2> QED
    BY <2>1, <2>2, ContentAssumption, TargetAppends
<1>5. CASE WriteOfAnother
  <2>1. Current # None
    BY <1>5 DEF WriteOfAnother
  <2>2. PICK f \in Theirs, value \in 1..2 :
          Becomes(WithValues(Current, [Current.values EXCEPT ![f] = value],
                             [Current.owners EXCEPT ![f] = {"another"}], Now + 1))
    BY <1>5 DEF WriteOfAnother
  <2>3. [Current.values EXCEPT ![f] = value] \in [Fields -> Value]
    <3>1. value \in Value /\ Current.values \in [Fields -> Value]
      BY <1>2, <2>1 DEF Content, Value
    <3> QED
      BY <3>1
  <2>4. [Current.owners EXCEPT ![f] = {"another"}] \in [Fields -> SUBSET Managers]
    BY <1>2, <2>1 DEF Content, Managers
  <2> QED
    BY <1>4, <2>1, <2>2, <2>3, <2>4
<1>6. CASE Autoscale
  <2>1. /\ Current # None
        /\ Becomes(WithValues(Current, [Current.values EXCEPT !["replicas"] = 2],
                              [Current.owners EXCEPT !["replicas"] = {"another"}], Now + 1))
    BY <1>6 DEF Autoscale
  <2>2. [Current.values EXCEPT !["replicas"] = 2] \in [Fields -> Value]
    BY <1>2, <2>1 DEF Content, Value
  <2>3. [Current.owners EXCEPT !["replicas"] = {"another"}] \in [Fields -> SUBSET Managers]
    BY <1>2, <2>1 DEF Content, Managers
  <2> QED
    BY <1>4, <2>1, <2>2, <2>3
<1>7. CASE Finalize
  <2>1. Appends(None)
    BY <1>7 DEF Finalize, Becomes, Appends
  <2>2. Current # None
    BY <1>7 DEF Finalize
  <2> QED
    BY <2>1, <2>2, TargetAppends
<1>8. CASE DeleteOfAnother
  <2> DEFINE next == Terminated(Current, "background", Now + 1)
  <2>1. Current \in Content /\ ~ Current.terminating
    BY <1>2, <1>8 DEF DeleteOfAnother
  <2>2. \/ next = None
        \/ next = [Current EXCEPT !.rv = Now + 1, !.terminating = TRUE, !.finalizers = TRUE]
    BY <2>1 DEF Terminated
  <2>3. /\ next \in Content \cup {None}
        /\ next # None => next.rv = Now + 1 /\ next.uid = Current.uid
    BY <1>1, <2>1, <2>2 DEF Content
  <2> HIDE DEF next
  <2>4. Appends(next)
    BY <1>8 DEF DeleteOfAnother, Becomes, Appends, next
  <2> QED
    BY <2>1, <2>3, <2>4, ContentAssumption, TargetAppends
<1>9. CASE Recreate
  <2>1. Current = None
    BY <1>9 DEF Recreate
  <2>2. PICK values \in {NewValues(kind), versions[Now - 1].values} :
          Becomes(Created(kind, values, Now + 1))
    BY <1>9 DEF Recreate
  <2>3. values \in [Fields -> Value]
    <3>1. Now \in 1..Now /\ versions[Now] = None
      BY <2>1 DEF TargetInv, TargetTypeOK, Now, Current
    <3>2. Now > 1 /\ versions[Now - 1] # None
      BY <3>1 DEF TargetInv, NoneIsGone
    <3>3. Now - 1 \in 1..Len(versions)
      BY <1>1, <3>2 DEF Now
    <3>4. versions[Now - 1] \in Content
      BY <1>1, <3>2, <3>3
    <3> QED
      BY <1>1, <2>2, <3>4, NewValuesType DEF Content
  <2> DEFINE next == Created(kind, values, Now + 1)
  <2>4. next \in Content /\ next.rv = Now + 1
    BY <1>1, <2>3, CreatedType
  <2> HIDE DEF next
  <2>5. Appends(next)
    BY <2>2 DEF Becomes, Appends, next
  <2> QED
    BY <2>1, <2>4, <2>5, ContentAssumption, TargetAppends
<1> QED
  BY <1>3, <1>5, <1>6, <1>7, <1>8, <1>9 DEF TargetNext

-----------------------------------------------------------------------------
(* What a request makes of the target.                                     *)

IsDocument(document) == \A f \in DOMAIN document : f \in Fields /\ document[f] \in Value

(* An apply leaves the object as it was, or gives it its next version and  *)
(* the fields of the document.                                             *)
LEMMA AppliedType ==
  ASSUME NEW object \in Content, NEW document, IsDocument(document), NEW v \in Nat
  PROVE  LET next == Applied(object, document, v)
         IN  \/ next = object
             \/ /\ next \in Content /\ next.rv = v /\ next.uid = object.uid
                /\ next.values = AppliedValues(object, document)
<1> DEFINE values == AppliedValues(object, document)
           owners == AppliedOwners(object, document)
<1>1. object.values \in [Fields -> Value] /\ object.owners \in [Fields -> SUBSET Managers]
  BY DEF Content
<1>2. values \in [Fields -> Value]
  <2>1. ASSUME NEW f \in Fields
        PROVE  (CASE f \in DOMAIN document -> document[f]
                  [] f \in GivenUp(object, document) -> Default(kind, f)
                  [] OTHER -> object.values[f]) \in Value
    <3>1. CASE f \in DOMAIN document
      <4>1. f \notin GivenUp(object, document)
        BY <3>1 DEF GivenUp
      <4> QED
        BY <3>1, <4>1 DEF IsDocument
    <3>2. CASE f \notin DOMAIN document /\ f \in GivenUp(object, document)
      BY <3>2 DEF Default, Value
    <3>3. CASE f \notin DOMAIN document /\ f \notin GivenUp(object, document)
      BY <1>1, <3>3
    <3> QED
      BY <3>1, <3>2, <3>3
  <2> QED
    BY <2>1 DEF AppliedValues
<1>3. owners \in [Fields -> SUBSET Managers]
  BY <1>1 DEF AppliedOwners, Managers
<1>4. Applied(object, document, v) =
        IF values = object.values /\ owners = object.owners
        THEN object ELSE WithValues(object, values, owners, v)
  BY DEF Applied
<1> HIDE DEF values, owners
<1> DEFINE next == WithValues(object, values, owners, v)
<1>5. next \in Content /\ next.rv = v /\ next.uid = object.uid /\ next.values = values
  BY <1>2, <1>3, WithValuesType
<1> HIDE DEF next
<1> QED
  BY <1>4, <1>5 DEF next, values

(* A deletion takes the object away, marks it, or finds it marked.         *)
LEMMA TerminatedType ==
  ASSUME NEW object \in Content, NEW propagation, NEW v \in Nat
  PROVE  LET next == Terminated(object, propagation, v)
         IN  \/ next = object
             \/ next = None
             \/ next \in Content /\ next.rv = v /\ next.uid = object.uid
<1> DEFINE marked == [object EXCEPT !.rv = v, !.terminating = TRUE, !.finalizers = TRUE]
<1>1. marked \in Content /\ marked.rv = v /\ marked.uid = object.uid
  BY DEF Content
<1>2. Terminated(object, propagation, v) \in {object, None, marked}
  BY DEF Terminated
<1> HIDE DEF marked
<1> QED
  BY <1>1, <1>2

(* A request is granted of an object that is there, and whose identity and *)
(* version are those it expects.                                           *)
LEMMA GrantedOf ==
  ASSUME NEW request, AnswerTo(request).code = 200
  PROVE  /\ Current # None
         /\ request.uid \in {0, Current.uid}
         /\ request.rv \in {0, Current.rv}
BY DEF AnswerTo, Answer

(* The request of a plan, whatever it was made on: the versions go on, by  *)
(* one at most, and the next is what the request asks for.                 *)
LEMMA ServesGrows ==
  ASSUME TargetInv, NEW request, IsDocument(request.document), Serves(request)
  PROVE  /\ TargetInv' /\ Grows
         /\ \/ UNCHANGED versions
            \/ /\ AnswerTo(request).code = 200 /\ ~ request.dry_run
               /\ Now' = Now + 1 /\ versions'[Now + 1] = Result(request)
<1> DEFINE written == Result(request)
<1>1. Now \in Nat /\ Now + 1 \in Nat /\ versions \in Seq(Content \cup {None})
  BY DEF TargetInv, TargetTypeOK, Now
<1>2. CASE UNCHANGED versions
  <2>1. UNCHANGED target
    BY <1>2 DEF Serves, target
  <2> QED
    BY <1>2, <2>1, TargetStands
<1>3. CASE ~ UNCHANGED versions
  <2>1. /\ AnswerTo(request).code = 200 /\ ~ request.dry_run /\ Result(request) # Current
        /\ Appends(written)
    BY <1>3 DEF Serves, Appends
  <2>2. Current # None /\ Current \in Content
    BY <2>1, CurrentIs, GrantedOf
  <2>3. \/ written = None
        \/ written \in Content /\ written.rv = Now + 1 /\ written.uid = Current.uid
    <3>1. CASE request.deletes
      BY <1>1, <2>1, <2>2, <3>1, TerminatedType DEF Result
    <3>2. CASE ~ request.deletes
      BY <1>1, <2>1, <2>2, <3>2, AppliedType DEF Result
    <3> QED
      BY <3>1, <3>2
  <2>4. Now' = Now + 1 /\ versions'[Now + 1] = written
    BY <1>1, <2>1 DEF Appends, Now
  <2> HIDE DEF written
  <2>5. TargetInv' /\ Grows
    BY <2>1, <2>2, <2>3, TargetAppends
  <2> QED
    BY <2>1, <2>4, <2>5 DEF written
<1> QED
  BY <1>2, <1>3

(* What an answer is taken for.                                            *)
LEMMA PersistedMeansGranted ==
  ASSUME NEW request, NEW dry_run \in BOOLEAN,
         Acceptance(AnswerTo(request), dry_run) = "persisted"
  PROVE  AnswerTo(request).code = 200 /\ ~ dry_run
<1>1. AnswerTo(request).code \in {200, 400, 404, 409}
  BY DEF AnswerTo, Answer
<1>2. AnswerTo(request).code \in 200..299
  BY DEF Acceptance, Refusal
<1>3. ~ dry_run
  BY <1>2 DEF Acceptance
<1> HIDE DEF AnswerTo
<1> QED
  BY <1>1, <1>2, <1>3

-----------------------------------------------------------------------------
(* What an observation proves.                                             *)

(* A status that is taken for convergence, or for failure, is one.         *)
LEMMA ReconciliationProves ==
  ASSUME NEW k, NEW object \in Content
  PROVE  LET state == Reconciliation(k, object)
         IN  /\ Reached(state) \in Stages
             /\ state = "converged" => IsConverged(object)
             /\ state = "failed" => HasFailed(object)
<1>1. object.observed \in Nat /\ object.generation \in Nat /\ object.progressing \in BOOLEAN
  BY DEF Content
<1>2. Reached(Reconciliation(k, object)) \in Stages
  BY DEF Reached, Stages
<1>3. CASE HasGeneration(k) /\ k = "Deployment" /\ object.observed >= object.generation
  <2>1. ~ (object.observed < object.generation)
    BY <1>1, <1>3
  <2>2. Reconciliation(k, object) = DeploymentState(object)
    BY <1>3, <2>1 DEF Reconciliation
  <2> QED
    BY <1>1, <1>2, <1>3, <2>2 DEF DeploymentState, IsConverged, HasFailed
<1>4. CASE ~ (HasGeneration(k) /\ k = "Deployment" /\ object.observed >= object.generation)
  <2>1. Reconciliation(k, object) \notin {"converged", "failed"}
    BY <1>4 DEF Reconciliation, HasGeneration, ControllerBacked
  <2> QED
    BY <1>2, <2>1
<1> QED
  BY <1>3, <1>4

(* A plan that waits for no absence is confirmed, or refuted, only by its  *)
(* own object, with its fields on it; one that does is confirmed only by   *)
(* an object of another lifetime.                                          *)
LEMMA OfObjectProves ==
  ASSUME NEW plan, plan.rule \in Rules, NEW object \in Content, NEW expired \in BOOLEAN
  PROVE  LET seen == OfObject(plan, object, expired)
         IN  /\ seen \in Verification /\ seen.reason # "target_gone"
             /\ seen.verdict = "confirmed" /\ plan.rule = "absence" =>
                  object.uid # plan.uid
             /\ seen.verdict = "pending" => ~ expired
             /\ seen.verdict = "confirmed" /\ plan.rule # "absence" =>
                  /\ object.uid = plan.uid /\ Met(plan, object)
                  /\ EstablishedStage(plan.rule) = "status_converged" => IsConverged(object)
             /\ seen.verdict = "refuted" /\ plan.rule # "absence" =>
                  object.uid = plan.uid /\ Met(plan, object) /\ HasFailed(object)
<1> DEFINE seen  == OfObject(plan, object, expired)
           state == Reconciliation(plan.kind, object)
<1>1. \A reached \in Stages :
        /\ Waiting(reached, expired) \in Verification
        /\ Waiting(reached, expired).reason # "target_gone"
        /\ Waiting(reached, expired).verdict \in {"pending", "inconclusive"}
        /\ Waiting(reached, expired).verdict = "pending" => ~ expired
  BY DEF Waiting, Verified, WindowEnded, Verification, Verdicts, UnfinishedReasons, Stages
<1>2. \A verdict \in Verdicts, reached \in Stages :
        /\ Verified(verdict, reached) \in Verification
        /\ Verified(verdict, reached).reason = "none"
        /\ Verified(verdict, reached).verdict = verdict
  BY DEF Verified, Verification
<1>3. {"none", "spec_observed"} \subseteq Stages
      /\ {"confirmed", "refuted", "inconclusive"} \subseteq Verdicts
  BY DEF Stages, Verdicts
<1>4. CASE object.uid # plan.uid /\ plan.rule = "absence"
  <2>1. seen = Verified("confirmed", "none")
    BY <1>4 DEF OfObject
  <2> QED
    BY <1>2, <1>3, <1>4, <2>1
<1>5. CASE object.uid # plan.uid /\ plan.rule # "absence"
  <2>1. seen = Verified("inconclusive", "none")
    BY <1>5 DEF OfObject, Inconclusive
  <2> QED
    BY <1>2, <1>3, <1>5, <2>1
<1>6. CASE object.uid = plan.uid /\ (plan.rule = "absence" \/ ~ Met(plan, object))
  <2>1. seen = Waiting("none", expired)
    BY <1>6 DEF OfObject
  <2> QED
    BY <1>1, <1>3, <1>6, <2>1
<1>7. CASE object.uid = plan.uid /\ plan.rule = "field_observed" /\ Met(plan, object)
  <2>1. seen = Verified("confirmed", "spec_observed")
    BY <1>7 DEF OfObject
  <2>2. EstablishedStage(plan.rule) # "status_converged"
    BY <1>7 DEF EstablishedStage
  <2> QED
    BY <1>2, <1>3, <1>7, <2>1, <2>2
<1>8. CASE /\ object.uid = plan.uid /\ Met(plan, object)
           /\ plan.rule \notin {"absence", "field_observed"}
  <2>1. seen = CASE state = "converged" -> Verified("confirmed", Reached(state))
                 [] state = "failed"    -> Verified("refuted", Reached(state))
                 [] OTHER               -> Waiting(Reached(state), expired)
    BY <1>8 DEF OfObject
  <2>2. /\ Reached(state) \in Stages
        /\ state = "converged" => IsConverged(object)
        /\ state = "failed" => HasFailed(object)
    BY ReconciliationProves
  <2> HIDE DEF seen, state
  <2>3. CASE state = "converged"
    BY <1>2, <1>3, <1>8, <2>1, <2>2, <2>3 DEF seen
  <2>4. CASE state = "failed"
    BY <1>2, <1>3, <1>8, <2>1, <2>2, <2>4 DEF seen
  <2>5. CASE state \notin {"converged", "failed"}
    <3>1. seen = Waiting(Reached(state), expired)
      BY <2>1, <2>5
    <3>2. /\ seen \in Verification /\ seen.reason # "target_gone"
          /\ seen.verdict \in {"pending", "inconclusive"}
          /\ seen.verdict = "pending" => ~ expired
      BY <1>1, <2>2, <3>1
    <3> QED
      BY <3>2 DEF seen
  <2> QED
    BY <2>3, <2>4, <2>5
<1> QED
  BY <1>4, <1>5, <1>6, <1>7, <1>8

(* Every change has a rule it is verified by.                              *)
LEMMA RuleIsARule == ASSUME NEW k, NEW action PROVE RuleFor(k, action) \in Rules
BY DEF RuleFor, Rules

-----------------------------------------------------------------------------
(* What an invocation knows, as the versions of its target go on.          *)

SamePlan(c) ==
  call'[c].intent = call[c].intent /\ call'[c].planned = call[c].planned

(* A plan is a function of what was read, which stays.                     *)
LEMMA PlanLater ==
  ASSUME Grows, NEW c, SamePlan(c), call[c].planned \in 1..Now
  PROVE  Plan(c)' = Plan(c) /\ Before(c)' = Before(c)
<1>1. kind' = kind /\ versions'[call[c].planned] = versions[call[c].planned]
  BY DEF Grows
<1> QED
  BY <1>1 DEF SamePlan, Plan, Before

(* An invocation that has a plan keeps it.                                 *)
LEMMA PlanKept ==
  ASSUME Grows, NEW c, PlanStands(c), HasPlan(c), SamePlan(c),
         call'[c].inventory = call[c].inventory
  PROVE  PlanStands(c)'
<1>1. /\ call[c].planned \in 1..Now /\ Before(c) # None /\ call[c].intent \in Intents
      /\ call[c].inventory \in Inventories(Plan(c).action)
  BY DEF PlanStands
<1>2. Plan(c)' = Plan(c) /\ Before(c)' = Before(c)
  BY <1>1, PlanLater
<1>3. Inventories(Plan(c).action)' = Inventories(Plan(c).action)
  BY <1>2 DEF Grows, Inventories
<1>4. call'[c].planned \in 1..Now'
  BY <1>1 DEF SamePlan, Grows
<1> QED
  BY <1>1, <1>2, <1>3, <1>4 DEF PlanStands, SamePlan

(* What was written over what stays true.                                  *)
LEMMA WriteKept ==
  ASSUME Grows, NEW c, PlanStands(c), WriteStands(c), Persisted(c), SamePlan(c),
         call[c].planned \in Nat, call'[c].written = call[c].written
  PROVE  WriteStands(c)'
<1>1. call[c].planned \in 1..Now
  BY DEF PlanStands, HasPlan
<1>2. Plan(c)' = Plan(c) /\ Before(c)' = Before(c)
  BY <1>1, PlanLater
<1>3. /\ call[c].written \in {call[c].planned, call[c].planned + 1}
      /\ call[c].written <= Now
      /\ Plan(c).rule # "absence" =>
           \/ After(c) = Before(c)
           \/ After(c).values = AppliedValues(Before(c), Document(Plan(c).action))
  BY DEF WriteStands
<1>4. call[c].written \in 1..Now
  BY <1>1, <1>3 DEF Grows
<1>5. After(c)' = After(c)
  BY <1>4 DEF Grows, After
<1>6. AppliedValues(Before(c), Document(Plan(c).action))' =
        AppliedValues(Before(c), Document(Plan(c).action))
  BY <1>2 DEF Grows, AppliedValues, GivenUp
<1>7. call[c].written <= Now'
  BY <1>4 DEF Grows
<1> QED
  BY <1>2, <1>3, <1>5, <1>6, <1>7 DEF WriteStands, SamePlan

(* A version that was evidence remains so.                                 *)
LEMMA EvidenceLater ==
  ASSUME Grows, NEW c, SamePlan(c), call[c].planned \in 1..Now,
         call'[c].written = call[c].written, call[c].written \in 1..Now,
         NEW v \in Since(c)
  PROVE  /\ v \in Since(c)' /\ versions'[v] = versions[v]
         /\ ConfirmedBy(c, versions[v]) => ConfirmedBy(c, versions[v])'
         /\ RefutedBy(c, versions[v]) => RefutedBy(c, versions[v])'
<1>1. Plan(c)' = Plan(c)
  BY PlanLater
<1>2. v \in call[c].written..Now /\ versions[v] # None /\ versions[v].uid = Plan(c).uid
  BY DEF Since
<1>3. v \in 1..Now /\ v \in call[c].written..Now'
  BY <1>2 DEF Grows
<1>4. versions'[v] = versions[v]
  BY <1>3 DEF Grows
<1> QED
  BY <1>1, <1>2, <1>3, <1>4 DEF Since, ConfirmedBy, RefutedBy

(* What was said to be confirmed, or refuted, stays so.                    *)
LEMMA VerdictKept ==
  ASSUME Grows, NEW c, PlanStands(c), WriteStands(c), VerdictStands(c), SamePlan(c),
         Persisted(c), call[c].planned \in Nat, call'[c].written = call[c].written,
         call'[c].last = call[c].last, call'[c].lagged = call[c].lagged,
         call'[c].source = call[c].source
  PROVE  VerdictStands(c)'
<1>1. call[c].planned \in 1..Now
  BY DEF PlanStands, HasPlan
<1>2. call[c].written \in 1..Now
  BY <1>1 DEF WriteStands, Grows
<1>3. Plan(c)' = Plan(c)
  BY <1>1, PlanLater
<1>4. SUFFICES ASSUME Plan(c).rule # "absence", Sound(c)
               PROVE  /\ Says(c, "confirmed") => \E v \in Since(c)' : ConfirmedBy(c, versions[v])'
                      /\ Says(c, "refuted") => \E v \in Since(c)' : RefutedBy(c, versions[v])'
  BY <1>3 DEF VerdictStands, Sound, Says
<1>5. ASSUME Says(c, "confirmed")
      PROVE  \E v \in Since(c)' : ConfirmedBy(c, versions[v])'
  <2>1. PICK v \in Since(c) : ConfirmedBy(c, versions[v])
    BY <1>4, <1>5 DEF VerdictStands
  <2> QED
    BY <1>1, <1>2, <2>1, EvidenceLater
<1>6. ASSUME Says(c, "refuted")
      PROVE  \E v \in Since(c)' : RefutedBy(c, versions[v])'
  <2>1. PICK v \in Since(c) : RefutedBy(c, versions[v])
    BY <1>4, <1>6 DEF VerdictStands
  <2> QED
    BY <1>1, <1>2, <2>1, EvidenceLater
<1> QED
  BY <1>5, <1>6

(* What was said to have ended stays so.                                   *)
LEMMA EndKept ==
  ASSUME Grows, NEW c, PlanStands(c), EndStands(c), SamePlan(c), Persisted(c),
         call'[c].outcome = call[c].outcome, call'[c].deletion = call[c].deletion,
         call'[c].last = call[c].last, call'[c].lagged = call[c].lagged,
         call'[c].source = call[c].source
  PROVE  EndStands(c)'
<1>1. call[c].planned \in 1..Now
  BY DEF PlanStands, HasPlan
<1>2. Plan(c)' = Plan(c)
  BY <1>1, PlanLater
<1>3. SaysItEnded(c)' <=> SaysItEnded(c)
  BY <1>2 DEF SaysItEnded, Persisted, Says, Sound
<1>4. SUFFICES ASSUME SaysItEnded(c)
               PROVE  \E v \in call[c].planned..Now' : versions'[v] = None
  BY <1>3 DEF EndStands, SamePlan
<1>5. PICK v \in call[c].planned..Now : versions[v] = None
  BY <1>4 DEF EndStands
<1>6. v \in 1..Now /\ v \in call[c].planned..Now'
  BY <1>1, <1>5 DEF Grows
<1> QED
  BY <1>5, <1>6 DEF Grows

(* An invocation that has written nothing says nothing of it.              *)
LEMMA NothingWritten ==
  ASSUME NEW c, call'[c].deletion = "none", call'[c].outcome # "persisted"
  PROVE  WriteStands(c)' /\ VerdictStands(c)' /\ EndStands(c)'
BY DEF WriteStands, VerdictStands, EndStands, SaysItEnded, Persisted

(* An invocation that does not move is right for as long as the target     *)
(* goes on.                                                                *)
LEMMA CallKept ==
  ASSUME Grows, call \in [Callers -> Call], NEW c \in Callers,
         call'[c] = call[c], CallInv(c)
  PROVE  CallInv(c)'
<1>1. call[c].planned \in Nat /\ SamePlan(c)
  BY DEF Call, SamePlan
<1>2. PlanStands(c)'
  <2>1. CASE HasPlan(c)
    BY <1>1, <2>1, PlanKept DEF CallInv
  <2>2. CASE ~ HasPlan(c)
    <3>1. ~ HasPlan(c)'
      BY <2>2 DEF HasPlan, Persisted
    <3> QED
      BY <3>1 DEF PlanStands
  <2> QED
    BY <2>1, <2>2
<1>3. CASE ~ Persisted(c)
  <2>1. call'[c].deletion = "none" /\ call'[c].outcome # "persisted"
    BY <1>3 DEF CallInv, PlaceStands, Persisted
  <2>2. WriteStands(c)' /\ VerdictStands(c)' /\ EndStands(c)'
    BY <2>1, NothingWritten
  <2>3. PlaceStands(c)'
    BY <1>3 DEF CallInv, PlaceStands, At, Verifies, Persisted
  <2> QED
    BY <1>2, <2>2, <2>3 DEF CallInv
<1>4. CASE Persisted(c)
  <2>1. WriteStands(c)' /\ VerdictStands(c)' /\ EndStands(c)'
    BY <1>1, <1>4, WriteKept, VerdictKept, EndKept DEF CallInv
  <2>2. call[c].planned \in 1..Now
    BY <1>4 DEF CallInv, PlanStands, HasPlan
  <2>3. Plan(c)' = Plan(c)
    BY <1>1, <2>2, PlanLater
  <2>4. call[c].written \in 1..Now
    BY <1>4, <2>2 DEF CallInv, WriteStands, Grows
  <2>5. \A v \in call[c].written..Now : v \in call[c].written..Now'
    BY <2>4 DEF Grows
  <2>6. PlaceStands(c)'
    BY <1>4, <2>3, <2>5 DEF CallInv, PlaceStands, At, Verifies, Persisted
  <2> QED
    BY <1>2, <2>1, <2>6 DEF CallInv
<1> QED
  BY <1>3, <1>4

(* A step of an invocation that verifies: its plan, its write and what it  *)
(* was told of a deletion stay, and what it now says, it has seen.         *)
SameWrite(c) ==
  /\ call'[c].outcome = call[c].outcome /\ call'[c].written = call[c].written
  /\ call'[c].inventory = call[c].inventory
  /\ call'[c].deletion = call[c].deletion /\ call'[c].lagged = call[c].lagged

HasSeen(c) == Sound(c)' =>
  /\ Says(c, "confirmed")' => \E v \in Since(c) : ConfirmedBy(c, versions[v])
  /\ Says(c, "refuted")'   => \E v \in Since(c) : RefutedBy(c, versions[v])
  /\ call'[c].last # None /\ call'[c].last.reason = "target_gone" =>
       \E v \in call[c].planned..Now : versions[v] = None

GoesOn(c) ==
  /\ call'[c].last \in Verification /\ ~ Decided(call'[c].last)
  /\ call'[c].from \in call[c].written..Now
  /\ call'[c].pc = "watching" => call'[c].at \in call[c].written..Now

(* A step of a verification is right when what it now says it has seen,    *)
(* and when what goes on has something to go on from.                      *)
LEMMA VerifyingKeeps ==
  ASSUME TargetInv, UNCHANGED target, call \in [Callers -> Call], NEW c \in Callers,
         CallInv(c), Verifies(c), SamePlan(c), SameWrite(c), HasSeen(c),
         Verifies(c)' => GoesOn(c),
         call'[c].pc \in {"polling", "opening", "watching", "done"}
  PROVE  CallInv(c)'
<1>1. Grows /\ versions' = versions /\ Now' = Now
  BY TargetStands DEF target, Now
<1>2. /\ Persisted(c) /\ Plan(c).rule # "absence" /\ HasPlan(c)
      /\ call[c].planned \in Nat
  BY DEF CallInv, PlaceStands, HasPlan, Call
<1>3. call[c].planned \in 1..Now
  BY <1>2 DEF CallInv, PlanStands
<1>4. Plan(c)' = Plan(c) /\ Before(c)' = Before(c)
  BY <1>1, <1>3, PlanLater
<1>5. Persisted(c)'
  BY <1>2 DEF SameWrite, Persisted
<1>6. PlanStands(c)'
  BY <1>1, <1>2, PlanKept DEF CallInv, SameWrite
<1>7. WriteStands(c)'
  BY <1>1, <1>2, WriteKept DEF CallInv, SameWrite
<1>8. PlaceStands(c)'
  BY <1>1, <1>2, <1>4, <1>5 DEF PlaceStands, At, Verifies, GoesOn, SameWrite
<1>9. Since(c)' = Since(c)
  BY <1>1, <1>4 DEF Since, SameWrite
<1>10. VerdictStands(c)'
  <2>1. SUFFICES ASSUME Sound(c)'
                 PROVE  /\ Says(c, "confirmed")' => \E v \in Since(c) : ConfirmedBy(c, versions[v])'
                        /\ Says(c, "refuted")' => \E v \in Since(c) : RefutedBy(c, versions[v])'
    BY <1>9 DEF VerdictStands
  <2>2. \A v : /\ ConfirmedBy(c, versions[v])' <=> ConfirmedBy(c, versions[v])
               /\ RefutedBy(c, versions[v])' <=> RefutedBy(c, versions[v])
    BY <1>1, <1>4 DEF ConfirmedBy, RefutedBy
  <2> QED
    BY <2>1, <2>2 DEF HasSeen
<1>11. EndStands(c)'
  <2>1. SUFFICES ASSUME SaysItEnded(c)'
                 PROVE  \E v \in call[c].planned..Now : versions[v] = None
    BY <1>1 DEF EndStands, SamePlan
  <2>2. CASE call[c].deletion = "absent"
    BY <2>2 DEF CallInv, EndStands, SaysItEnded
  <2>3. CASE call[c].deletion # "absent"
    <3>1. Sound(c)' /\ call'[c].last # None /\ call'[c].last.reason = "target_gone"
      BY <1>2, <1>4, <2>1, <2>3 DEF SaysItEnded, SameWrite
    <3> QED
      BY <3>1 DEF HasSeen
  <2> QED
    BY <2>2, <2>3
<1> QED
  BY <1>6, <1>7, <1>8, <1>10, <1>11 DEF CallInv

(* The record of a verification that is concluded.                         *)
LEMMA ConclusionType ==
  ASSUME NEW old \in Call, NEW place \in Place, NEW last \in Verification, NEW source \in Sources
  PROVE  [old EXCEPT !.pc = place, !.last = last, !.source = source,
                     !.audited = TRUE] \in Call
BY DEF Call

(* A verification that is concluded by evidence.                           *)
LEMMA ConcludesKeeps ==
  ASSUME TargetInv, UNCHANGED target, call \in [Callers -> Call], NEW c \in Callers,
         CallInv(c), Verifies(c), NEW last \in Verification, NEW source \in Sources,
         Concludes(c, last, source),
         (source = "cache" => ~ call[c].lagged) =>
           /\ last.verdict = "confirmed" => \E v \in Since(c) : ConfirmedBy(c, versions[v])
           /\ last.verdict = "refuted"   => \E v \in Since(c) : RefutedBy(c, versions[v])
           /\ last.reason = "target_gone" =>
                \E v \in call[c].planned..Now : versions[v] = None
  PROVE  CallInv(c)' /\ call' \in [Callers -> Call]
<1>1. call'[c] = [call[c] EXCEPT !.pc = "done", !.last = last, !.source = source,
                                 !.audited = TRUE]
  BY DEF Concludes
<1>2. call[c] \in Call
  OBVIOUS
<1>3. /\ call'[c].pc = "done" /\ call'[c].last = last /\ call'[c].source = source
      /\ SamePlan(c) /\ SameWrite(c) /\ call'[c] \in Call
  <2>1. /\ call'[c].pc = "done" /\ call'[c].last = last /\ call'[c].source = source
        /\ SamePlan(c) /\ SameWrite(c)
    BY <1>1, <1>2 DEF Call, SamePlan, SameWrite
  <2>2. "done" \in Place
    BY DEF Place
  <2>3. [call[c] EXCEPT !.pc = "done", !.last = last, !.source = source,
                        !.audited = TRUE] \in Call
    BY <1>2, <2>2, ConclusionType, Zenon
  <2>4. call'[c] \in Call
    BY ONLY <1>1, <2>3
  <2> QED
    BY <2>1, <2>4
<1>4. call' \in [Callers -> Call]
  BY <1>3 DEF Concludes
<1>5. HasSeen(c) /\ ~ Verifies(c)'
  BY <1>3 DEF HasSeen, Sound, Says, Verifies, SameWrite
<1> QED
  BY <1>3, <1>4, <1>5, VerifyingKeeps

(* A verification that ends without a verdict.                             *)
LEMMA UnfinishedKeeps ==
  ASSUME TargetInv, UNCHANGED target, call \in [Callers -> Call], NEW c \in Callers,
         CallInv(c), Verifies(c), NEW last \in Verification, NEW reason \in UnfinishedReasons,
         NEW source \in Sources, Concludes(c, UnfinishedAt(reason, last), source),
         (source = "cache" => ~ call[c].lagged) /\ reason = "target_gone" =>
           \E v \in call[c].planned..Now : versions[v] = None
  PROVE  CallInv(c)' /\ call' \in [Callers -> Call]
<1> DEFINE told == UnfinishedAt(reason, last)
<1>1. told \in Verification /\ told.verdict = "inconclusive" /\ told.reason = reason
  BY DEF UnfinishedAt, Verification, Verdicts
<1> HIDE DEF told
<1>2. Concludes(c, told, source)
  BY DEF told
<1> QED
  BY <1>1, <1>2, ConcludesKeeps

(* The end of a window is told as one, never as the end of the target.     *)
LEMMA WindowEndedIsAReason ==
  ASSUME NEW reached
  PROVE  WindowEnded(reached) \in UnfinishedReasons \ {"target_gone"}
BY DEF WindowEnded, UnfinishedReasons

(* A version of the target that is looked at is evidence of what it shows. *)
LEMMA SeenIsEvidence ==
  ASSUME TargetInv, call \in [Callers -> Call], NEW c \in Callers, CallInv(c),
         HasPlan(c), NEW v \in 1..Now, versions[v] # None, NEW expired \in BOOLEAN
  PROVE  LET seen == OfObject(Plan(c), versions[v], expired)
         IN  /\ seen \in Verification /\ seen.reason # "target_gone"
             /\ seen.verdict = "pending" => ~ expired
             /\ seen.verdict = "confirmed" /\ Plan(c).rule = "absence" =>
                  versions[v].uid # Before(c).uid
             /\ v >= call[c].written /\ Plan(c).rule # "absence" =>
                  /\ seen.verdict = "confirmed" => v \in Since(c) /\ ConfirmedBy(c, versions[v])
                  /\ seen.verdict = "refuted" => v \in Since(c) /\ RefutedBy(c, versions[v])
<1>1. versions[v] \in Content
  BY DEF TargetInv, TargetTypeOK, Now
<1>2. Plan(c).rule \in Rules /\ Plan(c).uid = Before(c).uid
  BY PlanFacts, RuleIsARule DEF Plan, Before
<1>3. v >= call[c].written => v \in call[c].written..Now
  BY DEF Call, TargetInv, Now, TargetTypeOK
<1> QED
  BY <1>1, <1>2, <1>3, OfObjectProves DEF Since, ConfirmedBy, RefutedBy

(* A step that changes nothing of what is told tells what is true.         *)
LEMMA TellsTheSame ==
  ASSUME NEW c, CallInv(c), Verifies(c), call'[c].last = call[c].last,
         call'[c].source = call[c].source, call'[c].lagged = call[c].lagged
  PROVE  HasSeen(c)
<1>1. Persisted(c) /\ Plan(c).rule # "absence"
  BY DEF CallInv, PlaceStands
<1>2. Sound(c)' <=> Sound(c)
  BY DEF Sound
<1> QED
  BY <1>1, <1>2 DEF HasSeen, CallInv, VerdictStands, EndStands, SaysItEnded, Says

(* A verification that goes on where it was goes on.                       *)
LEMMA GoesOnAsBefore ==
  ASSUME NEW c, CallInv(c), Verifies(c), call'[c].last = call[c].last,
         call'[c].from = call[c].from,
         call'[c].pc = "watching" =>
           \/ At(c, "watching") /\ call'[c].at = call[c].at
           \/ call'[c].at = call[c].from
  PROVE  GoesOn(c)
BY DEF CallInv, PlaceStands, GoesOn, At

(* What a live cache answers of the target: it is what the target was at   *)
(* the checkpoint, and where the watch was not behind, of the write or     *)
(* later.                                                                  *)
LEMMA CacheAnswers ==
  ASSUME MInv, NEW c \in Callers, Verifies(c), Live
  PROVE  LET found == Session!Lookup(slot, Name)
         IN  \E v \in 1..Now :
               /\ found = "cached" => Cached = versions[v] /\ versions[v] # None
               /\ found = "confirmed_absent" => versions[v] = None
               /\ found \in {"cached", "confirmed_absent"} /\ ~ call[c].lagged =>
                    v >= call[c].written
<1> DEFINE s == slot.stream
           v == s.checkpoint
<1>1. slot # None /\ s.state = "live"
  BY DEF Live, Session!AbsenceIsConclusive
<1>2. Session!HasSynced(s)
  BY <1>1 DEF Session!HasSynced
<1>3. v \in 1..Now /\ s.objects = [n \in {Name} |-> ObjectAt(v)]
  BY <1>1, <1>2 DEF MInv, SlotStands, StreamStands
<1>4. s.objects[Name] = ObjectAt(v)
  BY <1>3
<1>5. ~ call[c].lagged => v >= call[c].written \/ Name \in s.pending_writes
  BY <1>1, <1>2 DEF MInv, AnswersAfter, PastTheWrite
<1>6. /\ Session!Lookup(slot, Name) = "cached" =>
           Name \notin s.pending_writes /\ s.objects[Name] # None
      /\ Session!Lookup(slot, Name) = "confirmed_absent" =>
           Name \notin s.pending_writes /\ s.objects[Name] = None
  BY <1>1 DEF Session!Lookup, Session!AbsenceIsConclusive, Session!Find, Session!IsPendingWrite
<1>7. ObjectAt(v) = None => versions[v] = None
  <2>1. versions[v] \in Content \cup {None} /\ v \in Nat
    BY <1>3 DEF MInv, TargetInv, TargetTypeOK, Now
  <2>2. versions[v] # None => [uid |-> versions[v].uid, rv |-> v] \in Session!Object
    BY <2>1 DEF Content, Session!Object, Session!Version
  <2> QED
    BY <2>2, CacheAssumption DEF ObjectAt
<1>8. ObjectAt(v) # None => versions[v] # None /\ ObjectAt(v).rv = v
  BY DEF ObjectAt
<1>9. ObjectAt(v) # None => Cached = versions[v]
  BY <1>4, <1>8 DEF Cached
<1> HIDE DEF v, s
<1> QED
  BY <1>3, <1>4, <1>5, <1>6, <1>7, <1>8, <1>9

-----------------------------------------------------------------------------
(* The steps of a verification.                                            *)

(* The record of a verification whose window has ended.                    *)
LEMMA ExpiredType ==
  ASSUME NEW old \in Call PROVE [old EXCEPT !.expired = TRUE] \in Call
BY DEF Call

(* The record of an invocation that moves on.                              *)
LEMMA MovedType ==
  ASSUME NEW old \in Call, NEW place \in Place PROVE [old EXCEPT !.pc = place] \in Call
BY DEF Call

(* The record of a verification that has seen something.                   *)
LEMMA SeenType ==
  ASSUME NEW old \in Call, NEW last \in Verification PROVE [old EXCEPT !.last = last] \in Call
BY DEF Call

(* The record of a verification whose watch is open.                       *)
LEMMA OpenedType ==
  ASSUME NEW old \in Call, NEW place \in Place
  PROVE  [old EXCEPT !.pc = place, !.at = old.from] \in Call
BY DEF Call

(* The record of a verification that was stopped.                          *)
LEMMA CancelledType ==
  ASSUME NEW old \in Call, NEW place \in Place
  PROVE  [old EXCEPT !.pc = place, !.last = None] \in Call
BY DEF Call

(* The record of a verification that has received a change.                *)
LEMMA ReceivedType ==
  ASSUME NEW old \in Call, NEW place \in Place, NEW last \in Verification,
         NEW v \in Nat, NEW audited \in BOOLEAN
  PROVE  [old EXCEPT !.pc = place, !.from = v, !.at = v, !.last = last,
                     !.source = "watch", !.audited = audited] \in Call
<1>1. "watch" \in Sources
  BY DEF Sources
<1> QED
  BY <1>1 DEF Call

(* What a step of a verification leaves: the target, and the rest of what  *)
(* the invocation knows.                                                   *)
Keeps(c) ==
  /\ CallInv(c)' /\ call' \in [Callers -> Call]
  /\ \A d \in Callers \ {c} : call'[d] = call[d]
  /\ SamePlan(c) /\ SameWrite(c) /\ Verifies(c)

(* A conclusion leaves the plan and the write, and everybody else.         *)
LEMMA ConcludedKeeps ==
  ASSUME NEW c \in Callers, call \in [Callers -> Call], Verifies(c), NEW last, NEW source,
         Concludes(c, last, source), CallInv(c)', call' \in [Callers -> Call]
  PROVE  Keeps(c)
<1>1. call'[c] = [call[c] EXCEPT !.pc = "done", !.last = last, !.source = source,
                                 !.audited = TRUE]
  BY DEF Concludes
<1>2. SamePlan(c) /\ SameWrite(c)
  BY <1>1 DEF Call, SamePlan, SameWrite
<1>3. \A d \in Callers \ {c} : call'[d] = call[d]
  BY DEF Concludes
<1> QED
  BY <1>2, <1>3 DEF Keeps

(* The window ends (`WindowEnds`).                                         *)
LEMMA WindowEndsKeeps ==
  ASSUME MInv, NEW c \in Callers, WindowEnds(c)
  PROVE  Keeps(c)
<1>1. call' = [call EXCEPT ![c].expired = TRUE] /\ Verifies(c) /\ UNCHANGED target
  BY DEF WindowEnds
<1>2. call \in [Callers -> Call] /\ TargetInv /\ CallInv(c) /\ call[c] \in Call
  BY DEF MInv
<1>3. call'[c] = [call[c] EXCEPT !.expired = TRUE]
      /\ \A d \in Callers \ {c} : call'[d] = call[d]
  BY <1>1, <1>2
<1>4. call'[c] \in Call
  BY <1>2, <1>3, ExpiredType, Zenon
<1>5. call' \in [Callers -> Call]
  BY <1>1, <1>2, <1>4
<1>6. /\ SamePlan(c) /\ SameWrite(c) /\ call'[c].pc = call[c].pc
      /\ call'[c].last = call[c].last /\ call'[c].source = call[c].source
      /\ call'[c].from = call[c].from /\ call'[c].at = call[c].at
  BY <1>2, <1>3 DEF Call, SamePlan, SameWrite
<1>7. HasSeen(c)
  BY <1>1, <1>2, <1>6, TellsTheSame DEF SameWrite
<1>8. GoesOn(c)
  BY <1>1, <1>2, <1>6, GoesOnAsBefore DEF At
<1>9. call'[c].pc \in {"polling", "opening", "watching", "done"}
  BY <1>1, <1>6 DEF Verifies
<1>10. CallInv(c)'
  BY <1>1, <1>2, <1>6, <1>7, <1>8, <1>9, VerifyingKeeps
<1> QED
  BY <1>1, <1>3, <1>5, <1>6, <1>10 DEF Keeps

(* A verification over its own watch ends without a verdict.               *)
LEMMA UnfinishKeeps ==
  ASSUME MInv, NEW c \in Callers, Verifies(c), UNCHANGED target,
         NEW reason \in UnfinishedReasons, Unfinish(c, reason),
         reason = "target_gone" => \E v \in call[c].planned..Now : versions[v] = None
  PROVE  Keeps(c)
<1>1. call \in [Callers -> Call] /\ TargetInv /\ CallInv(c)
  BY DEF MInv
<1>2. call[c].last \in Verification
  BY <1>1 DEF CallInv, PlaceStands
<1>3. "watch" \in Sources
  BY DEF Sources
<1>4. Concludes(c, UnfinishedAt(reason, call[c].last), "watch")
  BY DEF Unfinish
<1>5. CallInv(c)' /\ call' \in [Callers -> Call]
  BY <1>1, <1>2, <1>3, <1>4, UnfinishedKeeps
<1> QED
  BY <1>1, <1>4, <1>5, ConcludedKeeps

(* It ends with its window (`Expire`).                                     *)
LEMMA ExpireKeeps ==
  ASSUME MInv, NEW c \in Callers, Expire(c)
  PROVE  Keeps(c)
<1>1. /\ Verifies(c) /\ UNCHANGED target
      /\ Unfinish(c, WindowEnded(call[c].last.reached))
  BY DEF Expire, Verifies
<1>2. WindowEnded(call[c].last.reached) \in UnfinishedReasons \ {"target_gone"}
  BY WindowEndedIsAReason
<1> QED
  BY <1>1, <1>2, UnfinishKeeps

(* It ends with a watch that cannot go on (`BreakWatch`).                  *)
LEMMA BreakWatchKeeps ==
  ASSUME MInv, NEW c \in Callers, BreakWatch(c)
  PROVE  Keeps(c)
<1>1. Verifies(c) /\ UNCHANGED target
  BY DEF BreakWatch, Verifies, At
<1>2. \/ Unfinish(c, "watch_gap")
      \/ Unfinish(c, "partial_coverage")
  BY DEF BreakWatch
<1>3. {"watch_gap", "partial_coverage"} \subseteq UnfinishedReasons \ {"target_gone"}
  BY DEF UnfinishedReasons
<1> QED
  BY <1>1, <1>2, <1>3, UnfinishKeeps

(* A verification that moves, with what it has last seen.                  *)
LEMMA MovesKeeps ==
  ASSUME MInv, NEW c \in Callers, Verifies(c), UNCHANGED target,
         NEW place \in {"opening", "watching"},
         \/ call' = [call EXCEPT ![c].pc = place] /\ place = "opening"
         \/ call' = [call EXCEPT ![c].pc = place, ![c].at = call[c].from]
  PROVE  Keeps(c)
<1>1. call \in [Callers -> Call] /\ TargetInv /\ CallInv(c) /\ call[c] \in Call
  BY DEF MInv
<1>2. \/ call'[c] = [call[c] EXCEPT !.pc = place] /\ place = "opening"
      \/ call'[c] = [call[c] EXCEPT !.pc = place, !.at = call[c].from]
  BY <1>1
<1>3. \A d \in Callers \ {c} : call'[d] = call[d]
  BY <1>1
<1>4. place \in Place
  BY DEF Place
<1>5. call'[c] \in Call
  <2>1. [call[c] EXCEPT !.pc = place] \in Call
    BY <1>1, <1>4, MovedType, Zenon
  <2>2. [call[c] EXCEPT !.pc = place, !.at = call[c].from] \in Call
    BY <1>1, <1>4, OpenedType, Zenon
  <2> QED
    BY <1>2, <2>1, <2>2, Zenon
<1>6. call' \in [Callers -> Call]
  <2>1. \/ call' = [call EXCEPT ![c] = call'[c]]
    BY <1>1
  <2> QED
    BY <1>1, <1>5, <2>1
<1>7. /\ SamePlan(c) /\ SameWrite(c) /\ call'[c].pc = place
      /\ call'[c].last = call[c].last /\ call'[c].source = call[c].source
      /\ call'[c].from = call[c].from
      /\ place = "watching" => call'[c].at = call[c].from
  BY <1>1, <1>2 DEF Call, SamePlan, SameWrite
<1>8. HasSeen(c)
  BY <1>1, <1>7, TellsTheSame DEF SameWrite
<1>9. GoesOn(c)
  BY <1>1, <1>7, GoesOnAsBefore
<1>10. CallInv(c)'
  BY <1>1, <1>7, <1>8, <1>9, VerifyingKeeps
<1> QED
  BY <1>3, <1>6, <1>7, <1>10 DEF Keeps

(* A watch opens where the last observation was, or cannot (`OpenWatch`).  *)
LEMMA OpenWatchKeeps ==
  ASSUME MInv, NEW c \in Callers, OpenWatch(c)
  PROVE  Keeps(c)
<1>1. Verifies(c) /\ UNCHANGED target
  BY DEF OpenWatch, Verifies, At
<1>2. \/ call' = [call EXCEPT ![c].pc = "watching", ![c].at = call[c].from]
      \/ Unfinish(c, "watch_gap")
      \/ Unfinish(c, "watch_unavailable")
  BY DEF OpenWatch
<1>3. {"watch_gap", "watch_unavailable"} \subseteq UnfinishedReasons \ {"target_gone"}
  BY DEF UnfinishedReasons
<1>4. CASE call' = [call EXCEPT ![c].pc = "watching", ![c].at = call[c].from]
  BY <1>1, <1>4, MovesKeeps
<1>5. CASE Unfinish(c, "watch_gap") \/ Unfinish(c, "watch_unavailable")
  BY <1>1, <1>3, <1>5, UnfinishKeeps
<1> QED
  BY <1>2, <1>4, <1>5

(* A watch that was interrupted is to be opened again (`Reopen`).          *)
LEMMA ReopenKeeps ==
  ASSUME MInv, NEW c \in Callers, Reopen(c)
  PROVE  Keeps(c)
<1>1. Verifies(c) /\ UNCHANGED target /\ call' = [call EXCEPT ![c].pc = "opening"]
  BY DEF Reopen, Verifies, At
<1> QED
  BY <1>1, MovesKeeps

(* The operator stops a verification (`Cancel`).                           *)
LEMMA CancelKeeps ==
  ASSUME MInv, NEW c \in Callers, Cancel(c)
  PROVE  Keeps(c)
<1>1. /\ Verifies(c) /\ UNCHANGED target
      /\ call' = [call EXCEPT ![c].pc = "done", ![c].last = None]
  BY DEF Cancel
<1>2. call \in [Callers -> Call] /\ TargetInv /\ CallInv(c) /\ call[c] \in Call
  BY DEF MInv
<1>3. call'[c] = [call[c] EXCEPT !.pc = "done", !.last = None]
      /\ \A d \in Callers \ {c} : call'[d] = call[d]
  BY <1>1, <1>2
<1>4. "done" \in Place
  BY DEF Place
<1>5. call'[c] \in Call
  BY <1>2, <1>3, <1>4, CancelledType, Zenon
<1>6. call' \in [Callers -> Call]
  BY <1>1, <1>2, <1>5
<1>7. /\ SamePlan(c) /\ SameWrite(c) /\ call'[c].pc = "done" /\ call'[c].last = None
  BY <1>2, <1>3 DEF Call, SamePlan, SameWrite
<1>8. HasSeen(c) /\ ~ Verifies(c)'
  BY <1>7 DEF HasSeen, Says, Verifies
<1>9. CallInv(c)'
  BY <1>1, <1>2, <1>7, <1>8, VerifyingKeeps
<1> QED
  BY <1>1, <1>3, <1>6, <1>7, <1>9 DEF Keeps

(* What a verification knows of its write.                                 *)
LEMMA VerifyingFacts ==
  ASSUME MInv, NEW c \in Callers, Verifies(c)
  PROVE  /\ call[c] \in Call /\ CallInv(c) /\ HasPlan(c) /\ Plan(c).rule # "absence"
         /\ Now \in Nat /\ call[c].planned \in 1..Now
         /\ call[c].written \in call[c].planned..Now
<1>1. call[c] \in Call /\ CallInv(c) /\ Now \in Nat
  BY DEF MInv, TargetInv, TargetTypeOK, Now
<1>2. Persisted(c) /\ Plan(c).rule # "absence" /\ HasPlan(c)
  BY <1>1 DEF CallInv, PlaceStands, HasPlan
<1>3. call[c].planned \in 1..Now
  BY <1>1, <1>2 DEF CallInv, PlanStands
<1>4. call[c].written \in {call[c].planned, call[c].planned + 1} /\ call[c].written <= Now
  BY <1>1, <1>2 DEF CallInv, WriteStands
<1>5. call[c].written \in call[c].planned..Now
  BY <1>1, <1>3, <1>4
<1> QED
  BY <1>1, <1>2, <1>3, <1>5

(* A change arrives: it is after the write, and is evidence (`Receive`).   *)
LEMMA ReceiveKeeps ==
  ASSUME MInv, NEW c \in Callers, Receive(c)
  PROVE  Keeps(c)
<1> DEFINE v == call[c].at + 1
           seen == OfObject(Plan(c), versions[v], FALSE)
<1>1. Verifies(c) /\ UNCHANGED target /\ At(c, "watching") /\ call[c].at < Now
  BY DEF Receive, Verifies, At
<1>2. /\ call[c] \in Call /\ CallInv(c) /\ HasPlan(c) /\ Plan(c).rule # "absence"
      /\ Now \in Nat /\ call[c].planned \in 1..Now
      /\ call[c].written \in call[c].planned..Now
  BY <1>1, VerifyingFacts
<1>3. call[c].at \in call[c].written..Now
  BY <1>1, <1>2 DEF CallInv, PlaceStands
<1>4. /\ v \in 1..Now /\ v \in call[c].written..Now /\ v \in call[c].planned..Now
      /\ v >= call[c].written
  BY <1>1, <1>2, <1>3
<1>5. CASE versions[v] = None
  <2>1. Unfinish(c, "target_gone")
    BY <1>5 DEF Receive
  <2>2. "target_gone" \in UnfinishedReasons
    BY DEF UnfinishedReasons
  <2> HIDE DEF v
  <2> QED
    BY <1>1, <1>4, <1>5, <2>1, <2>2, UnfinishKeeps
<1>6. CASE versions[v] # None
  <2> DEFINE place == IF Decided(seen) THEN "done" ELSE "watching"
  <2>1. call' = [call EXCEPT ![c].pc = place, ![c].from = v, ![c].at = v,
                             ![c].last = seen, ![c].source = "watch",
                             ![c].audited = Decided(seen)]
    BY <1>6 DEF Receive
  <2>2. call \in [Callers -> Call] /\ TargetInv
    BY DEF MInv
  <2> HIDE DEF v
  <2>3. /\ seen \in Verification /\ seen.reason # "target_gone"
        /\ seen.verdict = "confirmed" => v \in Since(c) /\ ConfirmedBy(c, versions[v])
        /\ seen.verdict = "refuted" => v \in Since(c) /\ RefutedBy(c, versions[v])
    BY <1>2, <1>4, <1>6, <2>2, SeenIsEvidence
  <2>4. place \in Place /\ Decided(seen) \in BOOLEAN /\ v \in Nat
    BY <1>4 DEF Place, Decided
  <2> DEFINE decided == Decided(seen)
  <2>5. decided \in BOOLEAN /\ (place # "done" => ~ decided)
    BY <2>4
  <2>6. place \in {"done", "watching"}
    OBVIOUS
  <2>7. call' = [call EXCEPT ![c].pc = place, ![c].from = v, ![c].at = v,
                             ![c].last = seen, ![c].source = "watch",
                             ![c].audited = decided]
    BY <2>1
  <2> HIDE DEF seen, place, decided
  <2>8. call'[c] = [call[c] EXCEPT !.pc = place, !.from = v, !.at = v, !.last = seen,
                                   !.source = "watch", !.audited = decided]
        /\ \A d \in Callers \ {c} : call'[d] = call[d]
    BY <2>2, <2>7
  <2>9. [call[c] EXCEPT !.pc = place, !.from = v, !.at = v, !.last = seen,
                        !.source = "watch", !.audited = decided] \in Call
    BY <1>2, <2>3, <2>4, <2>5, ReceivedType, Zenon
  <2>10. call'[c] \in Call
    BY <2>8, <2>9, Zenon
  <2>11. call' \in [Callers -> Call]
    <3>1. call' = [call EXCEPT ![c] = call'[c]]
      BY <2>2, <2>7
    <3> QED
      BY <2>2, <2>10, <3>1
  <2>12. /\ SamePlan(c) /\ SameWrite(c) /\ call'[c].pc = place
         /\ call'[c].last = seen /\ call'[c].source = "watch"
         /\ call'[c].from = v /\ call'[c].at = v
    BY <1>2, <2>8 DEF Call, SamePlan, SameWrite
  <2>13. HasSeen(c)
    BY <2>3, <2>12 DEF HasSeen, Says
  <2>14. Verifies(c)' => GoesOn(c)
    BY <1>4, <2>3, <2>5, <2>12 DEF GoesOn, Verifies, decided
  <2>15. CallInv(c)'
    BY <1>1, <1>2, <2>2, <2>6, <2>12, <2>13, <2>14, VerifyingKeeps
  <2> QED
    BY <1>1, <2>8, <2>11, <2>12, <2>15 DEF Keeps
<1> QED
  BY <1>5, <1>6

(* A poll that goes on, at what it has now seen.                           *)
LEMMA PolledKeeps ==
  ASSUME MInv, NEW c \in Callers, At(c, "polling"), UNCHANGED target,
         NEW seen \in Verification, ~ Decided(seen),
         call' = [call EXCEPT ![c].last = seen],
         seen = call[c].last \/ seen.reason # "target_gone"
  PROVE  Keeps(c)
<1>1. call \in [Callers -> Call] /\ TargetInv /\ CallInv(c) /\ call[c] \in Call /\ Verifies(c)
  BY DEF MInv, Verifies, At
<1>2. call'[c] = [call[c] EXCEPT !.last = seen]
      /\ \A d \in Callers \ {c} : call'[d] = call[d]
  BY <1>1
<1>3. [call[c] EXCEPT !.last = seen] \in Call
  BY <1>1, SeenType, Zenon
<1>4. call'[c] \in Call
  BY <1>2, <1>3, Zenon
<1>5. call' \in [Callers -> Call]
  BY <1>1, <1>4
<1>6. /\ SamePlan(c) /\ SameWrite(c) /\ call'[c].pc = "polling"
      /\ call'[c].last = seen /\ call'[c].source = call[c].source
      /\ call'[c].from = call[c].from
  BY <1>1, <1>2 DEF Call, SamePlan, SameWrite, At
<1>7. HasSeen(c)
  <2>1. CASE seen = call[c].last
    BY <1>1, <1>6, <2>1, TellsTheSame DEF SameWrite
  <2>2. CASE seen.reason # "target_gone"
    BY <1>6, <2>2 DEF HasSeen, Says, Decided
  <2> QED
    BY <2>1, <2>2
<1>8. GoesOn(c)
  BY <1>1, <1>6 DEF GoesOn, CallInv, PlaceStands
<1>9. CallInv(c)'
  BY <1>1, <1>6, <1>7, <1>8, VerifyingKeeps
<1> QED
  BY <1>1, <1>2, <1>5, <1>6, <1>9 DEF Keeps

(* A poll that tells what it saw, or that there is nothing left to see.    *)
LEMMA ToldKeeps ==
  ASSUME MInv, NEW c \in Callers, Verifies(c), UNCHANGED target,
         NEW last \in Verification, Concludes(c, last, "cache"),
         ~ call[c].lagged =>
           /\ last.verdict = "confirmed" => \E v \in Since(c) : ConfirmedBy(c, versions[v])
           /\ last.verdict = "refuted"   => \E v \in Since(c) : RefutedBy(c, versions[v])
           /\ last.reason = "target_gone" =>
                \E v \in call[c].planned..Now : versions[v] = None
  PROVE  Keeps(c)
<1>1. call \in [Callers -> Call] /\ TargetInv /\ CallInv(c)
  BY DEF MInv
<1>2. "cache" \in Sources
  BY DEF Sources
<1>3. CallInv(c)' /\ call' \in [Callers -> Call]
  BY <1>1, <1>2, ConcludesKeeps
<1> QED
  BY <1>1, <1>3, ConcludedKeeps

(* A poll of the session's cache (`Poll`).                                 *)
LEMMA PollKeeps ==
  ASSUME MInv, NEW c \in Callers, Poll(c)
  PROVE  Keeps(c)
<1>1. At(c, "polling") /\ Verifies(c) /\ UNCHANGED target
  BY DEF Poll, Verifies, At
<1>2. /\ call[c] \in Call /\ CallInv(c) /\ HasPlan(c) /\ Plan(c).rule # "absence"
      /\ Now \in Nat /\ call[c].planned \in 1..Now
      /\ call[c].written \in call[c].planned..Now
  BY <1>1, VerifyingFacts
<1>3. CASE ~ Live
  <2>1. call' = [call EXCEPT ![c].pc = "opening"]
    BY <1>3 DEF Poll
  <2> QED
    BY <1>1, <2>1, MovesKeeps
<1>4. CASE Live
  <2> DEFINE found == Session!Lookup(slot, Name)
             seen  == IF found = "cached" THEN OfObject(Plan(c), Cached, FALSE)
                                          ELSE call[c].last
  <2>1. \/ Gone(found) /\ Concludes(c, UnfinishedAt("target_gone", seen), "cache")
        \/ ~ Gone(found) /\ Decided(seen) /\ Concludes(c, seen, "cache")
        \/ /\ ~ Gone(found) /\ ~ Decided(seen)
           /\ \/ Concludes(c, UnfinishedAt(WindowEnded(seen.reached), seen), "cache")
              \/ call' = [call EXCEPT ![c].last = seen]
    BY <1>4 DEF Poll
  <2>2. PICK v \in 1..Now :
          /\ found = "cached" => Cached = versions[v] /\ versions[v] # None
          /\ found = "confirmed_absent" => versions[v] = None
          /\ found \in {"cached", "confirmed_absent"} /\ ~ call[c].lagged =>
               v >= call[c].written
    BY <1>1, <1>4, CacheAnswers
  <2>3. call[c].last \in Verification /\ ~ Decided(call[c].last)
    BY <1>1, <1>2 DEF CallInv, PlaceStands
  <2>4. /\ seen \in Verification
        /\ seen = call[c].last \/ seen.reason # "target_gone"
        /\ Decided(seen) /\ ~ call[c].lagged =>
             /\ seen.verdict = "confirmed" => \E u \in Since(c) : ConfirmedBy(c, versions[u])
             /\ seen.verdict = "refuted" => \E u \in Since(c) : RefutedBy(c, versions[u])
        /\ Decided(seen) => seen.reason # "target_gone"
    <3>1. CASE found = "cached"
      <4> DEFINE told == OfObject(Plan(c), versions[v], FALSE)
      <4>1. seen = told /\ versions[v] # None
        BY <2>2, <3>1
      <4>2. call \in [Callers -> Call] /\ TargetInv
        BY DEF MInv
      <4>3. ~ call[c].lagged => v >= call[c].written
        BY <2>2, <3>1
      <4>4. /\ told \in Verification /\ told.reason # "target_gone"
            /\ v >= call[c].written =>
                 /\ told.verdict = "confirmed" => v \in Since(c) /\ ConfirmedBy(c, versions[v])
                 /\ told.verdict = "refuted" => v \in Since(c) /\ RefutedBy(c, versions[v])
        BY <1>2, <4>1, <4>2, SeenIsEvidence
      <4> HIDE DEF told, seen
      <4> QED
        BY <4>1, <4>3, <4>4
    <3>2. CASE found # "cached"
      BY <2>3, <3>2
    <3> QED
      BY <3>1, <3>2
  <2>5. CASE Gone(found)
    <3> DEFINE told == UnfinishedAt("target_gone", seen)
    <3>1. found = "confirmed_absent" /\ Concludes(c, told, "cache")
      BY <2>1, <2>5 DEF Gone
    <3>2. told \in Verification /\ told.verdict = "inconclusive"
      BY <2>4 DEF UnfinishedAt, Verification, Verdicts, UnfinishedReasons
    <3>3. ~ call[c].lagged => v \in call[c].planned..Now /\ versions[v] = None
      BY <1>2, <2>2, <3>1
    <3> HIDE DEF told, seen, found
    <3> QED
      BY <1>1, <3>1, <3>2, <3>3, ToldKeeps
  <2>6. CASE ~ Gone(found) /\ Decided(seen)
    <3>1. Concludes(c, seen, "cache")
      BY <2>1, <2>6
    <3> HIDE DEF seen, found
    <3> QED
      BY <1>1, <2>4, <2>6, <3>1, ToldKeeps
  <2>7. CASE ~ Gone(found) /\ ~ Decided(seen)
    <3> DEFINE reason == WindowEnded(seen.reached)
               told   == UnfinishedAt(reason, seen)
    <3>1. \/ Concludes(c, told, "cache")
          \/ call' = [call EXCEPT ![c].last = seen]
      BY <2>1, <2>7
    <3>2. reason \in UnfinishedReasons \ {"target_gone"}
      BY WindowEndedIsAReason
    <3> HIDE DEF reason
    <3>3. told \in Verification /\ told.verdict = "inconclusive" /\ told.reason # "target_gone"
      BY <2>4, <3>2 DEF UnfinishedAt, Verification, Verdicts
    <3> HIDE DEF told, seen, found
    <3>4. CASE Concludes(c, told, "cache")
      BY <1>1, <3>3, <3>4, ToldKeeps
    <3>5. CASE call' = [call EXCEPT ![c].last = seen]
      BY <1>1, <2>4, <2>7, <3>5, PolledKeeps
    <3> QED
      BY <3>1, <3>4, <3>5
  <2> QED
    BY <2>5, <2>6, <2>7
<1> QED
  BY <1>3, <1>4

-----------------------------------------------------------------------------
(* The steps before a verification.                                        *)

(* What such a step leaves.                                                *)
Moves(c) ==
  /\ CallInv(c)' /\ call' \in [Callers -> Call]
  /\ \A d \in Callers \ {c} : call'[d] = call[d]

(* The record of an invocation that ended.                                 *)
LEMMA EndedType ==
  ASSUME NEW old \in Call, NEW place \in Place, NEW outcome \in Acceptances \cup {"none", "failed"},
         NEW audited \in BOOLEAN
  PROVE  [old EXCEPT !.pc = place, !.outcome = outcome, !.audited = audited] \in Call
BY DEF Call

(* An invocation that ends without a write.                                *)
LEMMA EndsKeeps ==
  ASSUME MInv, NEW c \in Callers, ~ Persisted(c),
         NEW outcome \in (Acceptances \cup {"failed"}) \ {"persisted"}, Ends(c, outcome)
  PROVE  Moves(c) /\ ~ Verifies(c)'
<1> DEFINE audited == (outcome # "failed")
<1>1. call \in [Callers -> Call] /\ CallInv(c) /\ call[c] \in Call
  BY DEF MInv
<1>2. audited \in BOOLEAN
  OBVIOUS
<1>3. call' = [call EXCEPT ![c].pc = "done", ![c].outcome = outcome, ![c].audited = audited]
  BY DEF Ends
<1> HIDE DEF audited
<1>4. call'[c] = [call[c] EXCEPT !.pc = "done", !.outcome = outcome, !.audited = audited]
      /\ \A d \in Callers \ {c} : call'[d] = call[d]
  BY <1>1, <1>3
<1>5. "done" \in Place /\ outcome \in Acceptances \cup {"none", "failed"}
  BY DEF Place
<1>6. [call[c] EXCEPT !.pc = "done", !.outcome = outcome, !.audited = audited] \in Call
  BY <1>1, <1>2, <1>5, EndedType, Zenon
<1>7. call'[c] \in Call
  BY <1>4, <1>6, Zenon
<1>8. call' \in [Callers -> Call]
  <2>1. call' = [call EXCEPT ![c] = call'[c]]
    BY <1>1, <1>3
  <2> QED
    BY <1>1, <1>7, <2>1
<1>9. call[c].deletion = "none"
  BY <1>1 DEF CallInv, PlaceStands
<1>10. /\ call'[c].pc = "done" /\ call'[c].outcome = outcome
       /\ call'[c].deletion = "none"
  BY <1>1, <1>4, <1>9 DEF Call
<1>11. ~ Persisted(c)' /\ ~ Verifies(c)' /\ ~ HasPlan(c)'
  BY <1>10 DEF Persisted, Verifies, HasPlan
<1>12. WriteStands(c)' /\ VerdictStands(c)' /\ EndStands(c)'
  BY <1>10, NothingWritten
<1>13. PlanStands(c)' /\ PlaceStands(c)'
  BY <1>10, <1>11 DEF PlanStands, PlaceStands, At
<1> QED
  BY <1>4, <1>8, <1>11, <1>12, <1>13 DEF CallInv, Moves

(* The record of an invocation that has a plan.                            *)
LEMMA StartedType ==
  ASSUME NEW old \in Call, NEW place \in Place, NEW intent \in Intents,
         NEW how \in [dry_run : BOOLEAN, force : BOOLEAN], NEW planned \in Nat,
         NEW inventory \in [autoscaler : BOOLEAN, complete : BOOLEAN, more : BOOLEAN]
  PROVE  [old EXCEPT !.pc = place, !.intent = intent, !.how = how, !.planned = planned,
                     !.inventory = inventory] \in Call
BY DEF Call

(* A plan is made on the target as it is.                                  *)
LEMMA StartKeeps ==
  ASSUME MInv, NEW c \in Callers, Start(c)
  PROVE  Moves(c) /\ ~ Verifies(c)'
<1>1. call \in [Callers -> Call] /\ CallInv(c) /\ call[c] \in Call /\ call[c] = NoCall
  BY DEF MInv, CallInv, PlaceStands, Start
<1>2. PICK intent \in Intents, dry_run \in BOOLEAN, force \in Forces :
        PlansOn(c, intent, [dry_run |-> dry_run, force |-> force])
  BY DEF Start
<1> DEFINE how == [dry_run |-> dry_run, force |-> force]
<1>3. PICK inventory \in Inventories(ActionOf(intent, Current)) :
        call' = [call EXCEPT ![c].pc = "preflight", ![c].intent = intent, ![c].how = how,
                             ![c].planned = Now, ![c].inventory = inventory]
  BY <1>2 DEF PlansOn
<1>4. how \in [dry_run : BOOLEAN, force : BOOLEAN]
  BY MutatingAssumption
<1>5. inventory \in [autoscaler : BOOLEAN, complete : BOOLEAN, more : BOOLEAN]
  <2>1. autoscaler \in BOOLEAN
    BY DEF MInv, TargetInv, TargetTypeOK
  <2>2. \E found \in BOOLEAN, complete \in BOOLEAN, more \in BOOLEAN :
          inventory = [autoscaler |-> found, complete |-> complete, more |-> more]
    BY <2>1 DEF Inventories, Unasked
  <2> QED
    BY ONLY <2>2
<1> HIDE DEF how
<1>6. Now \in Nat /\ Now \in 1..Now /\ UNCHANGED target
  BY DEF MInv, TargetInv, TargetTypeOK, Now, Start
<1>7. call'[c] = [call[c] EXCEPT !.pc = "preflight", !.intent = intent, !.how = how,
                                 !.planned = Now, !.inventory = inventory]
      /\ \A d \in Callers \ {c} : call'[d] = call[d]
  BY <1>1, <1>3
<1>8. "preflight" \in Place
  BY DEF Place
<1>9. [call[c] EXCEPT !.pc = "preflight", !.intent = intent, !.how = how,
                      !.planned = Now, !.inventory = inventory] \in Call
  BY <1>1, <1>4, <1>5, <1>6, <1>8, StartedType, Zenon
<1>10. call'[c] \in Call
  BY <1>7, <1>9, Zenon
<1>11. call' \in [Callers -> Call]
  <2>1. call' = [call EXCEPT ![c] = call'[c]]
    BY <1>1, <1>3
  <2> QED
    BY <1>1, <1>10, <2>1
<1>12. /\ call'[c].pc = "preflight" /\ call'[c].intent = intent
       /\ call'[c].planned = Now /\ call'[c].inventory = inventory
       /\ call'[c].outcome = "none" /\ call'[c].deletion = "none" /\ call'[c].last = None
  BY <1>1, <1>7 DEF NoCall
<1>13. Before(c)' = Current /\ Current # None /\ kind' = kind /\ Now' = Now
  BY <1>6, <1>12 DEF Before, Current, Start, target, Now
<1>14. Plan(c)'.action = ActionOf(intent, Current)
  <2>1. Plan(c)' = PlanOf(kind, intent, Current)
    BY <1>12, <1>13 DEF Plan, Before
  <2> QED
    BY <2>1, PlanFacts
<1>15. PlanStands(c)'
  <2>1. Inventories(Plan(c).action)' = Inventories(ActionOf(intent, Current))
    BY <1>6, <1>14 DEF Inventories, target
  <2> QED
    BY <1>6, <1>12, <1>13, <2>1 DEF PlanStands
<1>16. WriteStands(c)' /\ VerdictStands(c)' /\ EndStands(c)'
  BY <1>12, NothingWritten
<1>17. PlaceStands(c)' /\ ~ Verifies(c)'
  BY <1>12 DEF PlaceStands, At, Verifies
<1> QED
  BY <1>7, <1>11, <1>15, <1>16, <1>17 DEF CallInv, Moves

(* There is nothing to change (`StartRefused`).                            *)
LEMMA StartRefusedKeeps ==
  ASSUME MInv, NEW c \in Callers, StartRefused(c)
  PROVE  Moves(c) /\ ~ Verifies(c)'
<1>1. ~ Persisted(c)
  BY DEF MInv, CallInv, PlaceStands, StartRefused, NoCall, Persisted
<1>2. Ends(c, "failed")
  BY DEF StartRefused
<1>3. "failed" \in (Acceptances \cup {"failed"}) \ {"persisted"}
  OBVIOUS
<1> QED
  BY <1>1, <1>2, <1>3, EndsKeeps

(* The change is permitted, or denied (`Permit`).                          *)
LEMMA PermitKeeps ==
  ASSUME MInv, NEW c \in Callers, Permit(c)
  PROVE  Moves(c) /\ ~ Verifies(c)'
<1>1. call \in [Callers -> Call] /\ CallInv(c) /\ call[c] \in Call /\ TargetInv
  BY DEF MInv
<1>2. At(c, "preflight") /\ ~ Persisted(c) /\ call[c].outcome = "none" /\ call[c].last = None
  BY <1>1 DEF CallInv, PlaceStands, Permit, Persisted, At
<1>3. \/ Ends(c, "failed")
      \/ call' = [call EXCEPT ![c].pc = "sending"]
  BY DEF Permit
<1>4. CASE Ends(c, "failed")
  <2>1. "failed" \in (Acceptances \cup {"failed"}) \ {"persisted"}
    OBVIOUS
  <2> QED
    BY <1>2, <1>4, <2>1, EndsKeeps
<1>5. CASE call' = [call EXCEPT ![c].pc = "sending"]
  <2>1. call'[c] = [call[c] EXCEPT !.pc = "sending"]
        /\ \A d \in Callers \ {c} : call'[d] = call[d]
    BY <1>1, <1>5
  <2>2. "sending" \in Place
    BY DEF Place
  <2>3. [call[c] EXCEPT !.pc = "sending"] \in Call
    BY <1>1, <2>2, MovedType, Zenon
  <2>4. call'[c] \in Call
    BY <2>1, <2>3, Zenon
  <2>5. call' \in [Callers -> Call]
    BY <1>1, <1>5, <2>4
  <2>6. call[c].deletion = "none"
    BY <1>1, <1>2 DEF CallInv, PlaceStands
  <2>7. /\ call'[c].pc = "sending" /\ SamePlan(c) /\ call'[c].inventory = call[c].inventory
        /\ call'[c].outcome = "none" /\ call'[c].deletion = "none" /\ call'[c].last = None
    BY <1>1, <1>2, <2>1, <2>6 DEF Call, SamePlan
  <2>8. HasPlan(c) /\ PlanStands(c) /\ Grows
    BY <1>1, <1>2, TargetStands DEF HasPlan, CallInv, Permit, At
  <2>9. PlanStands(c)'
    BY <2>7, <2>8, PlanKept
  <2>10. WriteStands(c)' /\ VerdictStands(c)' /\ EndStands(c)'
    BY <2>7, NothingWritten
  <2>11. PlaceStands(c)' /\ ~ Verifies(c)'
    BY <2>7 DEF PlaceStands, At, Verifies
  <2> QED
    BY <2>1, <2>5, <2>9, <2>10, <2>11 DEF CallInv, Moves
<1> QED
  BY <1>3, <1>4, <1>5

(* The request of a plan: what it expects is what the plan was made on.    *)
LEMMA RequestOfPlan ==
  ASSUME MInv, NEW c \in Callers, HasPlan(c)
  PROVE  LET request == Request(Plan(c), call[c].how)
         IN  /\ IsDocument(request.document)
             /\ request.document = Document(Plan(c).action)
             /\ request.uid = Before(c).uid /\ request.rv = call[c].planned
             /\ request.deletes <=> Plan(c).rule = "absence"
             /\ request.dry_run = call[c].how.dry_run
<1>1. /\ call[c].planned \in 1..Now /\ Before(c) # None /\ call[c].intent \in Intents
  BY DEF MInv, CallInv, PlanStands
<1>2. Before(c) \in Content /\ Before(c).rv = call[c].planned
  BY <1>1 DEF MInv, TargetInv, TargetTypeOK, VersionsAreNumbered, Now, Before
<1>3. /\ Plan(c).uid = Before(c).uid /\ Plan(c).rv = Before(c).rv
      /\ Plan(c).action = ActionOf(call[c].intent, Before(c))
      /\ Plan(c).rule = "absence" <=> IsDestructive(Plan(c).action)
  BY PlanFacts DEF Plan, Before
<1>4. IsDocument(Document(Plan(c).action))
  BY <1>1, <1>2, <1>3, DocumentType DEF IsDocument
<1>5. Request(Plan(c), call[c].how) =
        [uid |-> Plan(c).uid, rv |-> Plan(c).rv, document |-> Document(Plan(c).action),
         propagation |-> Plan(c).action.propagation,
         deletes |-> IsDestructive(Plan(c).action),
         dry_run |-> call[c].how.dry_run, force |-> call[c].how.force]
  BY DEF Request
<1> QED
  BY <1>2, <1>3, <1>4, <1>5

(* The record of an invocation that has written.                           *)
LEMMA SentType ==
  ASSUME NEW old \in Call, NEW place \in Place, NEW outcome \in Acceptances,
         NEW written \in Nat, NEW deletion \in Deletions
  PROVE  [old EXCEPT !.pc = place, !.outcome = outcome, !.written = written,
                     !.deletion = deletion] \in Call
BY DEF Call

(* What a granted request of a plan has written, over what the plan was    *)
(* made on.                                                                *)
LEMMA WritesOver ==
  ASSUME MInv, NEW c \in Callers, HasPlan(c), Serves(Request(Plan(c), call[c].how)),
         AnswerTo(Request(Plan(c), call[c].how)).code = 200,
         SamePlan(c), call'[c].written = Len(versions')
  PROVE  WriteStands(c)'
<1> DEFINE request == Request(Plan(c), call[c].how)
<1>1. /\ IsDocument(request.document) /\ request.document = Document(Plan(c).action)
      /\ request.uid = Before(c).uid /\ request.rv = call[c].planned
      /\ request.deletes <=> Plan(c).rule = "absence"
  BY RequestOfPlan
<1>2. call[c].planned \in 1..Now /\ TargetInv /\ Now \in Nat /\ kind' = kind
  BY DEF MInv, CallInv, PlanStands, TargetInv, TargetTypeOK, Now, Serves
<1> HIDE DEF request
<1>3. Serves(request) /\ AnswerTo(request).code = 200
  BY DEF request
<1>4. Current # None /\ request.rv \in {0, Current.rv}
  BY <1>3, GrantedOf
<1>5. Current \in Content /\ Current.rv = Now
  BY <1>2, <1>4, CurrentIs
<1>6. call[c].planned = Now /\ Before(c) = Current
  BY <1>1, <1>2, <1>4, <1>5 DEF Before, Current
<1>7. /\ TargetInv' /\ Grows
      /\ \/ UNCHANGED versions
         \/ Now' = Now + 1 /\ versions'[Now + 1] = Result(request)
  BY <1>1, <1>2, <1>3, ServesGrows
<1>8. Plan(c)' = Plan(c) /\ Before(c)' = Before(c)
  BY <1>2, <1>7, PlanLater
<1>9. call'[c].planned = Now /\ call'[c].written = Now' /\ After(c)' = versions'[Now']
  BY <1>6 DEF SamePlan, After, Now
<1>10. AppliedValues(Before(c), Document(Plan(c).action))' =
         AppliedValues(Current, request.document)
  BY <1>1, <1>2, <1>6, <1>8 DEF AppliedValues, GivenUp
<1>11. CASE UNCHANGED versions
  <2>1. Now' = Now /\ After(c)' = Before(c)'
    BY <1>6, <1>8, <1>9, <1>11 DEF Now, Current
  <2> QED
    BY <1>2, <1>9, <2>1 DEF WriteStands
<1>12. CASE Now' = Now + 1 /\ versions'[Now + 1] = Result(request)
  <2>1. call'[c].written = call'[c].planned + 1 /\ call'[c].written <= Now'
        /\ After(c)' = Result(request)
    BY <1>2, <1>9, <1>12
  <2>2. CASE Plan(c).rule = "absence"
    BY <1>8, <2>1, <2>2 DEF WriteStands
  <2>3. CASE Plan(c).rule # "absence"
    <3>1. Result(request) = Applied(Current, request.document, Now + 1)
      BY <1>1, <2>3 DEF Result
    <3>2. Now + 1 \in Nat
      BY <1>2
    <3>3. \/ Result(request) = Current
          \/ Result(request).values = AppliedValues(Current, request.document)
      BY <1>1, <1>5, <3>1, <3>2, AppliedType
    <3>4. \/ After(c)' = Before(c)'
          \/ After(c)'.values = AppliedValues(Before(c), Document(Plan(c).action))'
      BY <1>6, <1>8, <1>10, <2>1, <3>3
    <3> QED
      BY <2>1, <3>4 DEF WriteStands
  <2> QED
    BY <2>2, <2>3
<1> QED
  BY <1>7, <1>11, <1>12

(* The request is answered (`Send`): what is granted was written over the  *)
(* version that was planned on.                                            *)
LEMMA SendKeeps ==
  ASSUME MInv, NEW c \in Callers, Send(c)
  PROVE  TargetInv' /\ Grows /\ Moves(c) /\ ~ Verifies(c)'
<1> DEFINE request    == Request(Plan(c), call[c].how)
           answer     == AnswerTo(request)
           acceptance == Acceptance(answer, call[c].how.dry_run)
<1>1. call \in [Callers -> Call] /\ CallInv(c) /\ call[c] \in Call /\ TargetInv
  BY DEF MInv
<1>2. /\ At(c, "sending") /\ HasPlan(c) /\ ~ Persisted(c)
      /\ call[c].outcome = "none" /\ call[c].last = None
  BY <1>1 DEF CallInv, PlaceStands, Send, Persisted, At, HasPlan
<1>3. call[c].deletion = "none"
  BY <1>1, <1>2 DEF CallInv, PlaceStands
<1>4. /\ Serves(request)
      /\ \/ /\ acceptance = "persisted"
            /\ call' = [call EXCEPT
                 ![c].pc       = "looking",
                 ![c].outcome  = acceptance,
                 ![c].written  = Len(versions'),
                 ![c].deletion = IF request.deletes THEN DeletionRead(answer) ELSE @]
         \/ acceptance # "persisted" /\ Ends(c, acceptance)
  BY DEF Send, RequiresVerification
<1>5. IsDocument(request.document) /\ (request.deletes <=> Plan(c).rule = "absence")
  BY <1>2, RequestOfPlan
<1>6. TargetInv' /\ Grows
  <2> HIDE DEF request
  <2> QED
    BY <1>1, <1>4, <1>5, ServesGrows
<1>7. CASE acceptance # "persisted"
  <2>1. acceptance \in (Acceptances \cup {"failed"}) \ {"persisted"}
    <3> HIDE DEF answer
    <3> QED
      BY <1>7 DEF Acceptance, Refusal, Acceptances
  <2>2. Ends(c, acceptance)
    BY <1>4, <1>7
  <2> HIDE DEF acceptance
  <2> QED
    BY <1>2, <1>6, <2>1, <2>2, EndsKeeps
<1>8. CASE acceptance = "persisted"
  <2> DEFINE deletion == IF request.deletes THEN DeletionRead(answer) ELSE call[c].deletion
  <2>1. answer.code = 200
    <3>1. call[c].how.dry_run \in BOOLEAN
      BY <1>1 DEF Call
    <3> HIDE DEF request
    <3> QED
      BY <1>8, <3>1, PersistedMeansGranted
  <2>2. call' = [call EXCEPT ![c].pc = "looking", ![c].outcome = "persisted",
                             ![c].written = Len(versions'), ![c].deletion = deletion]
    BY <1>1, <1>4, <1>8
  <2>3. deletion \in Deletions \ {"absent"}
    BY <1>3 DEF DeletionRead, Deletions
  <2>4. Len(versions') \in Nat
    BY <1>6 DEF Grows, Now
  <2> HIDE DEF deletion
  <2>5. call'[c] = [call[c] EXCEPT !.pc = "looking", !.outcome = "persisted",
                                   !.written = Len(versions'), !.deletion = deletion]
        /\ \A d \in Callers \ {c} : call'[d] = call[d]
    BY <1>1, <2>2
  <2>6. "looking" \in Place /\ "persisted" \in Acceptances /\ deletion \in Deletions
    BY <2>3 DEF Place, Acceptances
  <2>7. [call[c] EXCEPT !.pc = "looking", !.outcome = "persisted",
                        !.written = Len(versions'), !.deletion = deletion] \in Call
    BY <1>1, <2>4, <2>6, SentType, Zenon
  <2>8. call'[c] \in Call
    BY <2>5, <2>7, Zenon
  <2>9. call' \in [Callers -> Call]
    <3>1. call' = [call EXCEPT ![c] = call'[c]]
      BY <1>1, <2>2
    <3> QED
      BY <1>1, <2>8, <3>1
  <2>10. /\ SamePlan(c) /\ call'[c].pc = "looking" /\ call'[c].outcome = "persisted"
         /\ call'[c].written = Len(versions') /\ call'[c].deletion = deletion
         /\ call'[c].inventory = call[c].inventory /\ call'[c].last = None
    BY <1>1, <1>2, <2>5 DEF Call, SamePlan
  <2>11. WriteStands(c)'
    BY <1>2, <1>4, <2>1, <2>10, WritesOver
  <2>12. PlanStands(c)'
    BY <1>1, <1>2, <1>6, <2>10, PlanKept DEF CallInv
  <2>13. VerdictStands(c)' /\ EndStands(c)'
    BY <2>3, <2>10 DEF VerdictStands, EndStands, SaysItEnded, Says
  <2>14. PlaceStands(c)' /\ ~ Verifies(c)'
    BY <2>10 DEF PlaceStands, At, Verifies, Persisted
  <2> QED
    BY <1>6, <2>5, <2>9, <2>11, <2>12, <2>13, <2>14 DEF CallInv, Moves
<1> QED
  BY <1>7, <1>8

(* The request, or its answer, is lost (`SendLost`).                       *)
LEMMA SendLostKeeps ==
  ASSUME MInv, NEW c \in Callers, SendLost(c)
  PROVE  TargetInv' /\ Grows /\ Moves(c) /\ ~ Verifies(c)'
<1> DEFINE request == Request(Plan(c), call[c].how)
<1>1. CallInv(c) /\ TargetInv
  BY DEF MInv
<1>2. At(c, "sending") /\ HasPlan(c) /\ ~ Persisted(c)
  BY <1>1 DEF CallInv, PlaceStands, SendLost, Persisted, At, HasPlan
<1>3. (Serves(request) \/ UNCHANGED target) /\ Ends(c, "failed")
  BY DEF SendLost
<1>4. IsDocument(request.document)
  BY <1>2, RequestOfPlan
<1> HIDE DEF request
<1>5. TargetInv' /\ Grows
  BY <1>1, <1>3, <1>4, ServesGrows, TargetStands
<1>6. "failed" \in (Acceptances \cup {"failed"}) \ {"persisted"}
  OBVIOUS
<1> QED
  BY <1>2, <1>3, <1>5, <1>6, EndsKeeps

(* What the one read after a write proves.                                 *)
LEMMA LookProves ==
  ASSUME MInv, NEW c \in Callers, At(c, "looking"), NEW look \in Looks
  PROVE  LET seen == OfLook(Plan(c), look, ~ Watchable(Plan(c).rule))
         IN  /\ seen \in Verification /\ seen.reason # "target_gone"
             /\ seen.verdict = "pending" => look.is = "object" /\ Plan(c).rule # "absence"
             /\ Plan(c).rule = "absence" /\ seen.verdict = "confirmed" =>
                  \E v \in call[c].planned..Now : versions[v] = None
             /\ Plan(c).rule # "absence" =>
                  /\ seen.verdict = "confirmed" => \E v \in Since(c) : ConfirmedBy(c, versions[v])
                  /\ seen.verdict = "refuted" => \E v \in Since(c) : RefutedBy(c, versions[v])
             /\ look.is = "absent" => versions[Now] = None
<1> DEFINE expired == ~ Watchable(Plan(c).rule)
           seen    == OfLook(Plan(c), look, expired)
<1>1. /\ call \in [Callers -> Call] /\ CallInv(c) /\ TargetInv
      /\ Now \in Nat /\ Now \in 1..Now
  BY DEF MInv, TargetInv, TargetTypeOK, Now
<1>2. Persisted(c) /\ HasPlan(c)
  BY <1>1 DEF CallInv, PlaceStands, HasPlan
<1>3. /\ call[c].planned \in 1..Now /\ call[c].written <= Now /\ Before(c) # None
      /\ call[c].written \in Nat
  BY <1>1, <1>2 DEF CallInv, PlanStands, WriteStands, Call
<1>4. expired \in BOOLEAN /\ (expired <=> Plan(c).rule = "absence")
  BY DEF Watchable
<1>5. look.is \in {"object", "absent", "unobservable"}
  BY DEF Looks
<1> HIDE DEF expired
<1>6. CASE look.is = "object"
  <2> DEFINE told == OfObject(Plan(c), versions[Now], expired)
  <2>1. look.object = versions[Now] /\ versions[Now] # None
    BY <1>6 DEF Looks, Current
  <2>2. seen = told
    BY <1>6, <2>1 DEF OfLook
  <2>3. /\ told \in Verification /\ told.reason # "target_gone"
        /\ told.verdict = "pending" => ~ expired
        /\ told.verdict = "confirmed" /\ Plan(c).rule = "absence" =>
             versions[Now].uid # Before(c).uid
        /\ Now >= call[c].written /\ Plan(c).rule # "absence" =>
             /\ told.verdict = "confirmed" => Now \in Since(c) /\ ConfirmedBy(c, versions[Now])
             /\ told.verdict = "refuted" => Now \in Since(c) /\ RefutedBy(c, versions[Now])
    BY <1>1, <1>2, <1>4, <2>1, SeenIsEvidence
  <2>4. ASSUME versions[Now].uid # Before(c).uid
        PROVE  \E v \in call[c].planned..Now : versions[v] = None
    <3>1. call[c].planned < Now
      BY <1>1, <1>3, <2>4 DEF Before
    <3> QED
      BY <1>1, <1>3, <2>1, <2>4, <3>1 DEF TargetInv, LifetimesEnd, Before
  <2>5. Now >= call[c].written
    BY <1>1, <1>3
  <2> HIDE DEF told, seen
  <2> QED
    BY <1>4, <1>6, <2>2, <2>3, <2>4, <2>5 DEF seen, expired
<1>7. CASE look.is = "absent"
  <2>1. versions[Now] = None
    BY <1>7 DEF Looks, Current
  <2>2. Now \in call[c].planned..Now
    BY <1>1, <1>3
  <2>3. seen = IF Plan(c).rule = "absence" THEN Verified("confirmed", "none") ELSE Inconclusive
    BY <1>7 DEF OfLook
  <2>4. /\ seen \in Verification /\ seen.reason = "none"
        /\ seen.verdict \in {"confirmed", "inconclusive"}
        /\ seen.verdict = "confirmed" => Plan(c).rule = "absence"
    BY <2>3 DEF Verified, Inconclusive, Verification, Verdicts, Stages
  <2> HIDE DEF seen
  <2> QED
    BY <1>7, <2>1, <2>2, <2>4 DEF seen, expired
<1>8. CASE look.is = "unobservable"
  <2>1. seen = Inconclusive
    BY <1>8 DEF OfLook
  <2>2. seen \in Verification /\ seen.reason = "none" /\ seen.verdict = "inconclusive"
    BY <2>1 DEF Verified, Inconclusive, Verification, Verdicts, Stages
  <2> HIDE DEF seen
  <2> QED
    BY <1>8, <2>2 DEF seen, expired
<1> QED
  BY <1>5, <1>6, <1>7, <1>8

(* The record of an invocation that has looked.                            *)
LEMMA LookedType ==
  ASSUME NEW old \in Call, NEW place \in Place, NEW last \in Verification,
         NEW from \in Nat, NEW lagged \in BOOLEAN, NEW audited \in BOOLEAN,
         NEW deletion \in Deletions
  PROVE  [old EXCEPT !.pc = place, !.last = last, !.source = "look", !.from = from,
                     !.lagged = lagged, !.audited = audited, !.deletion = deletion] \in Call
<1>1. "look" \in Sources
  BY DEF Sources
<1> QED
  BY <1>1 DEF Call

(* The one read after the write (`Look`).                                  *)
LEMMA LookKeeps ==
  ASSUME MInv, NEW c \in Callers, Look(c)
  PROVE  /\ Moves(c) /\ SamePlan(c) /\ call'[c].written = call[c].written
         /\ Persisted(c) /\ call'[c].lagged = Behind(c)
<1>1. /\ call \in [Callers -> Call] /\ CallInv(c) /\ call[c] \in Call /\ TargetInv
      /\ Now \in Nat /\ UNCHANGED target /\ At(c, "looking")
  BY DEF MInv, TargetInv, TargetTypeOK, Now, Look
<1>2. Persisted(c) /\ HasPlan(c)
  BY <1>1 DEF CallInv, PlaceStands, HasPlan
<1>3. Grows /\ Now' = Now /\ versions' = versions
  BY <1>1, TargetStands DEF target, Now
<1>4. /\ call[c].planned \in 1..Now /\ call[c].planned \in Nat
      /\ call[c].written \in {call[c].planned, call[c].planned + 1}
      /\ call[c].written <= Now
  BY <1>1, <1>2 DEF CallInv, PlanStands, WriteStands
<1>5. PICK look \in Looks :
        LET verification == OfLook(Plan(c), look, ~ Watchable(Plan(c).rule))
        IN  call' = [call EXCEPT
             ![c].pc       = IF verification.verdict = "pending" THEN "polling" ELSE "done",
             ![c].last     = verification,
             ![c].source   = "look",
             ![c].from     = IF look.is = "object" THEN Now ELSE 0,
             ![c].lagged   = Behind(c),
             ![c].audited  = verification.verdict # "pending",
             ![c].deletion = IF @ = "none" THEN @ ELSE DeletionObserved(@, look)]
  BY Zenon DEF Look
<1> DEFINE last     == OfLook(Plan(c), look, ~ Watchable(Plan(c).rule))
           place    == IF last.verdict = "pending" THEN "polling" ELSE "done"
           from     == IF look.is = "object" THEN Now ELSE 0
           lagged   == Behind(c)
           audited  == (last.verdict # "pending")
           deletion == IF call[c].deletion = "none" THEN call[c].deletion
                       ELSE DeletionObserved(call[c].deletion, look)
<1>6. call' = [call EXCEPT ![c].pc = place, ![c].last = last, ![c].source = "look",
                           ![c].from = from, ![c].lagged = lagged, ![c].audited = audited,
                           ![c].deletion = deletion]
  BY <1>1, <1>5
<1>7. /\ last \in Verification /\ last.reason # "target_gone"
      /\ last.verdict = "pending" => look.is = "object" /\ Plan(c).rule # "absence"
      /\ Plan(c).rule = "absence" /\ last.verdict = "confirmed" =>
           \E v \in call[c].planned..Now : versions[v] = None
      /\ Plan(c).rule # "absence" =>
           /\ last.verdict = "confirmed" => \E v \in Since(c) : ConfirmedBy(c, versions[v])
           /\ last.verdict = "refuted" => \E v \in Since(c) : RefutedBy(c, versions[v])
      /\ look.is = "absent" => versions[Now] = None
  BY <1>1, LookProves
<1>8. /\ deletion \in Deletions
      /\ deletion # "none" => call[c].deletion # "none"
      /\ deletion = "absent" => call[c].deletion = "absent" \/ look.is = "absent"
  BY <1>1 DEF DeletionObserved, Deletions, Call
<1>9. lagged \in BOOLEAN /\ audited \in BOOLEAN /\ from \in Nat
  BY <1>1 DEF Behind
<1>10. place \in Place /\ place \in {"polling", "done"}
       /\ (place = "polling" => last.verdict = "pending" /\ from = Now)
  BY <1>7 DEF Place
<1> HIDE DEF last, place, from, lagged, audited, deletion
<1>11. call'[c] = [call[c] EXCEPT !.pc = place, !.last = last, !.source = "look",
                                  !.from = from, !.lagged = lagged, !.audited = audited,
                                  !.deletion = deletion]
       /\ \A d \in Callers \ {c} : call'[d] = call[d]
  BY <1>1, <1>6
<1>12. [call[c] EXCEPT !.pc = place, !.last = last, !.source = "look",
                       !.from = from, !.lagged = lagged, !.audited = audited,
                       !.deletion = deletion] \in Call
  BY <1>1, <1>7, <1>8, <1>9, <1>10, LookedType, Zenon
<1>13. call'[c] \in Call
  BY <1>11, <1>12, Zenon
<1>14. call' \in [Callers -> Call]
  <2>1. call' = [call EXCEPT ![c] = call'[c]]
    BY <1>1, <1>6
  <2> QED
    BY <1>1, <1>13, <2>1
<1>15. /\ SamePlan(c) /\ call'[c].pc = place /\ call'[c].outcome = call[c].outcome
       /\ call'[c].written = call[c].written /\ call'[c].inventory = call[c].inventory
       /\ call'[c].last = last /\ call'[c].source = "look" /\ call'[c].from = from
       /\ call'[c].deletion = deletion /\ call'[c].lagged = lagged
  BY <1>1, <1>11 DEF Call, SamePlan
<1>16. Plan(c)' = Plan(c) /\ Persisted(c)'
  BY <1>2, <1>3, <1>4, <1>15, PlanLater DEF Persisted
<1>17. PlanStands(c)'
  BY <1>1, <1>2, <1>3, <1>15, PlanKept DEF CallInv
<1>18. WriteStands(c)'
  BY <1>1, <1>2, <1>3, <1>4, <1>15, WriteKept DEF CallInv
<1>19. PlaceStands(c)'
  <2>1. Verifies(c)' => place = "polling"
    BY <1>10, <1>15 DEF Verifies
  <2>2. place = "polling" => last \in Verification /\ ~ Decided(last) /\ Plan(c).rule # "absence"
                             /\ from \in call[c].written..Now
    BY <1>1, <1>4, <1>7, <1>10 DEF Decided
  <2> QED
    BY <1>3, <1>10, <1>15, <1>16, <2>1, <2>2 DEF PlaceStands, At
<1>20. VerdictStands(c)'
  <2>1. Since(c)' = Since(c)
    BY <1>3, <1>15, <1>16 DEF Since
  <2>2. \A v : /\ ConfirmedBy(c, versions[v])' <=> ConfirmedBy(c, versions[v])
               /\ RefutedBy(c, versions[v])' <=> RefutedBy(c, versions[v])
    BY <1>3, <1>16 DEF ConfirmedBy, RefutedBy
  <2> QED
    BY <1>7, <1>15, <1>16, <2>1, <2>2 DEF VerdictStands, Says
<1>21. EndStands(c)'
  <2>1. SUFFICES ASSUME SaysItEnded(c)'
                 PROVE  \E v \in call[c].planned..Now : versions[v] = None
    BY <1>3, <1>15 DEF EndStands, SamePlan
  <2>2. \/ deletion = "absent"
        \/ Plan(c).rule = "absence" /\ last.verdict = "confirmed"
    BY <1>7, <1>15, <1>16, <2>1 DEF SaysItEnded, Says
  <2>3. CASE call[c].deletion = "absent"
    BY <1>1, <2>3 DEF CallInv, EndStands, SaysItEnded
  <2>4. CASE look.is = "absent"
    <3>1. Now \in call[c].planned..Now
      BY <1>1, <1>4
    <3> QED
      BY <1>7, <2>4, <3>1
  <2> QED
    BY <1>7, <1>8, <2>2, <2>3, <2>4
<1> QED
  BY <1>2, <1>11, <1>14, <1>15, <1>17, <1>18, <1>19, <1>20, <1>21 DEF CallInv, Moves, lagged

-----------------------------------------------------------------------------
(* The session's cache.                                                    *)

(* A cache that is left alone holds what it held as the target goes on.    *)
LEMMA SlotKept ==
  ASSUME Grows, SlotStands, slot' = slot
  PROVE  SlotStands'
<1> SUFFICES ASSUME slot # None
             PROVE  /\ slot = [stream |-> slot.stream, index |-> slot.index]
                    /\ StreamStands(slot.stream)'
  BY DEF SlotStands
<1> DEFINE s == slot.stream
<1>1. slot = [stream |-> s, index |-> slot.index] /\ StreamStands(s)
  BY DEF SlotStands
<1>2. Session!HasSynced(s)' <=> Session!HasSynced(s)
  BY DEF Session!HasSynced
<1>3. IsStream(s)' /\ s'.staging = None
  BY <1>1 DEF StreamStands, IsStream
<1>4. ASSUME Session!HasSynced(s)
      PROVE  s.checkpoint \in 1..Now' /\ s.objects = [n \in {Name} |-> ObjectAt(s.checkpoint)']
  <2>1. s.checkpoint \in 1..Now /\ s.objects = [n \in {Name} |-> ObjectAt(s.checkpoint)]
    BY <1>1, <1>4 DEF StreamStands
  <2>2. ObjectAt(s.checkpoint)' = ObjectAt(s.checkpoint)
    BY <2>1 DEF Grows, ObjectAt
  <2>3. s.checkpoint \in 1..Now'
    BY <2>1 DEF Grows
  <2> QED
    BY <2>1, <2>2, <2>3
<1> QED
  BY <1>1, <1>2, <1>3, <1>4 DEF StreamStands

(* So does what it answers to an invocation that does not write.           *)
LEMMA AnswersKept ==
  ASSUME NEW c, AnswersAfter(c), slot' = slot, Verifies(c)' => Verifies(c),
         SamePlan(c), call'[c].written = call[c].written, call'[c].lagged = call[c].lagged
  PROVE  AnswersAfter(c)'
BY DEF AnswersAfter, PastTheWrite, SamePlan, Session!HasSynced

(* The cache moves from one stream to another.                             *)
LEMMA SlotMoves ==
  ASSUME UNCHANGED versions, NEW t, NEW index, slot' = [stream |-> t, index |-> index],
         StreamStands(t)
  PROVE  SlotStands' /\ slot'.stream = t
<1>1. /\ slot'.stream = t /\ slot'.index = index
      /\ IsStream(t) /\ t.staging = None
  BY DEF StreamStands
<1>2. Session!HasSynced(slot'.stream) =>
        t.checkpoint \in 1..Now /\ t.objects = [n \in {Name} |-> ObjectAt(t.checkpoint)]
  BY <1>1 DEF StreamStands
<1>3. Now' = Now /\ \A v : ObjectAt(v)' = ObjectAt(v)
  BY DEF Now, ObjectAt
<1>4. StreamStands(slot.stream)'
  BY <1>1, <1>2, <1>3 DEF StreamStands, IsStream, Session!HasSynced
<1> QED
  BY <1>1, <1>4 DEF SlotStands

(* What a step of the feeder is to show.                                   *)
LEMMA FeederMoves ==
  ASSUME UNCHANGED << target, call >>, NEW t, NEW index,
         slot' = [stream |-> t, index |-> index], StreamStands(t),
         \A d \in Callers : Verifies(d) /\ ~ call[d].lagged => PastTheWrite(d, t)
  PROVE  SlotStands' /\ \A d \in Callers : AnswersAfter(d)'
<1>1. SlotStands' /\ slot'.stream = t
  BY SlotMoves DEF target
<1>2. \A d \in Callers : AnswersAfter(d)'
  BY <1>1 DEF AnswersAfter, PastTheWrite, Verifies, Session!HasSynced
<1> QED
  BY <1>1, <1>2

(* A reader comes (`Subscribe`).                                           *)
LEMMA SubscribeKeeps ==
  ASSUME MInv, Subscribe
  PROVE  SlotStands' /\ \A d \in Callers : AnswersAfter(d)'
<1>1. UNCHANGED << target, call >> /\ SlotStands
  BY DEF Subscribe, Feeder, MInv
<1>2. CASE slot # None
  <2>1. slot' = slot
    BY <1>2 DEF Subscribe
  <2>2. Grows
    BY <1>1, TargetStands DEF MInv
  <2>3. \A d \in Callers : AnswersAfter(d) /\ (Verifies(d)' <=> Verifies(d)) /\ SamePlan(d)
                           /\ call'[d].written = call[d].written /\ call'[d].lagged = call[d].lagged
    BY <1>1 DEF MInv, Verifies, SamePlan
  <2> QED
    BY <1>1, <2>1, <2>2, <2>3, SlotKept, AnswersKept
<1>3. CASE slot = None
  <2> DEFINE before == Session!NewWatched.stream
             t == [state          |-> "live",
                   checkpoint     |-> Now,
                   objects        |-> Snapshot,
                   segments       |-> Append(Session!CloseOpenSegment(before),
                                             [started_at |-> Now, closed_at |-> None,
                                              changes |-> << >>, trimmed |-> 0]),
                   gaps           |-> Session!GapsAfterListing(before, Now),
                   trim_gap       |-> None,
                   pending_writes |-> {},
                   staging        |-> None]
  <2>1. slot' = [stream |-> t, index |-> Session!Rebuilt(Snapshot)]
    BY <1>3 DEF Subscribe, Session!Synchronised, Session!Listed, Session!EntryFor
  <2>2. t.checkpoint = Now /\ t.objects = Snapshot /\ t.staging = None
    OBVIOUS
  <2>3. IsStream(t)
    BY DEF IsStream
  <2> HIDE DEF t
  <2>4. Snapshot = [n \in {Name} |-> ObjectAt(Now)]
    BY DEF Snapshot, ObjectAt, Current
  <2>5. Now \in 1..Now
    BY DEF MInv, TargetInv, TargetTypeOK, Now
  <2>6. StreamStands(t)
    BY <2>2, <2>3, <2>4, <2>5 DEF StreamStands
  <2>7. \A d \in Callers : Verifies(d) => PastTheWrite(d, t)
    <3> SUFFICES ASSUME NEW d \in Callers, Verifies(d) PROVE t.checkpoint >= call[d].written
      BY DEF PastTheWrite
    <3>1. call[d].written \in call[d].planned..Now /\ call[d].planned \in 1..Now
      BY VerifyingFacts
    <3> QED
      BY <2>2, <2>5, <3>1
  <2> QED
    BY <1>1, <2>1, <2>6, <2>7, FeederMoves
<1> QED
  BY <1>2, <1>3

(* What a change makes of a live stream, whatever it makes of its records. *)
LEMMA RecordIs ==
  ASSUME NEW s, IsStream(s), s.state = "live", s.staging = None, NEW class, NEW object
  PROVE  LET t == Session!Record(s, class, Name, object)
         IN  /\ IsStream(t) /\ t.checkpoint = object.rv /\ t.staging = None
             /\ t.pending_writes = s.pending_writes \ {Name}
             /\ t.objects = [s.objects EXCEPT ![Name] = IF class = "deleted" THEN None ELSE object]
<1> DEFINE n      == Len(s.segments)
           change == [class |-> class, key |-> Name, uid |-> object.uid, rv |-> object.rv]
           pushed == Session!Push(s.segments[n], change)
           trims  == n > 0 /\ Session!LogFull(s.segments[n])
           next   == [s EXCEPT !.checkpoint     = object.rv,
                               !.objects[Name]  = IF class = "deleted" THEN None ELSE object,
                               !.pending_writes = @ \ {Name}]
           segments == IF n > 0 THEN [s.segments EXCEPT ![n] = pushed] ELSE s.segments
           gaps     == IF trims THEN Session!RecordTrim(s.gaps, s.trim_gap, pushed) ELSE s.gaps
           trim_gap == IF trims /\ (s.trim_gap = None \/ s.trim_gap \notin 1..Len(s.gaps))
                       THEN Len(s.gaps) + 1 ELSE s.trim_gap
           told     == [next EXCEPT !.segments = segments, !.gaps = gaps, !.trim_gap = trim_gap]
           t        == Session!Record(s, class, Name, object)
<1>1. t = IF s.state # "live" THEN s ELSE told
  BY Zenon DEF Session!Record
<1> HIDE DEF segments, gaps, trim_gap, t
<1>2. t = told
  BY <1>1
<1>3. IsStream(t) /\ t.staging = None
  BY <1>2 DEF IsStream
<1>4. t.checkpoint = object.rv /\ t.pending_writes = s.pending_writes \ {Name}
  BY <1>2 DEF IsStream
<1>5. t.objects = [s.objects EXCEPT ![Name] = IF class = "deleted" THEN None ELSE object]
  BY <1>2 DEF IsStream
<1> QED
  BY <1>3, <1>4, <1>5 DEF t

(* What a stream that has lost its place is.                               *)
LEMMA BrokenIs ==
  ASSUME NEW s, IsStream(s), s.state \notin {"gap_detected", "denied"}, NEW reason
  PROVE  LET t == Session!BreakContinuity(s, reason, "gap_detected")
         IN  IsStream(t) /\ t.staging = None /\ t.state = "gap_detected"
<1> DEFINE segments == Session!CloseOpenSegment(s)
           ended    == [s EXCEPT !.staging = None, !.segments = segments]
           gaps     == Append(ended.gaps, Session!Gap(reason, s.checkpoint, None))
           t        == Session!BreakContinuity(s, reason, "gap_detected")
<1>1. t = IF s.state \in {"gap_detected", "denied"} THEN [s EXCEPT !.staging = None]
          ELSE [ended EXCEPT !.gaps = gaps, !.checkpoint = None, !.trim_gap = None,
                             !.state = "gap_detected"]
  BY Zenon DEF Session!BreakContinuity
<1> HIDE DEF segments, gaps, t
<1>2. IsStream(t) /\ t.staging = None /\ t.state = "gap_detected"
  BY <1>1 DEF IsStream
<1> QED
  BY <1>2 DEF t

(* The next change of the target brings the cache to the version of it.    *)
LEMMA FeedKeeps ==
  ASSUME MInv, Feed
  PROVE  SlotStands' /\ \A d \in Callers : AnswersAfter(d)'
<1> DEFINE s == slot.stream
           v == s.checkpoint + 1
           e == EventOf(v)
           t == Session!Observe(s, e)
<1>1. UNCHANGED << target, call >> /\ slot # None /\ s.state = "live" /\ s.checkpoint < Now
  BY DEF Feed, Feeder
<1>2. /\ slot = [stream |-> s, index |-> slot.index] /\ IsStream(s) /\ s.staging = None
      /\ s.checkpoint \in 1..Now /\ s.objects = [n \in {Name} |-> ObjectAt(s.checkpoint)]
  BY <1>1 DEF MInv, SlotStands, StreamStands, Session!HasSynced
<1>3. Now \in Nat /\ v \in 1..Now
  BY <1>1, <1>2 DEF MInv, TargetInv, TargetTypeOK, Now
<1>4. PICK index : slot' = [stream |-> t, index |-> index]
  BY <1>1 DEF Feed, Session!ObserveEvent, Session!EntryFor
<1> HIDE DEF v
<1>5. /\ e.type = "change" /\ e.key = Name /\ e.object.rv = v
      /\ e.class = "deleted" <=> versions[v] = None
      /\ versions[v] # None => e.object = [uid |-> versions[v].uid, rv |-> v]
  BY DEF EventOf, Session!Change
<1> HIDE DEF e
<1>6. t = Session!Record(s, e.class, e.key, e.object)
  BY <1>2, <1>5 DEF Session!Observe, Session!Stages
<1> HIDE DEF s, t
<1>8. /\ IsStream(t) /\ t.checkpoint = v /\ t.staging = None
      /\ t.pending_writes = s.pending_writes \ {Name}
      /\ t.objects = [s.objects EXCEPT ![Name] = IF e.class = "deleted" THEN None ELSE e.object]
  BY <1>1, <1>2, <1>5, <1>6, RecordIs
<1>9. t.objects = [n \in {Name} |-> ObjectAt(v)]
  BY <1>2, <1>5, <1>8 DEF ObjectAt
<1>10. StreamStands(t)
  BY <1>3, <1>8, <1>9 DEF StreamStands
<1>11. ASSUME NEW d \in Callers, Verifies(d), ~ call[d].lagged
       PROVE  PastTheWrite(d, t)
  <2>1. /\ call[d].planned \in 1..Now /\ call[d].written \in call[d].planned..Now
        /\ CallInv(d) /\ HasPlan(d)
    BY <1>11, VerifyingFacts
  <2>2. call[d].written \in {call[d].planned, call[d].planned + 1}
    BY <1>11, <2>1 DEF CallInv, WriteStands, PlaceStands
  <2>3. s.checkpoint >= call[d].written \/ s.checkpoint >= call[d].planned
    BY <1>1, <1>11 DEF MInv, AnswersAfter, PastTheWrite, Session!HasSynced, s
  <2>4. v >= call[d].written
    BY <1>2, <1>3, <2>1, <2>2, <2>3 DEF v
  <2> QED
    BY <1>8, <2>4 DEF PastTheWrite
<1> QED
  BY <1>1, <1>4, <1>10, <1>11, FeederMoves

(* The cache stays where it was, with another state of its stream.         *)
LEMMA StateMoves ==
  ASSUME MInv, slot # None, Session!HasSynced(slot.stream), UNCHANGED << target, call >>,
         NEW state, NEW index,
         slot' = [stream |-> [slot.stream EXCEPT !.state = state], index |-> index]
  PROVE  SlotStands' /\ \A d \in Callers : AnswersAfter(d)'
<1> DEFINE s == slot.stream
           t == [s EXCEPT !.state = state]
<1>1. /\ IsStream(s) /\ s.staging = None
      /\ s.checkpoint \in 1..Now /\ s.objects = [n \in {Name} |-> ObjectAt(s.checkpoint)]
  BY DEF MInv, SlotStands, StreamStands
<1>2. \A d \in Callers : Verifies(d) /\ ~ call[d].lagged => PastTheWrite(d, s)
  BY DEF MInv, AnswersAfter
<1>3. Session!HasSynced(s)
  OBVIOUS
<1> HIDE DEF s
<1>4. /\ IsStream(t) /\ t.staging = None /\ t.checkpoint = s.checkpoint
      /\ t.objects = s.objects /\ t.pending_writes = s.pending_writes
  BY <1>1 DEF IsStream
<1>5. slot' = [stream |-> t, index |-> index]
  BY DEF s
<1> HIDE DEF t
<1>6. StreamStands(t)
  BY <1>1, <1>4 DEF StreamStands
<1>7. \A d \in Callers : Verifies(d) /\ ~ call[d].lagged => PastTheWrite(d, t)
  BY <1>2, <1>3, <1>4 DEF PastTheWrite
<1> QED
  BY <1>5, <1>6, <1>7, FeederMoves

(* The session's watch is interrupted (`Interrupt`).                       *)
LEMMA InterruptKeeps ==
  ASSUME MInv, Interrupt
  PROVE  SlotStands' /\ \A d \in Callers : AnswersAfter(d)'
<1>1. UNCHANGED << target, call >> /\ slot # None /\ slot.stream.state = "live"
  BY DEF Interrupt, Feeder, Live, Session!AbsenceIsConclusive
<1>2. PICK index :
        slot' = [stream |-> Session!Observe(slot.stream, Session!Error("interrupted")),
                 index |-> index]
  BY <1>1 DEF Interrupt, Session!ObserveEvent, Session!EntryFor
<1>3. Session!Observe(slot.stream, Session!Error("interrupted")) =
        [slot.stream EXCEPT !.state = "reconnecting"]
  BY <1>1 DEF Session!Observe, Session!Error, Session!Fail
<1>4. Session!HasSynced(slot.stream)
  BY <1>1 DEF Session!HasSynced
<1> QED
  BY <1>1, <1>2, <1>3, <1>4, StateMoves

(* It resumes where it was, or has lost its place (`Resume`).              *)
LEMMA ResumeKeeps ==
  ASSUME MInv, Resume
  PROVE  SlotStands' /\ \A d \in Callers : AnswersAfter(d)'
<1> DEFINE s == slot.stream
<1>1. UNCHANGED << target, call >> /\ slot # None /\ s.state = "reconnecting"
  BY DEF Resume, Feeder
<1>2. /\ slot = [stream |-> s, index |-> slot.index] /\ IsStream(s) /\ s.staging = None
      /\ s.checkpoint \in 1..Now /\ Session!HasSynced(s)
  BY <1>1 DEF MInv, SlotStands, StreamStands, Session!HasSynced
<1>3. CASE slot' = Session!OnStream(slot, Session!Reconnected(s))
  <2>1. s.checkpoint # None
    BY <1>2, CacheAssumption
  <2>2. Session!Reconnected(s) = [s EXCEPT !.state = "live"]
    BY <1>1, <2>1 DEF Session!Reconnected, Session!CanReconnect
  <2>3. slot' = [stream |-> [s EXCEPT !.state = "live"], index |-> slot.index]
    <3>1. slot' = [slot EXCEPT !.stream = [s EXCEPT !.state = "live"]]
      BY <1>1, <1>3, <2>2 DEF Session!OnStream, Session!EntryFor
    <3> QED
      BY <1>2, <3>1
  <2> QED
    BY <1>1, <1>2, <2>3, StateMoves
<1>4. CASE slot' = Session!ObserveEvent(slot, Session!Error("expired"))
  <2> DEFINE t == Session!Observe(s, Session!Error("expired"))
  <2>1. PICK index : slot' = [stream |-> t, index |-> index]
    BY <1>1, <1>4 DEF Session!ObserveEvent, Session!EntryFor
  <2>2. t = Session!BreakContinuity(s, "expired", "gap_detected")
    BY DEF Session!Observe, Session!Error, Session!Fail
  <2> HIDE DEF t
  <2>4. IsStream(t) /\ t.staging = None /\ ~ Session!HasSynced(t)
    BY <1>1, <1>2, <2>2, BrokenIs DEF Session!HasSynced
  <2>5. StreamStands(t) /\ \A d \in Callers : PastTheWrite(d, t)
    BY <2>4 DEF StreamStands, PastTheWrite
  <2> QED
    BY <1>1, <2>1, <2>5, FeederMoves
<1> QED
  BY <1>3, <1>4 DEF Resume

(* The reader leaves (`CloseView`).                                        *)
LEMMA CloseViewKeeps ==
  ASSUME MInv, CloseView
  PROVE  SlotStands' /\ \A d \in Callers : AnswersAfter(d)'
<1>1. UNCHANGED << target, call >> /\ slot' \in {slot, None}
  BY DEF CloseView, Feeder, Session!ViewClosed
<1>2. CASE slot' = None
  BY <1>2 DEF SlotStands, AnswersAfter
<1>3. CASE slot' = slot
  <2>1. Grows
    BY <1>1, TargetStands DEF MInv
  <2>2. \A d \in Callers : AnswersAfter(d) /\ (Verifies(d)' <=> Verifies(d)) /\ SamePlan(d)
                           /\ call'[d].written = call[d].written /\ call'[d].lagged = call[d].lagged
    BY <1>1 DEF MInv, Verifies, SamePlan
  <2> QED
    BY <1>3, <2>1, <2>2, SlotKept, AnswersKept DEF MInv
<1> QED
  BY <1>1, <1>2, <1>3

(* After the one read the target is quarantined, or its cache dropped.     *)
LEMMA LookQuarantines ==
  ASSUME MInv, NEW c \in Callers, Look(c)
  PROVE  SlotStands' /\ \A d \in Callers : AnswersAfter(d)'
<1> DEFINE s == slot.stream
           t == [s EXCEPT !.pending_writes = @ \cup {Name}]
<1>1. UNCHANGED target /\ slot' = Session!Mutated(slot, Name) /\ At(c, "looking")
  BY DEF Look
<1>2. /\ Moves(c) /\ SamePlan(c) /\ call'[c].written = call[c].written
      /\ Persisted(c) /\ call'[c].lagged = Behind(c)
  BY LookKeeps
<1>3. CASE slot' = None
  BY <1>3 DEF SlotStands, AnswersAfter
<1>4. CASE slot' # None
  <2>1. slot # None /\ s.state = "live"
    BY <1>1, <1>4 DEF Session!Mutated, Session!AbsenceIsConclusive
  <2>2. PICK index : slot' = [stream |-> t, index |-> index]
    BY <1>1, <2>1 DEF Session!Mutated, Session!AbsenceIsConclusive, Session!Written
  <2>3. /\ IsStream(s) /\ s.staging = None /\ Session!HasSynced(s)
        /\ s.checkpoint \in 1..Now /\ s.objects = [n \in {Name} |-> ObjectAt(s.checkpoint)]
    BY <2>1 DEF MInv, SlotStands, StreamStands, Session!HasSynced
  <2> HIDE DEF s
  <2>4. /\ IsStream(t) /\ t.staging = None /\ t.checkpoint = s.checkpoint
        /\ t.objects = s.objects /\ t.pending_writes = s.pending_writes \cup {Name}
    BY <2>3 DEF IsStream
  <2> HIDE DEF t
  <2>5. StreamStands(t)
    BY <2>3, <2>4 DEF StreamStands
  <2>6. SlotStands' /\ slot'.stream = t
    BY <1>1, <2>2, <2>5, SlotMoves DEF target
  <2>7. ASSUME NEW d \in Callers PROVE AnswersAfter(d)'
    <3>1. SUFFICES ASSUME Verifies(d)', ~ call'[d].lagged
                   PROVE  \/ t.checkpoint >= call'[d].written
                          \/ t.checkpoint >= call'[d].planned /\ Name \in t.pending_writes
      BY <2>6 DEF AnswersAfter, PastTheWrite
    <3>2. CASE d = c
      <4>1. ~ Behind(c)
        BY <1>2, <3>1, <3>2
      <4>2. s.checkpoint # None
        BY <2>3, CacheAssumption
      <4>3. ~ (s.checkpoint < call[c].planned)
        BY <2>1, <4>1, <4>2 DEF Behind, s
      <4>4. s.checkpoint \in Nat /\ call[c].planned \in Nat
        BY <2>3 DEF MInv, Call
      <4>5. s.checkpoint >= call[c].planned
        BY <4>3, <4>4
      <4> QED
        BY <1>2, <2>4, <3>2, <4>5 DEF SamePlan
    <3>3. CASE d # c
      <4>1. call'[d] = call[d]
        BY <1>2, <3>3 DEF Moves
      <4>2. Verifies(d) /\ ~ call[d].lagged
        BY <3>1, <4>1 DEF Verifies
      <4>3. PastTheWrite(d, s)
        BY <2>1, <4>2 DEF MInv, AnswersAfter, s
      <4> QED
        BY <2>3, <2>4, <4>1, <4>3 DEF PastTheWrite
    <3> QED
      BY <3>2, <3>3
  <2> QED
    BY <2>6, <2>7
<1> QED
  BY <1>3, <1>4

-----------------------------------------------------------------------------
(* Every step.                                                             *)

(* A step that is not the cache's leaves what it answers.                  *)
LEMMA CacheKept ==
  ASSUME MInv, NEW c \in Callers, Grows, slot' = slot, Moves(c),
         Verifies(c)' => Verifies(c) /\ SamePlan(c) /\ SameWrite(c)
  PROVE  SlotStands' /\ \A d \in Callers : AnswersAfter(d)'
<1>1. SlotStands'
  BY SlotKept DEF MInv
<1>2. ASSUME NEW d \in Callers PROVE AnswersAfter(d)'
  <2>1. AnswersAfter(d)
    BY DEF MInv
  <2>2. CASE d # c
    <3>1. call'[d] = call[d]
      BY <2>2 DEF Moves
    <3> QED
      BY <2>1, <3>1, AnswersKept DEF Verifies, SamePlan
  <2>3. CASE d = c /\ Verifies(c)'
    BY <2>1, <2>3, AnswersKept DEF SameWrite
  <2>4. CASE d = c /\ ~ Verifies(c)'
    BY <2>4 DEF AnswersAfter
  <2> QED
    BY <2>2, <2>3, <2>4
<1> QED
  BY <1>1, <1>2

(* A step of one invocation leaves the others right.                       *)
LEMMA MovesInvariant ==
  ASSUME MInv, NEW c \in Callers, TargetInv', Grows, Moves(c),
         SlotStands', \A d \in Callers : AnswersAfter(d)'
  PROVE  MInv'
<1>1. ASSUME NEW d \in Callers PROVE CallInv(d)'
  <2>1. CASE d = c
    BY <2>1 DEF Moves
  <2>2. CASE d # c
    BY <2>2, CallKept DEF MInv, Moves
  <2> QED
    BY <2>1, <2>2
<1> QED
  BY <1>1 DEF MInv, Moves

(* Each step of an invocation.                                             *)
LEMMA CallerStepKeeps ==
  ASSUME MInv, NEW c \in Callers, CallerStep(c)
  PROVE  MInv'
<1>1. CASE Start(c) \/ StartRefused(c) \/ Permit(c)
  <2>1. Moves(c) /\ ~ Verifies(c)'
    BY <1>1, StartKeeps, StartRefusedKeeps, PermitKeeps
  <2>2. UNCHANGED target /\ slot' = slot
    BY <1>1 DEF Start, StartRefused, Permit
  <2>3. TargetInv' /\ Grows
    BY <2>2, TargetStands DEF MInv
  <2>4. SlotStands' /\ \A d \in Callers : AnswersAfter(d)'
    BY <2>1, <2>2, <2>3, CacheKept
  <2> QED
    BY <2>1, <2>3, <2>4, MovesInvariant
<1>2. CASE Send(c) \/ SendLost(c)
  <2>1. TargetInv' /\ Grows /\ Moves(c) /\ ~ Verifies(c)'
    BY <1>2, SendKeeps, SendLostKeeps
  <2>2. slot' = slot
    BY <1>2 DEF Send, SendLost
  <2>3. SlotStands' /\ \A d \in Callers : AnswersAfter(d)'
    BY <2>1, <2>2, CacheKept
  <2> QED
    BY <2>1, <2>3, MovesInvariant
<1>3. CASE Look(c)
  <2>1. TargetInv' /\ Grows
    BY <1>3, TargetStands DEF MInv, Look
  <2>2. Moves(c)
    BY <1>3, LookKeeps
  <2>3. SlotStands' /\ \A d \in Callers : AnswersAfter(d)'
    BY <1>3, LookQuarantines
  <2> QED
    BY <2>1, <2>2, <2>3, MovesInvariant
<1>4. CASE \/ WindowEnds(c) \/ Poll(c) \/ Expire(c) \/ OpenWatch(c) \/ Receive(c)
           \/ Reopen(c) \/ BreakWatch(c) \/ Cancel(c)
  <2>1. Keeps(c)
    BY <1>4, WindowEndsKeeps, PollKeeps, ExpireKeeps, OpenWatchKeeps, ReceiveKeeps,
       ReopenKeeps, BreakWatchKeeps, CancelKeeps
  <2>2. UNCHANGED target /\ slot' = slot
    BY <1>4 DEF WindowEnds, Poll, Expire, OpenWatch, Receive, Reopen, BreakWatch, Cancel
  <2>3. TargetInv' /\ Grows
    BY <2>2, TargetStands DEF MInv
  <2>4. Moves(c) /\ Verifies(c) /\ SamePlan(c) /\ SameWrite(c)
    BY <2>1 DEF Keeps, Moves
  <2>5. SlotStands' /\ \A d \in Callers : AnswersAfter(d)'
    BY <2>2, <2>3, <2>4, CacheKept
  <2> QED
    BY <2>3, <2>4, <2>5, MovesInvariant
<1> QED
  BY <1>1, <1>2, <1>3, <1>4 DEF CallerStep

(* The invariant holds at first.                                           *)
LEMMA InitInv == Init => MInv
<1> SUFFICES ASSUME Init PROVE MInv
  OBVIOUS
<1>1. /\ kind \in StartKinds /\ slot = None /\ call = [c \in Callers |-> NoCall]
      /\ autoscaler \in BOOLEAN
  <2>1. /\ kind \in StartKinds /\ slot = None /\ call = [c \in Callers |-> NoCall]
        /\ autoscaler \in (IF kind = "Deployment" THEN Autoscaled ELSE {FALSE})
    BY Zenon DEF Init, TargetInit
  <2>2. Autoscaled \subseteq BOOLEAN
    BY TargetAssumption
  <2>3. CASE kind = "Deployment"
    BY <2>1, <2>2, <2>3
  <2>4. CASE kind # "Deployment"
    BY <2>1, <2>4
  <2> QED
    BY <2>1, <2>3, <2>4
<1>2. PICK finalizers \in Finalized, mine \in SUBSET Ours :
        versions = << [Created(kind, NewValues(kind), 1) EXCEPT
                         !.finalizers = finalizers,
                         !.owners = [f \in Fields |->
                           IF f \in mine /\ @[f] # {} THEN {"ono-sendai"} ELSE @[f]]] >>
  BY Zenon DEF Init, TargetInit
<1> DEFINE created == Created(kind, NewValues(kind), 1)
           owners  == [f \in Fields |-> IF f \in mine /\ created.owners[f] # {}
                                        THEN {"ono-sendai"} ELSE created.owners[f]]
           first   == [created EXCEPT !.finalizers = finalizers, !.owners = owners]
<1>3. kind \in Kinds /\ finalizers \in BOOLEAN
  BY <1>1, MutatingAssumption, TargetAssumption
<1>4. created \in Content /\ created.rv = 1
  BY <1>3, CreatedType, NewValuesType
<1> HIDE DEF created
<1>5. owners \in [Fields -> SUBSET Managers]
  BY <1>4 DEF Content, Managers
<1>6. versions = << first >>
  BY <1>2, <1>4 DEF created, Content
<1> HIDE DEF owners
<1>7. first \in Content /\ first.rv = 1
  BY <1>3, <1>4, <1>5 DEF Content
<1> HIDE DEF first
<1>8. Now = 1 /\ versions[1] = first /\ versions[1] # None
  BY <1>6, <1>7, ContentAssumption DEF Now
<1>9. TargetInv
  <2>1. TargetTypeOK
    BY <1>1, <1>3, <1>6, <1>7 DEF TargetTypeOK
  <2>2. \A v \in 1..Now : v = 1
    BY <1>8
  <2> QED
    BY <1>7, <1>8, <2>1, <2>2
       DEF TargetInv, VersionsAreNumbered, LifetimesEnd, NoneIsGone
<1>10. call \in [Callers -> Call]
  <2>1. NoCall \in Call
    BY DEF NoCall, Unasked, Call, Place, Deletions, Sources
  <2> QED
    BY <1>1, <2>1
<1>11. ASSUME NEW c \in Callers PROVE CallInv(c) /\ AnswersAfter(c)
  <2>1. call[c] = NoCall
    BY <1>1
  <2>2. /\ call[c].pc = "idle" /\ call[c].outcome = "none" /\ call[c].deletion = "none"
        /\ call[c].last = None
    BY <2>1 DEF NoCall
  <2>3. ~ HasPlan(c) /\ ~ Persisted(c) /\ ~ Verifies(c)
    BY <2>2 DEF HasPlan, Persisted, Verifies
  <2>4. PlanStands(c) /\ WriteStands(c) /\ VerdictStands(c) /\ EndStands(c)
    BY <2>2, <2>3 DEF PlanStands, WriteStands, VerdictStands, EndStands, SaysItEnded
  <2>5. PlaceStands(c) /\ AnswersAfter(c)
    BY <2>1, <2>2, <2>3 DEF PlaceStands, AnswersAfter, At
  <2> QED
    BY <2>4, <2>5 DEF CallInv
<1> QED
  BY <1>1, <1>9, <1>10, <1>11 DEF MInv, SlotStands

(* Every step preserves it.                                                *)
LEMMA StepInv == MInv /\ [Next]_vars => MInv'
<1> SUFFICES ASSUME MInv, [Next]_vars PROVE MInv'
  OBVIOUS
<1>1. ASSUME TargetInv', Grows, call' = call, SlotStands', \A d \in Callers : AnswersAfter(d)'
      PROVE  MInv'
  <2>1. ASSUME NEW d \in Callers PROVE CallInv(d)'
    BY <1>1, CallKept DEF MInv
  <2> QED
    BY <1>1, <2>1 DEF MInv
<1>2. ASSUME TargetInv', Grows, call' = call, slot' = slot
      PROVE  MInv'
  <2>1. SlotStands'
    BY <1>2, SlotKept DEF MInv
  <2>2. ASSUME NEW d \in Callers PROVE AnswersAfter(d)'
    BY <1>2, AnswersKept DEF MInv, Verifies, SamePlan
  <2> QED
    BY <1>1, <1>2, <2>1, <2>2
<1>3. CASE TargetStep
  <2>1. TargetInv' /\ Grows
    BY <1>3, TargetSteps DEF MInv, TargetStep
  <2> QED
    BY <1>2, <1>3, <2>1 DEF TargetStep
<1>4. CASE FeederStep
  <2>1. UNCHANGED << target, call >>
    BY <1>4 DEF FeederStep, Subscribe, Feed, Interrupt, Resume, CloseView, Feeder
  <2>2. TargetInv' /\ Grows
    BY <2>1, TargetStands DEF MInv
  <2>3. SlotStands' /\ \A d \in Callers : AnswersAfter(d)'
    BY <1>4, SubscribeKeeps, FeedKeeps, InterruptKeeps, ResumeKeeps, CloseViewKeeps
       DEF FeederStep
  <2> QED
    BY <1>1, <2>1, <2>2, <2>3
<1>5. ASSUME NEW c \in Callers, CallerStep(c) PROVE MInv'
  BY <1>5, CallerStepKeeps
<1>6. CASE UNCHANGED vars
  <2>1. TargetInv' /\ Grows /\ call' = call /\ slot' = slot
    BY <1>6, TargetStands DEF MInv, vars
  <2> QED
    BY <1>2, <2>1
<1> QED
  BY <1>3, <1>4, <1>5, <1>6 DEF Next

(* The inductive invariant: what every invocation knows of its plan, of    *)
(* its write and of what has been seen is so, and what the session's cache *)
(* answers to it is of the write or later.                                 *)
THEOREM MutatingInvariant == Spec => []MInv
BY InitInv, StepInv, PTL DEF Spec

(* Gates G and H: what a caller is told at the end of a change is what     *)
(* became of it (`verify`, `converge`, `of_object`).                       *)
THEOREM VerdictsHold == Spec => []VerdictsAreTrue
<1>1. MInv => VerdictsAreTrue
  <2> SUFFICES ASSUME MInv PROVE VerdictIsOfTheWrite /\ AbsenceIsTheEnd
    BY DEF VerdictsAreTrue
  <2>1. VerdictIsOfTheWrite
    <3> SUFFICES ASSUME NEW c \in Callers, Persisted(c), Plan(c).rule # "absence", Sound(c)
                 PROVE  /\ Says(c, "confirmed") =>
                             \E v \in Since(c) :
                               /\ Met(Plan(c), versions[v])
                               /\ EstablishedStage(Plan(c).rule) = "status_converged"
                                    => IsConverged(versions[v])
                        /\ Says(c, "refuted") =>
                             \E v \in Since(c) : Met(Plan(c), versions[v]) /\ HasFailed(versions[v])
      BY DEF VerdictIsOfTheWrite
    <3>1. VerdictStands(c)
      BY DEF MInv, CallInv
    <3> QED
      BY <3>1 DEF VerdictStands, ConfirmedBy, RefutedBy
  <2>2. AbsenceIsTheEnd
    BY DEF AbsenceIsTheEnd, MInv, CallInv, EndStands, SaysItEnded
  <2> QED
    BY <2>1, <2>2
<1> QED
  BY <1>1, MutatingInvariant, PTL

-----------------------------------------------------------------------------
(* What a write does was in its plan.                                      *)

(* What is known of an invocation that has made its change.                *)
LEMMA ChangesFacts ==
  ASSUME MInv, NEW c \in Callers, Changes(c)
  PROVE  /\ call[c].planned \in 1..Now /\ call[c].intent \in Intents
         /\ Before(c) \in Content /\ Before(c).rv = call[c].planned
         /\ Plan(c).uid = Before(c).uid /\ Plan(c).rv = Before(c).rv
         /\ Plan(c).action = ActionOf(call[c].intent, Before(c))
         /\ ~ IsDestructive(Plan(c).action)
         /\ call[c].written \in {call[c].planned, call[c].planned + 1}
         /\ \/ After(c) = Before(c)
            \/ After(c).values = AppliedValues(Before(c), Document(Plan(c).action))
         /\ call[c].inventory \in Inventories(Plan(c).action)
<1>1. Persisted(c) /\ HasPlan(c) /\ Plan(c).rule # "absence" /\ CallInv(c) /\ TargetInv
  BY DEF MInv, Changes, HasPlan
<1>2. /\ call[c].planned \in 1..Now /\ Before(c) # None /\ call[c].intent \in Intents
      /\ call[c].inventory \in Inventories(Plan(c).action)
  BY <1>1 DEF CallInv, PlanStands
<1>3. Before(c) \in Content /\ Before(c).rv = call[c].planned
  BY <1>1, <1>2 DEF TargetInv, TargetTypeOK, VersionsAreNumbered, Now, Before
<1>4. /\ Plan(c).uid = Before(c).uid /\ Plan(c).rv = Before(c).rv
      /\ Plan(c).action = ActionOf(call[c].intent, Before(c))
      /\ Plan(c).rule = "absence" <=> IsDestructive(Plan(c).action)
  BY PlanFacts DEF Plan, Before
<1> QED
  BY <1>1, <1>2, <1>3, <1>4 DEF CallInv, WriteStands

(* A field that a write changed is one that only this package held and     *)
(* gave up, or one that the plan changes, from what it was to what it is.  *)
LEMMA FieldsWritten ==
  ASSUME MInv, NEW c \in Callers, Changes(c), NEW f \in Fields,
         After(c).values[f] # Before(c).values[f], f \notin GivesUp(c)
  PROVE  \E change \in Plan(c).action.changes :
           /\ change.path = f /\ change.to = After(c).values[f] /\ change.to # 0
           /\ change.from = Before(c).values[f]
           /\ change.to \in Nat /\ change.from \in Nat
<1> DEFINE action == Plan(c).action
           document == Document(action)
<1>1. /\ call[c].intent \in Intents /\ Before(c) \in Content
      /\ action = ActionOf(call[c].intent, Before(c))
      /\ After(c) = Before(c) \/ After(c).values = AppliedValues(Before(c), document)
  BY ChangesFacts
<1>2. After(c).values[f] = CASE f \in DOMAIN document -> document[f]
                             [] f \in GivenUp(Before(c), document) -> Default(kind, f)
                             [] OTHER -> Before(c).values[f]
  BY <1>1 DEF AppliedValues
<1>3. f \notin GivenUp(Before(c), document)
  BY DEF GivesUp
<1> HIDE DEF document
<1>4. f \in DOMAIN document /\ After(c).values[f] = document[f]
  BY <1>2, <1>3
<1>5. PICK change \in action.changes :
        change.path = f /\ change.to = document[f] /\ change.to # 0
  BY <1>4, DocumentIsSet DEF document
<1>6. change.from = Before(c).values[f] /\ change.to \in Value
  BY <1>1, <1>5, ChangesAreOfFields
<1>7. Before(c).values[f] \in Nat
  BY <1>1 DEF Content, Value
<1> QED
  BY <1>4, <1>5, <1>6, <1>7 DEF Value

(* Which effects a plan that promises nothing back names.                  *)
LEMMA EffectsNamed ==
  ASSUME NEW k, NEW action, ~ IsDestructive(action), NEW change \in action.changes
  PROVE  LET all     == EffectsOf(k, action)
             effects == all \ Restores(all)
         IN  /\ IsScaleDown(change) => "pods_stopped" \in effects
             /\ change.path \in TemplateFields => "pods_replaced" \in effects
<1> DEFINE all == EffectsOf(k, action)
<1>1. all = ApplyEffects(action)
  BY DEF EffectsOf
<1>2. /\ IsScaleDown(change) => "pods_stopped" \in all
      /\ change.path \in TemplateFields => "pods_replaced" \in all
  BY <1>1 DEF ApplyEffects
<1> HIDE DEF all
<1>3. {"pods_stopped", "pods_replaced"} \cap Restores(all) = {}
  BY DEF Restores, Reversibility
<1> QED
  BY <1>2, <1>3 DEF all

(* §46.2, §56: what a write does was in its plan: the fields it changes,   *)
(* the Pods it stops or replaces, and the autoscaler that will undo it     *)
(* unless it was on a later page than the one that is read                 *)
(* (`apply_request`, `Plan::build`, `autoscalers_targeting`).              *)
THEOREM Foretold == Spec => []WhatHappensWasForetold
<1>1. MInv => ChangesAreForetold
  <2> SUFFICES ASSUME MInv, NEW c \in Callers, Changes(c)
               PROVE  /\ WroteOver(c) # None /\ Staleness(Plan(c), WroteOver(c)) = "fresh"
                      /\ {f \in Fields : After(c).values[f] # Before(c).values[f]} \subseteq
                           {change.path : change \in Plan(c).action.changes} \cup GivesUp(c)
    BY DEF ChangesAreForetold
  <2>1. WroteOver(c) = Before(c)
    <3>1. call[c].written \in {call[c].planned, call[c].planned + 1} /\ call[c].planned \in Nat
      BY ChangesFacts
    <3>2. call[c].written # call[c].planned => call[c].written - 1 = call[c].planned
      BY <3>1
    <3> QED
      BY <3>2 DEF WroteOver, Before
  <2>2. Before(c) # None
    BY ChangesFacts, ContentAssumption
  <2>3. Staleness(Plan(c), Before(c)) = "fresh"
    BY ChangesFacts DEF Staleness
  <2>4. \A f \in Fields : After(c).values[f] # Before(c).values[f] =>
          f \in {change.path : change \in Plan(c).action.changes} \cup GivesUp(c)
    BY FieldsWritten
  <2> QED
    BY <2>1, <2>2, <2>3, <2>4
<1>2. MInv => DisruptionIsForetold
  <2> SUFFICES ASSUME MInv, NEW c \in Callers, Changes(c)
               PROVE  LET all     == EffectsOf(kind, Plan(c).action)
                          effects == all \ Restores(all)
                          differ(fs) == \E f \in fs \ GivesUp(c) :
                                          After(c).values[f] # Before(c).values[f]
                      IN  /\ (/\ After(c).values["replicas"] < Before(c).values["replicas"]
                              /\ differ({"replicas"}))
                               => "pods_stopped" \in effects
                          /\ differ(TemplateFields) => "pods_replaced" \in effects
    BY DEF DisruptionIsForetold
  <2>1. ~ IsDestructive(Plan(c).action)
    BY ChangesFacts
  <2>2. ASSUME After(c).values["replicas"] < Before(c).values["replicas"],
               "replicas" \notin GivesUp(c),
               After(c).values["replicas"] # Before(c).values["replicas"]
        PROVE  "pods_stopped" \in EffectsOf(kind, Plan(c).action)
                 \ Restores(EffectsOf(kind, Plan(c).action))
    <3>1. PICK change \in Plan(c).action.changes :
            /\ change.path = "replicas" /\ change.to = After(c).values["replicas"]
            /\ change.to # 0 /\ change.from = Before(c).values["replicas"]
            /\ change.to \in Nat /\ change.from \in Nat
      BY <2>2, FieldsWritten, FieldNames
    <3>2. IsScaleDown(change)
      BY <2>2, <3>1 DEF IsScaleDown
    <3> QED
      BY <2>1, <3>2, EffectsNamed
  <2>3. ASSUME NEW f \in TemplateFields \ GivesUp(c),
               After(c).values[f] # Before(c).values[f]
        PROVE  "pods_replaced" \in EffectsOf(kind, Plan(c).action)
                 \ Restores(EffectsOf(kind, Plan(c).action))
    <3>1. f \in Fields
      BY FieldNames
    <3>2. PICK change \in Plan(c).action.changes : change.path = f
      BY <2>3, <3>1, FieldsWritten
    <3> QED
      BY <2>1, <3>2, EffectsNamed
  <2> QED
    BY <2>2, <2>3
<1>3. MInv => AutoscalerIsForetold
  <2> SUFFICES ASSUME MInv, NEW c \in Callers, Changes(c), ~ call[c].inventory.more,
                      TouchesReplicas(Plan(c).action), autoscaler
               PROVE  Caveats(Plan(c), Before(c), call[c].inventory, "not_answered") \cap
                        {"autoscaler_may_reconcile_replicas",
                         "competing_writer_evidence_incomplete"} # {}
    BY DEF AutoscalerIsForetold, NamesTheAutoscaler
  <2> DEFINE inventory == call[c].inventory
  <2>1. ~ IsDestructive(Plan(c).action) /\ inventory \in Inventories(Plan(c).action)
    BY ChangesFacts
  <2>2. inventory.autoscaler \/ ~ inventory.complete
    BY <2>1 DEF Inventories, Unasked
  <2> HIDE DEF inventory
  <2>3. ApplyCaveats(Plan(c).action, Before(c), inventory) \cap
          {"autoscaler_may_reconcile_replicas", "competing_writer_evidence_incomplete"} # {}
    BY <2>2 DEF ApplyCaveats
  <2>4. ApplyCaveats(Plan(c).action, Before(c), inventory)
          \subseteq Caveats(Plan(c), Before(c), inventory, "not_answered")
    BY <2>1 DEF Caveats
  <2> QED
    BY <2>3, <2>4 DEF inventory
<1> QED
  BY <1>1, <1>2, <1>3, MutatingInvariant, PTL DEF WhatHappensWasForetold
=============================================================================
