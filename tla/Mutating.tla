------------------------------ MODULE Mutating ------------------------------
(***************************************************************************)
(* A mutating invocation (mutations.rs): it plans a change on a read of    *)
(* the target, asks whether it is permitted, sends it, looks at the target *)
(* once, tells the session what it wrote, and then verifies the change,    *)
(* through the session's own watch where one is live and else through one  *)
(* it opens for itself, until the rule is decided or the window ends.      *)
(*                                                                         *)
(* From the read to the end of `Session::mutated` the invocation holds the *)
(* session's lock; verification takes it for a poll at a time.  The watch  *)
(* of the session is fed by another invocation (module ChangeView), which  *)
(* takes the lock for an event at a time: here it is one feeder.           *)
(***************************************************************************)
EXTENDS Target

CONSTANTS
  Callers,      \* the mutating invocations
  Intents,      \* what one of them may ask for
  StartKinds,   \* what the target may be
  Ours,         \* the fields an earlier apply may have left to this package
  Forces        \* whether an invocation may state a reason to force

ASSUME MutatingAssumption ==
  /\ StartKinds \subseteq Kinds
  /\ Forces \subseteq BOOLEAN
  /\ \A intent \in Intents :
       /\ DOMAIN intent = {"verb", "wanted", "propagation"}
       /\ DOMAIN intent.wanted \subseteq Fields
       /\ \A f \in DOMAIN intent.wanted : intent.wanted[f] \in Value

(* The session's entry for the target's collection, of module SessionOps.  *)
Name == "target"

Session == INSTANCE SessionOps WITH
  Keys <- {Name}, LogCapacity <- 1, TrimBlock <- 1, IndexCapacity <- 1

ASSUME CacheAssumption == None \notin Nat \cup Session!Object

VARIABLES
  slot,      \* the session's entry for the collection, or None
  feeding,   \* whether an invocation is reading the watch behind it
  holder,    \* the caller that holds the session's lock, or None
  call       \* each invocation

vars == << target, slot, feeding, holder, call >>

Place == {"idle", "preflight", "sending", "looking", "polling", "opening", "watching", "done"}

Deletions == {"none", "accepted", "terminating", "absent"}
Sources   == {"none", "look", "cache", "watch"}

Call == [pc        : Place,
         intent    : Intents \cup {None},
         how       : [dry_run : BOOLEAN, force : BOOLEAN],
         planned   : Nat,              \* the version the plan was made on
         inventory : [autoscaler : BOOLEAN, complete : BOOLEAN, more : BOOLEAN],
         outcome   : Acceptances \cup {"none", "failed"},
         written   : Nat,              \* the version after the write
         deletion  : Deletions,
         last      : Verification \cup {None},
         source    : Sources,          \* what `last` was seen by
         from      : Nat,              \* the version a watch opens from
         at        : Nat,              \* the version it has come to
         expired   : BOOLEAN,
         lagged    : BOOLEAN,          \* the cache was behind at the quarantine
         audited   : BOOLEAN]

TypeOK ==
  /\ TargetTypeOK
  /\ slot \in Session!Watched \cup {None}
  /\ feeding \in BOOLEAN
  /\ holder \in Callers \cup {None}
  /\ call \in [Callers -> Call]

Unasked == [autoscaler |-> FALSE, complete |-> FALSE, more |-> FALSE]

NoCall == [pc |-> "idle", intent |-> None, how |-> [dry_run |-> TRUE, force |-> FALSE],
           planned |-> 0, inventory |-> Unasked,
           outcome |-> "none", written |-> 0, deletion |-> "none", last |-> None,
           source |-> "none", from |-> 0, at |-> 0, expired |-> FALSE, lagged |-> FALSE,
           audited |-> FALSE]

Init ==
  /\ TargetInit(StartKinds, Ours)
  /\ slot = None
  /\ feeding = FALSE
  /\ holder = None
  /\ call = [c \in Callers |-> NoCall]

At(c, place) == call[c].pc = place

(* The plan, which is a function of the intent and of what was read.       *)
Plan(c) == PlanOf(kind, call[c].intent, versions[call[c].planned])

Verifies(c) == call[c].pc \in {"polling", "opening", "watching"}

-----------------------------------------------------------------------------
(* Planning.                                                               *)

(* What the one page of autoscalers that is read around the target says of *)
(* competing writers: asked only for a change of replicas, and possibly    *)
(* refused.  A page that is not the last may not hold the one that names   *)
(* the target (`more`), and the read is called complete all the same.      *)
Inventories(action) ==
  IF TouchesReplicas(action)
  THEN {Unasked}
         \cup {[autoscaler |-> autoscaler, complete |-> TRUE, more |-> FALSE],
               [autoscaler |-> FALSE, complete |-> TRUE, more |-> TRUE]}
  ELSE {Unasked}

(* The invocation ends, and what it held is released.  What the server     *)
(* answered is audited; a failure before there was an answer is not.       *)
Ends(c, outcome) ==
  /\ call' = [call EXCEPT ![c].pc = "done", ![c].outcome = outcome,
                          ![c].audited = outcome # "failed"]
  /\ holder' = None

(* The plan of an invocation: the object as it is, the change against it,  *)
(* and who else writes the fields of it.                                   *)
PlansOn(c, intent, how) ==
  \E inventory \in Inventories(ActionOf(intent, Current)) :
    call' = [call EXCEPT
      ![c].pc        = "preflight",
      ![c].intent    = intent,
      ![c].how       = how,
      ![c].planned   = Now,
      ![c].inventory = inventory]

Start(c) ==
  /\ At(c, "idle")
  /\ holder = None
  /\ Current # None
  /\ \E intent \in Intents, dry_run \in BOOLEAN, force \in Forces :
       /\ Expressible(intent, Current)
       /\ ~ Refuses(ActionOf(intent, Current))
       /\ PlansOn(c, intent, [dry_run |-> dry_run, force |-> force])
  /\ holder' = c
  /\ UNCHANGED << target, slot, feeding >>

(* There is nothing to change, the change is refused, or a read failed.    *)
StartRefused(c) ==
  /\ At(c, "idle")
  /\ holder = None
  /\ Ends(c, "failed")
  /\ UNCHANGED << target, slot, feeding >>

(* Only an explicit denial stops the change.                               *)
Permit(c) ==
  /\ At(c, "preflight")
  /\ \E review \in Reviews :
       IF Preflight(review) = "denied"
       THEN Ends(c, "failed")
       ELSE /\ call' = [call EXCEPT ![c].pc = "sending"]
            /\ UNCHANGED holder
  /\ UNCHANGED << target, slot, feeding >>

-----------------------------------------------------------------------------
(* The change.                                                             *)

(* The server serves the request and its answer is read.                   *)
Send(c) ==
  /\ At(c, "sending")
  /\ LET request    == Request(Plan(c), call[c].how)
         answer     == AnswerTo(request)
         acceptance == Acceptance(answer, call[c].how.dry_run)
     IN  /\ Serves(request)
         /\ IF RequiresVerification(acceptance)
            THEN /\ call' = [call EXCEPT
                      ![c].pc       = "looking",
                      ![c].outcome  = acceptance,
                      ![c].written  = Len(versions'),
                      ![c].deletion = IF request.deletes THEN DeletionRead(answer) ELSE @]
                 /\ UNCHANGED holder
            ELSE Ends(c, acceptance)
  /\ UNCHANGED << slot, feeding >>

(* The connection fails, before the server served the request or after it. *)
SendLost(c) ==
  /\ At(c, "sending")
  /\ Serves(Request(Plan(c), call[c].how)) \/ UNCHANGED target
  /\ Ends(c, "failed")
  /\ UNCHANGED << slot, feeding >>

Looks == IF Current = None
         THEN {[is |-> "absent"], [is |-> "unobservable"]}
         ELSE {[is |-> "object", object |-> Current], [is |-> "unobservable"]}

Behind(c) == slot # None /\ slot.stream.checkpoint # None
               /\ slot.stream.checkpoint < call[c].planned

(* `verify`, and then `mutated`: one read of the target, which is the only *)
(* one for a rule no watch can prove, and the session forgets what it can  *)
(* no longer confirm.                                                      *)
Look(c) ==
  /\ At(c, "looking")
  /\ \E look \in Looks :
       LET verification == OfLook(Plan(c), look, ~ Watchable(Plan(c).rule))
       IN  call' = [call EXCEPT
             ![c].pc       = IF verification.verdict = "pending" THEN "polling" ELSE "done",
             ![c].last     = verification,
             ![c].source   = "look",
             ![c].from     = IF look.is = "object" THEN Now ELSE 0,
             ![c].lagged   = Behind(c),
             ![c].audited  = verification.verdict # "pending",
             ![c].deletion = IF @ = "none" THEN @ ELSE DeletionObserved(@, look)]
  /\ slot' = Session!Mutated(slot, Name)
  /\ holder' = None
  /\ UNCHANGED << target, feeding >>

-----------------------------------------------------------------------------
(* Verification (`converge`).                                              *)

Concludes(c, verification, source) ==
  call' = [call EXCEPT ![c].pc = "done", ![c].last = verification,
                       ![c].source = source, ![c].audited = TRUE]

(* The window ends while an invocation verifies.                           *)
WindowEnds(c) ==
  /\ Verifies(c)
  /\ ~ call[c].expired
  /\ call' = [call EXCEPT ![c].expired = TRUE]
  /\ UNCHANGED << target, slot, feeding, holder >>

(* What the session's cache says of the target.                            *)
Cached == versions[slot.stream.objects[Name].rv]

Live == slot # None /\ Session!AbsenceIsConclusive(slot.stream)

OverNever(c) == FALSE

Gone(found) == found = "confirmed_absent"
Over(c)     == call[c].expired

(* One poll: the stream's state and the lookup are read under one lock.    *)
Poll(c) ==
  /\ At(c, "polling")
  /\ holder = None
  /\ IF ~ Live
     THEN call' = [call EXCEPT ![c].pc = "opening"]
     ELSE LET found == Session!Lookup(slot, Name)
              seen  == IF found = "cached" THEN OfObject(Plan(c), Cached, FALSE)
                                           ELSE call[c].last
          IN  CASE Gone(found) -> Concludes(c, UnfinishedAt("target_gone", seen), "cache")
                [] ~ Gone(found) /\ Decided(seen) -> Concludes(c, seen, "cache")
                [] OTHER ->
                     IF Over(c)
                     THEN Concludes(c, UnfinishedAt(WindowEnded(seen.reached), seen), "cache")
                     ELSE call' = [call EXCEPT ![c].last = seen]
  /\ UNCHANGED << target, slot, feeding, holder >>

Unfinish(c, reason) == Concludes(c, UnfinishedAt(reason, call[c].last), "watch")

(* Before a watch of its own is opened, and before each of its frames.     *)
Expire(c) ==
  /\ call[c].pc \in {"opening", "watching"}
  /\ call[c].expired
  /\ Unfinish(c, WindowEnded(call[c].last.reached))
  /\ UNCHANGED << target, slot, feeding, holder >>

(* The watch opens from the version the last observation was of.           *)
OpenWatch(c) ==
  /\ At(c, "opening")
  /\ ~ call[c].expired
  /\ \/ call' = [call EXCEPT ![c].pc = "watching", ![c].at = call[c].from]
     \/ call[c].from < Now /\ Unfinish(c, "watch_gap")
     \/ Unfinish(c, "watch_unavailable")
  /\ UNCHANGED << target, slot, feeding, holder >>

(* A change of the target arrives: its version is the new checkpoint, and  *)
(* what it shows is evaluated; a deletion is the end of it.                *)
Receive(c) ==
  /\ At(c, "watching")
  /\ ~ call[c].expired
  /\ call[c].at < Now
  /\ LET v == call[c].at + 1
     IN  IF versions[v] = None
         THEN Unfinish(c, "target_gone")
         ELSE LET seen == OfObject(Plan(c), versions[v], FALSE)
              IN  call' = [call EXCEPT
                    ![c].pc      = IF Decided(seen) THEN "done" ELSE "watching",
                    ![c].from    = v,
                    ![c].at      = v,
                    ![c].last    = seen,
                    ![c].source  = "watch",
                    ![c].audited = Decided(seen)]
  /\ UNCHANGED << target, slot, feeding, holder >>

(* The body ends or is interrupted: it is opened again at the checkpoint.  *)
Reopen(c) ==
  /\ At(c, "watching")
  /\ call' = [call EXCEPT ![c].pc = "opening"]
  /\ UNCHANGED << target, slot, feeding, holder >>

(* The server reports the history gone, or a frame cannot be read.         *)
BreakWatch(c) ==
  /\ At(c, "watching")
  /\ \/ call[c].at < Now /\ Unfinish(c, "watch_gap")
     \/ Unfinish(c, "partial_coverage")
  /\ UNCHANGED << target, slot, feeding, holder >>

(* The operator stops the verification; the change stands, and nothing     *)
(* after the verification is done.                                         *)
Cancel(c) ==
  /\ Verifies(c)
  /\ call' = [call EXCEPT ![c].pc = "done", ![c].last = None]
  /\ UNCHANGED << target, slot, feeding, holder >>

-----------------------------------------------------------------------------
(* The invocation that reads the session's watch of the collection.        *)

Feeder == holder = None /\ UNCHANGED << target, holder, call >>

Snapshot == [n \in {Name} |-> IF Current = None
                              THEN None ELSE [uid |-> Current.uid, rv |-> Now]]

(* It lists the collection and watches it from there, or takes up the      *)
(* watch of an earlier reader where that one left it.                      *)
Subscribe ==
  /\ Feeder
  /\ ~ feeding
  /\ slot' = IF slot = None THEN Session!Synchronised(slot, Snapshot, Now) ELSE slot
  /\ feeding' = TRUE

EventOf(v) ==
  IF versions[v] = None
  THEN Session!Change("deleted", Name, [uid |-> versions[v - 1].uid, rv |-> v])
  ELSE Session!Change(IF versions[v - 1] = None THEN "added" ELSE "modified",
                      Name, [uid |-> versions[v].uid, rv |-> v])

Feed ==
  /\ Feeder
  /\ feeding
  /\ slot # None
  /\ slot.stream.checkpoint # None
  /\ slot.stream.checkpoint < Now
  /\ slot.stream.state = "live"
  /\ slot' = Session!ObserveEvent(slot, EventOf(slot.stream.checkpoint + 1))
  /\ UNCHANGED feeding

Interrupt ==
  /\ Feeder
  /\ feeding
  /\ Live
  /\ slot' = Session!ObserveEvent(slot, Session!Error("interrupted"))
  /\ UNCHANGED feeding

Resume ==
  /\ Feeder
  /\ feeding
  /\ slot # None
  /\ slot.stream.state = "reconnecting"
  /\ \/ slot' = Session!OnStream(slot, Session!Reconnected(slot.stream))
     \/ /\ slot.stream.checkpoint < Now
        /\ slot' = Session!ObserveEvent(slot, Session!Error("expired"))
  /\ UNCHANGED feeding

(* The reader leaves: a cache that may still answer stays.                 *)
CloseView ==
  /\ Feeder
  /\ feeding
  /\ slot' = Session!ViewClosed(slot)
  /\ feeding' = FALSE

FeederStep == Subscribe \/ Feed \/ Interrupt \/ Resume \/ CloseView

-----------------------------------------------------------------------------
CallerStep(c) ==
  \/ Start(c) \/ StartRefused(c) \/ Permit(c) \/ Send(c) \/ SendLost(c) \/ Look(c)
  \/ WindowEnds(c) \/ Poll(c) \/ Expire(c) \/ OpenWatch(c) \/ Receive(c)
  \/ Reopen(c) \/ BreakWatch(c) \/ Cancel(c)

TargetStep == TargetNext /\ UNCHANGED << slot, feeding, holder, call >>

Next ==
  \/ TargetStep
  \/ FeederStep
  \/ \E c \in Callers : CallerStep(c)

Spec == Init /\ [][Next]_vars

(* The clock of a verification goes on, and its worker polls, or gives up  *)
(* on a watch that is silent, while nobody holds the lock.                 *)
Fairness ==
  \A c \in Callers : WF_vars(WindowEnds(c)) /\ WF_vars(Poll(c) \/ Expire(c))

FairSpec == Spec /\ Fairness

(* Where a search may stop: an invocation that is done reads nothing more, *)
(* and what follows cannot undo what it said.                              *)
Unsettled == \E c \in Callers : ~ At(c, "done")

-----------------------------------------------------------------------------
(* Properties of the change.                                               *)

Persisted(c) == call[c].outcome = "persisted"
Changes(c)   == Persisted(c) /\ Plan(c).rule # "absence"

(* What the write made of the object, against what the plan was made on.   *)
Before(c) == versions[call[c].planned]
After(c)  == versions[call[c].written]

(* What an earlier apply of this package took and this one does not name.  *)
GivesUp(c) == GivenUp(Before(c), Document(Plan(c).action))

(* The version a write was made over.                                      *)
WroteOver(c) ==
  IF call[c].written = call[c].planned THEN Before(c) ELSE versions[call[c].written - 1]

(* §56: between the read a plan was made on and its write nobody else      *)
(* writes unnoticed, and the write touches the fields of the plan, or ones *)
(* that only this package held.                                            *)
ChangesAreForetold ==
  \A c \in Callers : Changes(c) =>
    /\ WroteOver(c) # None /\ Staleness(Plan(c), WroteOver(c)) = "fresh"
    /\ {f \in Fields : After(c).values[f] # Before(c).values[f]} \subseteq
         {change.path : change \in Plan(c).action.changes} \cup GivesUp(c)

(* §46.2: a write that stops pods or replaces them was planned as one, and *)
(* no recovery of the plan promises them back.                             *)
DisruptionIsForetold ==
  \A c \in Callers : Changes(c) =>
    LET all     == EffectsOf(kind, Plan(c).action)
        effects == all \ Restores(all)
        differ(fs) == \E f \in fs \ GivesUp(c) : After(c).values[f] # Before(c).values[f]
    IN  /\ After(c).values["replicas"] < Before(c).values["replicas"] /\ differ({"replicas"})
             => "pods_stopped" \in effects
        /\ differ(TemplateFields) => "pods_replaced" \in effects

(* §46.2: an autoscaler that would take the replicas back is named in the  *)
(* plan, or the plan says it could not ask for one.                        *)
NamesTheAutoscaler(c) ==
  Changes(c) /\ TouchesReplicas(Plan(c).action) /\ autoscaler =>
    Caveats(Plan(c), Before(c), call[c].inventory, "not_answered") \cap
      {"autoscaler_may_reconcile_replicas",
       "competing_writer_evidence_incomplete"} # {}

(* As planning.rs promises it: no way to find none is evidence that there  *)
(* is none, the end of a page among them (`autoscalers_targeting`).  It is *)
(* not kept: section 6 of the README.                                      *)
NoAutoscalerIsMissed == \A c \in Callers : NamesTheAutoscaler(c)

(* As the code keeps it: where the page that was read was the last one.    *)
AutoscalerIsForetold ==
  \A c \in Callers : call[c].inventory.more \/ NamesTheAutoscaler(c)

(* §46.2, §56: what a write does was in its plan: the fields it changes,   *)
(* the Pods it stops or replaces, and the autoscaler that will undo it, of *)
(* those on the page that was read or where it was the last.               *)
WhatHappensWasForetold ==
  ChangesAreForetold /\ DisruptionIsForetold /\ AutoscalerIsForetold

-----------------------------------------------------------------------------
(* Properties of the verdict.                                              *)

Says(c, verdict) == call[c].last # None /\ call[c].last.verdict = verdict

(* The session's cache is evidence of the write only where its watch had   *)
(* come as far as the plan when the object was quarantined.                *)
Sound(c) == call[c].source = "cache" => ~ call[c].lagged

(* The versions of the planned lifetime from the write on.                 *)
Since(c) == {v \in call[c].written..Now : /\ versions[v] # None
                                          /\ versions[v].uid = Plan(c).uid}

IsConverged(object) == /\ object.observed >= object.generation
                       /\ object.progressing
                       /\ object.ready = object.values["replicas"]

HasFailed(object) == object.observed >= object.generation /\ ~ object.progressing

(* Gate G: a confirmed change was seen on the planned object after the     *)
(* write, with its controller converged where the rule is about one; and a *)
(* refuted one failed after the write.                                     *)
VerdictIsOfTheWrite ==
  \A c \in Callers : Persisted(c) /\ Plan(c).rule # "absence" /\ Sound(c) =>
    /\ Says(c, "confirmed") =>
         \E v \in Since(c) :
           /\ Met(Plan(c), versions[v])
           /\ EstablishedStage(Plan(c).rule) = "status_converged" => IsConverged(versions[v])
    /\ Says(c, "refuted") =>
         \E v \in Since(c) : Met(Plan(c), versions[v]) /\ HasFailed(versions[v])

(* Gate H, §45.1: a deletion that is confirmed, or an object that is said  *)
(* to be absent or gone, is the end of the planned lifetime.               *)
AbsenceIsTheEnd ==
  \A c \in Callers :
    \/ call[c].deletion = "absent"
    \/ Persisted(c) /\ Plan(c).rule = "absence" /\ Says(c, "confirmed")
    \/ Persisted(c) /\ Sound(c) /\ call[c].last # None /\ call[c].last.reason = "target_gone"
    => \E v \in call[c].planned..Now : versions[v] = None

(* What a caller is told at the end of a change is what became of it.      *)
VerdictsAreTrue == VerdictIsOfTheWrite /\ AbsenceIsTheEnd

(* §46.4: every verification ends, by a verdict or by its window.          *)
VerificationEnds == \A c \in Callers : Verifies(c) ~> At(c, "done")
=============================================================================
