------------------------------- MODULE History -------------------------------
(***************************************************************************)
(* When something happened to an object, and by whose clock (temporal.rs); *)
(* what a Kubernetes Event says (events.rs); and how a `k8s-timeline` and a *)
(* `k8s-event` are made of them (timeline.rs, events.rs of the plugin).    *)
(*                                                                         *)
(* A subject is its key (namespace and name), its uid, its kind, its       *)
(* apiVersion and the provider instance that read it.  A stamp is the      *)
(* clock that wrote it and the milliseconds it reads as, or Unwritten.     *)
(***************************************************************************)
EXTENDS Integers, FiniteSets, SequencesExt

Unwritten == -1
Unstated == "unstated"

-----------------------------------------------------------------------------
(* Clocks and stamps.                                                      *)

Provider     == [clock |-> "provider", of |-> Unstated]
ServerClock  == [clock |-> "api-server", of |-> Unstated]
ReporterOf(c) == [clock |-> "reporter", of |-> c]
Unattributed == [clock |-> "unattributed", of |-> Unstated]
Unclocked    == [clock |-> "unclocked", of |-> Unstated]

IsComparable(a, b) == a = b /\ a \notin {Unattributed, Unclocked}

Stamp(source, millis) == [source |-> source, millis |-> millis]

Unordered(why) == [order |-> "unordered", why |-> why]
OrderIs(order) == [order |-> order, why |-> "ordered"]

Relate(s, t) ==
  IF Unclocked \in {s.source, t.source} THEN Unordered("unplaceable")
  ELSE IF ~ IsComparable(s.source, t.source)
  THEN Unordered(IF s.source = t.source THEN "unattributed" ELSE "different clocks")
  ELSE IF Unwritten \in {s.millis, t.millis} THEN Unordered("unplaceable")
  ELSE OrderIs(IF s.millis < t.millis THEN "before"
               ELSE IF s.millis > t.millis THEN "after" ELSE "simultaneous")

(* `apart_millis`: the distance, where there is an order.                  *)
Apart(s, t) ==
  IF Relate(s, t).order = "unordered" THEN Unwritten
  ELSE IF s.millis < t.millis THEN t.millis - s.millis ELSE s.millis - t.millis

(* A mutated form of the next: every fourth year is a leap year.           *)
DaysFromJulian(year, month, day) ==
  LET y     == IF month <= 2 THEN year - 1 ELSE year
      prime == (month + 9) % 12
  IN  y * 365 + y \div 4 + (153 * prime + 2) \div 5 + day - 1 - 719468

(* `days_from_civil`: the days from 1970-01-01 to a date.                  *)
DaysFromCivil(year, month, day) ==
  LET y     == IF month <= 2 THEN year - 1 ELSE year
      era   == y \div 400
      yoe   == y - era * 400
      prime == (month + 9) % 12
      doy   == (153 * prime + 2) \div 5 + day - 1
      doe   == yoe * 365 + yoe \div 4 - yoe \div 100 + doy
  IN  era * 146097 + doe - 719468

-----------------------------------------------------------------------------
(* Events.  The fields of either representation, of which a set is read:   *)
(* the first one that is there.                                            *)

First(o, fields, absent) ==
  LET held == SelectSeq(fields, LAMBDA f : f \in DOMAIN o) IN
  IF held = << >> THEN absent ELSE o[held[1]]

NoReference == [kind |-> Unstated, key |-> Unstated, uid |-> Unstated, api |-> Unstated]

FromObject(o) ==
  [regarding  |-> First(o, <<"regarding", "involvedObject">>, NoReference),
   related    |-> First(o, <<"related">>, NoReference),
   note       |-> First(o, <<"note", "message">>, Unstated),
   controller |-> First(o, <<"reportingController", "reportingComponent",
                             "source.component", "deprecatedSource.component">>, Unstated),
   instance   |-> First(o, <<"reportingInstance", "source.host", "deprecatedSource.host">>, Unstated),
   eventTime  |-> First(o, <<"eventTime">>, Unwritten),
   level      |-> First(o, <<"type">>, Unstated),
   count      |-> First(o, <<"count", "deprecatedCount">>, Unwritten),
   series     |-> First(o, <<"series.count">>, Unwritten),
   seriesLast |-> First(o, <<"series.lastObservedTime">>, Unwritten),
   firstSeen  |-> First(o, <<"firstTimestamp", "deprecatedFirstTimestamp">>, Unwritten),
   lastSeen   |-> First(o, <<"lastTimestamp", "deprecatedLastTimestamp">>, Unwritten),
   provider   |-> o.provider]

(* `regards`: by uid, and by name where either side has no uid.            *)
Regards(e, subject) ==
  /\ e.provider = subject.provider
  /\ e.regarding.kind = subject.kind
  /\ e.regarding.api \in {Unstated, subject.api}
  /\ IF e.regarding.uid # Unstated /\ subject.uid # Unstated
     THEN e.regarding.uid = subject.uid
     ELSE e.regarding.key = subject.key

-----------------------------------------------------------------------------
(* Observations.                                                           *)

Observation(source, stamp, detail) == [source |-> source, stamp |-> stamp, detail |-> detail]

OfCreation(object) ==
  IF object.created = Unwritten THEN << >>
  ELSE << Observation("object metadata", Stamp(ServerClock, object.created), "created") >>

OfDeletion(object) ==
  IF object.deleted = Unwritten THEN << >>
  ELSE << Observation("object metadata", Stamp(ServerClock, object.deleted), "deletion accepted") >>

(* A condition that says when it last changed; a manager that says when it *)
(* wrote.                                                                  *)
Dated(facts) == SelectSeq(facts, LAMBDA f : f.millis # Unwritten)
OfConditions(object) ==
  [n \in DOMAIN Dated(object.conditions) |->
     Observation("condition transition", Stamp(Unattributed, Dated(object.conditions)[n].millis),
                 Dated(object.conditions)[n].detail)]
OfManagers(object) ==
  [n \in DOMAIN Dated(object.managers) |->
     Observation("managed field", Stamp(ServerClock, Dated(object.managers)[n].millis),
                 Dated(object.managers)[n].detail)]

OfEvents(read, subject) ==
  LET mine == SelectSeq(read, LAMBDA e : Regards(e, subject) /\ e.eventTime # Unwritten) IN
  [n \in DOMAIN mine |->
     Observation("event record",
       Stamp(IF mine[n].controller = Unstated THEN Unattributed ELSE ReporterOf(mine[n].controller),
             mine[n].eventTime),
       mine[n].note)]

-----------------------------------------------------------------------------
(* The timeline.                                                           *)

Opened(now) ==
  [from |-> now, to |-> now, observations |-> << >>, gaps |-> << >>, periods |-> << >>,
   unread |-> {}]

Advance(t, now) == IF now > t.to THEN [t EXCEPT !.to = now] ELSE t

(* `assemble`: what the object and the Events of its scope state.          *)
Assemble(subject, object, events, now, later) ==
  Advance([Opened(now) EXCEPT
    !.observations =
      << Observation("resource snapshot", Stamp(Provider, object.read), "read") >>
      \o OfCreation(object) \o OfDeletion(object) \o OfConditions(object)
      \o OfManagers(object) \o OfEvents(events.read, subject),
    !.unread = events.gaps], later)

(* `witnessed`: a position, and no instant.                                *)
Witnessed(change, period) ==
  Observation("watch event", Stamp(Unclocked, Unwritten),
              [class |-> change.class, position |-> change.rv, period |-> period])

(* A mutated form of the next: the changes of an object of that name.      *)
WitnessedOfTheName(subject, segment) ==
  SelectSeq(segment.changes, LAMBDA c : c.key = subject.key)

(* `absorb_segment`: the changes of this subject.                          *)
ChangesOf(subject, segment) ==
  LET mine[n \in 0..Len(segment.changes)] ==
        IF n = 0 THEN << >>
        ELSE IF segment.changes[n].key = subject.key /\ segment.changes[n].uid = subject.uid
        THEN Append(mine[n - 1], segment.changes[n])
        ELSE mine[n - 1]
  IN  mine[Len(segment.changes)]

Absorb(t, subject, segment) ==
  LET ordinal == Len(t.periods) + 1
      changes == ChangesOf(subject, segment)
  IN  [t EXCEPT
         !.observations = @ \o [n \in DOMAIN changes |-> Witnessed(changes[n], ordinal)],
         !.periods = Append(@, [ordinal |-> ordinal, from |-> segment.started_at,
                                to |-> segment.closed_at, first |-> Len(t.observations),
                                count |-> Len(changes)])]

(* `from_watch`: positions, and when the break was noticed.                *)
FromWatch(gap, at) ==
  [reason |-> gap.reason, after |-> gap.after, resumed |-> gap.resumed_at, noticed |-> at]

(* `include_watch`, of the stream the session holds over the collection    *)
(* and when it last observed it: the interval and what is missing of it,   *)
(* and then each of its periods.                                           *)
Widened(t, stream, at) ==
  [t EXCEPT !.from = IF at < @ THEN at ELSE @,
            !.to   = IF at > @ THEN at ELSE @,
            !.gaps = @ \o [n \in DOMAIN stream.gaps |-> FromWatch(stream.gaps[n], at)],
            !.unread = @ \cup CASE stream.state = "syncing" -> {"not queried"}
                                [] stream.state = "denied"  -> {"list denied"}
                                [] OTHER -> {}]

IncludeWatch(t, subject, stream, at) ==
  LET absorbed[n \in 0..Len(stream.segments)] ==
        IF n = 0 THEN Widened(t, stream, at)
        ELSE Absorb(absorbed[n - 1], subject, stream.segments[n])
  IN  absorbed[Len(stream.segments)]

(* `witnessed`, of one period: there is no sequence of them all.           *)
WitnessedIn(t, period) ==
  SubSeq(t.observations, period.first + 1, period.first + period.count)

IsContinuous(t) == t.gaps = << >>

(* `ordered_on`: what one clock wrote, and what cannot be placed on it.    *)
OrderedOn(t, source) ==
  LET mine   == SelectSeq(t.observations, LAMBDA o : o.stamp.source = source)
      placed == SelectSeq(mine, LAMBDA o : IsComparable(source, source) /\ o.stamp.millis # Unwritten)
      rest   == SelectSeq(mine, LAMBDA o : ~ (IsComparable(source, source) /\ o.stamp.millis # Unwritten))
  IN  [sequence |-> SortSeq(placed, LAMBDA a, b : a.stamp.millis < b.stamp.millis),
       unplaceable |-> rest]

Clocks(t) == {t.observations[n].stamp.source : n \in DOMAIN t.observations}

=============================================================================
