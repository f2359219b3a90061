------------------------------ MODULE WatchOps ------------------------------
(***************************************************************************)
(* One watched collection: the methods of `WatchStream` (watch.rs) as      *)
(* operators on a stream value.  The code does no I/O here either: a       *)
(* stream is handed events and answers questions, so a method is a         *)
(* function from the stream before to the stream after, and the modules    *)
(* that own a stream (a session, a reader) say when each is called.        *)
(*                                                                         *)
(* A resourceVersion is a number that stands for an opaque token: the      *)
(* operators compare two of them for equality only, as the code does.  An  *)
(* object keeps what the code tells apart: its key, its lifetime (uid) and *)
(* its version.                                                            *)
(***************************************************************************)
EXTENDS Naturals, Sequences

CONSTANTS
  Keys,         \* the (namespace, name) pairs objects are looked up by
  None,         \* Rust's `None`: no object, no version, nothing staged
  LogCapacity,  \* CHANGE_LOG_CAPACITY
  TrimBlock     \* TRIM_BLOCK

ASSUME LogAssumption == /\ LogCapacity \in Nat \ {0}
                        /\ TrimBlock \in 1..LogCapacity

Version == Nat
Object  == [uid : Nat, rv : Version]
Cache   == [Keys -> Object \cup {None}]

(* `None` is not a version, an object or a cache.                          *)
ASSUME NoneAssumption == None \notin Nat \cup Object \cup Cache

EmptyCache == [k \in Keys |-> None]

SyncState == {"syncing", "live", "reconnecting", "gap_detected", "denied"}

GapReason == {"expired", "access_denied", "restarted", "trimmed"}

ChangeClass == {"added", "modified", "deleted"}

ObservedChange == [class : ChangeClass, key : Keys, uid : Nat, rv : Version]

Segment == [started_at : Version,
            closed_at  : Version \cup {None},
            changes    : Seq(ObservedChange),
            trimmed    : Nat]

WatchGap == [reason     : GapReason,
             after      : Version \cup {None},
             resumed_at : Version \cup {None}]

WatchStream == [state          : SyncState,
                checkpoint     : Version \cup {None},
                objects        : Cache,
                segments       : Seq(Segment),
                gaps           : Seq(WatchGap),
                trim_gap       : Nat \cup {None},
                pending_writes : SUBSET Keys,
                staging        : Cache \cup {None}]

NewStream == [state          |-> "syncing",
              checkpoint     |-> None,
              objects        |-> EmptyCache,
              segments       |-> << >>,
              gaps           |-> << >>,
              trim_gap       |-> None,
              pending_writes |-> {},
              staging        |-> None]

-----------------------------------------------------------------------------
(* Events.  `Error` carries the failure, the two bookmarks a version.      *)

Change(class, k, o)  == [type |-> "change", class |-> class, key |-> k, object |-> o]
Bookmark(v)          == [type |-> "bookmark", version |-> v]
InitialEventsEnd(v)  == [type |-> "initial_events_end", version |-> v]
Error(failure)       == [type |-> "error", failure |-> failure]

-----------------------------------------------------------------------------
(* Segments and gaps.                                                      *)

IsOpen(segment) == segment.closed_at = None

HasOpenSegment(s) == /\ s.segments # << >>
                     /\ IsOpen(s.segments[Len(s.segments)])

CloseOpenSegment(s) ==
  IF HasOpenSegment(s)
  THEN [s.segments EXCEPT ![Len(s.segments)].closed_at = s.checkpoint]
  ELSE s.segments

HasOpenGap(s) == /\ s.gaps # << >>
                 /\ s.gaps[Len(s.gaps)].resumed_at = None

Gap(reason, after, resumed) ==
  [reason |-> reason, after |-> after, resumed_at |-> resumed]

(* A full log forgets its oldest block before it takes the new change.     *)
LogFull(segment) == Len(segment.changes) >= LogCapacity

(* A mutated form of the next: what it forgets is not counted.             *)
PushUncounted(segment, change) ==
  IF LogFull(segment)
  THEN [segment EXCEPT
          !.changes = Append(SubSeq(@, TrimBlock + 1, Len(@)), change)]
  ELSE [segment EXCEPT !.changes = Append(@, change)]

Push(segment, change) ==
  IF LogFull(segment)
  THEN [segment EXCEPT
          !.changes = Append(SubSeq(@, TrimBlock + 1, Len(@)), change),
          !.trimmed = @ + TrimBlock]
  ELSE [segment EXCEPT !.changes = Append(@, change)]

RetainedFrom(segment) == segment.changes[1].rv

(* One gap per period for the part of its record that was forgotten: the   *)
(* first trim adds it, the later ones move the edge it resumes at.         *)
RecordTrim(gaps, trim_gap, segment) ==
  IF trim_gap # None /\ trim_gap \in 1..Len(gaps)
  THEN [gaps EXCEPT ![trim_gap].resumed_at = RetainedFrom(segment)]
  ELSE Append(gaps, Gap("trimmed", segment.started_at, RetainedFrom(segment)))

-----------------------------------------------------------------------------
(* The methods.                                                            *)

(* A mutated form of the next: a listing over a healthy stream, which ends *)
(* its period, leaves no gap.                                              *)
GapsAfterBreakOnly(s, version) ==
  IF HasOpenGap(s)
  THEN [s.gaps EXCEPT ![Len(s.gaps)].resumed_at = version]
  ELSE s.gaps

GapsAfterListing(s, version) ==
  IF HasOpenGap(s)
  THEN [s.gaps EXCEPT ![Len(s.gaps)].resumed_at = version]
  ELSE IF s.segments # << >>
       THEN Append(s.gaps, Gap("restarted", s.checkpoint, version))
       ELSE s.gaps

(* Mutated forms of the next: the period begins where the last one stood;  *)
(* what was cached and is not listed is kept; what was staged stays so.    *)
ListedFromCheckpoint(s, objects, version) ==
  [state          |-> "live",
   checkpoint     |-> version,
   objects        |-> objects,
   segments       |-> Append(CloseOpenSegment(s),
                             [started_at |-> s.checkpoint, closed_at |-> None,
                              changes |-> << >>, trimmed |-> 0]),
   gaps           |-> GapsAfterListing(s, version),
   trim_gap       |-> None,
   pending_writes |-> {},
   staging        |-> None]

ListedOverCache(s, objects, version) ==
  [ListedFromCheckpoint(s, objects, version) EXCEPT
     !.objects = [k \in Keys |-> IF objects[k] = None THEN s.objects[k] ELSE objects[k]],
     !.segments[Len(s.segments) + 1].started_at = version]

(* `listed`: the cache is replaced by a complete listing at a version, and *)
(* a new period of observation begins there.                               *)
Listed(s, objects, version) ==
  [state          |-> "live",
   checkpoint     |-> version,
   objects        |-> objects,
   segments       |-> Append(CloseOpenSegment(s),
                             [started_at |-> version, closed_at |-> None,
                              changes |-> << >>, trimmed |-> 0]),
   gaps           |-> GapsAfterListing(s, version),
   trim_gap       |-> None,
   pending_writes |-> {},
   staging        |-> None]

(* `checkpointed`: a bookmark moves the position and nothing else.         *)
Checkpointed(s, version) ==
  IF s.state = "live" THEN [s EXCEPT !.checkpoint = version] ELSE s

(* A mutated form of the next: a deletion does not empty the cache.        *)
RecordKeepingDeleted(s, class, k, o) ==
  IF s.state # "live"
  THEN s
  ELSE [s EXCEPT !.checkpoint = o.rv, !.objects[k] = o, !.pending_writes = @ \ {k}]

(* `record`: a change enters the cache, the checkpoint and the change log, *)
(* and lifts the quarantine of the object it names.                        *)
Record(s, class, k, o) ==
  IF s.state # "live"
  THEN s
  ELSE LET n      == Len(s.segments)
           change == [class |-> class, key |-> k, uid |-> o.uid, rv |-> o.rv]
           pushed == Push(s.segments[n], change)
           trims  == n > 0 /\ LogFull(s.segments[n])
       IN  [s EXCEPT
              !.checkpoint     = o.rv,
              !.objects[k]     = IF class = "deleted" THEN None ELSE o,
              !.pending_writes = @ \ {k},
              !.segments       = IF n > 0 THEN [@ EXCEPT ![n] = pushed] ELSE @,
              !.gaps           = IF trims THEN RecordTrim(@, s.trim_gap, pushed) ELSE @,
              !.trim_gap       = IF trims /\ (s.trim_gap = None \/ s.trim_gap \notin 1..Len(s.gaps))
                                 THEN Len(s.gaps) + 1 ELSE @]

(* `break_continuity`: the period ends where it stood, the gap opens there *)
(* and the checkpoint is void.  A second break adds nothing to the first.  *)
BreakContinuity(s, reason, state) ==
  IF s.state \in {"gap_detected", "denied"}
  THEN [s EXCEPT !.staging = None]
  ELSE [s EXCEPT !.staging    = None,
                 !.segments   = CloseOpenSegment(s),
                 !.gaps       = Append(@, Gap(reason, s.checkpoint, None)),
                 !.checkpoint = None,
                 !.trim_gap   = None,
                 !.state      = state]

Fail(s, failure) ==
  CASE failure = "interrupted" ->
         IF s.state = "live" THEN [s EXCEPT !.state = "reconnecting"] ELSE s
    [] failure = "expired" -> BreakContinuity(s, "expired", "gap_detected")
    [] failure = "denied"  -> BreakContinuity(s, "access_denied", "denied")

(* An `ADDED` of a streaming list is staged, never applied.                *)
Stages(s, e) == e.type = "change" /\ e.class = "added" /\ s.staging # None

(* A mutated form of the next: each staged object replaces the last.       *)
ObserveStagingLast(s, e) ==
  CASE e.type = "error"    -> Fail(s, e.failure)
    [] e.type = "bookmark" -> Checkpointed(s, e.version)
    [] e.type = "initial_events_end" ->
         IF s.staging # None
         THEN Listed(s, s.staging, e.version)
         ELSE Checkpointed(s, e.version)
    [] e.type = "change" ->
         IF Stages(s, e)
         THEN [s EXCEPT !.staging = [EmptyCache EXCEPT ![e.key] = e.object]]
         ELSE Record(s, e.class, e.key, e.object)

(* `observe`: what one event makes of the stream.                          *)
Observe(s, e) ==
  CASE e.type = "error"    -> Fail(s, e.failure)
    [] e.type = "bookmark" -> Checkpointed(s, e.version)
    [] e.type = "initial_events_end" ->
         IF s.staging # None
         THEN Listed(s, s.staging, e.version)
         ELSE Checkpointed(s, e.version)
    [] e.type = "change" ->
         IF Stages(s, e)
         THEN [s EXCEPT !.staging[e.key] = e.object]
         ELSE Record(s, e.class, e.key, e.object)

(* What `observe` reports of it; a stream that is not receiving discards.  *)
Reception(s, e) ==
  CASE e.type = "error" ->
         IF e.failure = "interrupted" THEN "suspended" ELSE "continuity_broken"
    [] e.type = "initial_events_end" /\ s.staging # None -> "synchronised"
    [] Stages(s, e)       -> "staged"
    [] OTHER -> IF s.state # "live" THEN "discarded"
                ELSE IF e.type = "change" THEN "applied" ELSE "checkpointed"

(* `begin_streaming_list`: refused to a denied stream, and nothing to an   *)
(* acquired one.                                                           *)
BeginStreamingList(s) ==
  IF s.state \in {"syncing", "gap_detected"}
  THEN [s EXCEPT !.staging = EmptyCache]
  ELSE s

AbandonStreamingList(s) == [s EXCEPT !.staging = None]

IsStreamingList(s) == s.staging # None

CanReconnect(s) == /\ s.state \in {"live", "reconnecting"}
                   /\ s.checkpoint # None

Reconnected(s) == IF CanReconnect(s) THEN [s EXCEPT !.state = "live"] ELSE s

HasSynced(s)           == s.state \in {"live", "reconnecting"}
AbsenceIsConclusive(s) == s.state = "live"
IsPendingWrite(s, k)   == k \in s.pending_writes

(* `find`: a quarantined object is not served.                             *)
Find(s, k) == IF IsPendingWrite(s, k) THEN None ELSE s.objects[k]

(* `written`: only the stream that will receive the event quarantines.     *)
Written(s, k) ==
  IF AbsenceIsConclusive(s)
  THEN [s EXCEPT !.pending_writes = @ \cup {k}]
  ELSE s

=============================================================================
