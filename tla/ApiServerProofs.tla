---------------------------- MODULE ApiServerProofs --------------------------
(***************************************************************************)
(* Facts about the API server and about the methods of a stream (WatchOps) *)
(* that the proofs about the modules which join the two rest on.           *)
(***************************************************************************)
EXTENDS ApiServer, TLAPS

(* The server only ever adds to its history.                               *)
LEMMA ServerGrows ==
  ASSUME ServerTypeOK, OneChangePerVersion, ServerNext
  PROVE  /\ ServerTypeOK'
         /\ OneChangePerVersion'
         /\ Now' >= Now
         /\ \A v \in 1..Now : history'[v] = history[v]
<1>1. /\ history \in Seq(Cache) /\ Now \in Nat /\ Now >= 1
      /\ oldest \in 1..Now
      /\ history[Now] \in Cache
  BY DEF ServerTypeOK, Now
<1>2. ASSUME NEW snapshot \in Cache, history' = Append(history, snapshot), oldest' = oldest,
             \A k, j \in Keys : k # j => \/ snapshot[k] = history[Now][k]
                                         \/ snapshot[j] = history[Now][j],
             \A k \in Keys : \/ snapshot[k] = history[Now][k]
                             \/ snapshot[k] = None
                             \/ snapshot[k].rv = Now + 1
      PROVE  /\ ServerTypeOK'
             /\ OneChangePerVersion'
             /\ Now' >= Now
             /\ \A v \in 1..Now : history'[v] = history[v]
  <2>1. Now' = Now + 1 /\ history' \in Seq(Cache)
    BY <1>1, <1>2 DEF Now
  <2>2. history'[Now + 1] = snapshot
    BY <1>1, <1>2 DEF Now
  <2>3. \A v \in 1..Now : history'[v] = history[v]
    BY <1>1, <1>2 DEF Now
  <2>4. ServerTypeOK'
    BY <1>1, <1>2, <2>1 DEF ServerTypeOK, Now
  <2>5. OneChangePerVersion'
    <3> SUFFICES ASSUME NEW v \in 2..Now', NEW k \in Keys, Changed(v, k)'
                 PROVE  /\ \A j \in Keys \ {k} : ~ Changed(v, j)'
                        /\ history'[v][k] # None => history'[v][k].rv = v
      BY DEF OneChangePerVersion
    <3>1. CASE v \in 2..Now
      <4>1. history'[v] = history[v] /\ history'[v - 1] = history[v - 1]
        BY <1>1, <2>3, <3>1
      <4> QED BY <3>1, <4>1 DEF OneChangePerVersion, Changed
    <3>2. CASE v = Now + 1
      <4>1. history'[v] = snapshot /\ history'[v - 1] = history[Now]
        BY <1>1, <2>2, <2>3, <3>2
      <4> QED BY <1>2, <3>2, <4>1 DEF Changed
    <3> QED BY <1>1, <2>1, <3>1, <3>2
  <2> QED BY <1>1, <2>1, <2>3, <2>4, <2>5
<1>3. ASSUME NEW k \in Keys, Write(k)
      PROVE  /\ ServerTypeOK' /\ OneChangePerVersion' /\ Now' >= Now
             /\ \A v \in 1..Now : history'[v] = history[v]
  <2> DEFINE snapshot == Put(history[Now], k, Now + 1)
  <2>1. snapshot \in Cache
    BY <1>1 DEF Put, Cache, Object, Version
  <2>2. /\ \A j \in Keys : j # k => snapshot[j] = history[Now][j]
        /\ snapshot[k].rv = Now + 1
    BY <1>1 DEF Put, Cache
  <2>3. history' = Append(history, snapshot) /\ oldest' = oldest
    BY <1>3 DEF Write
  <2> HIDE DEF snapshot
  <2> QED BY <1>2, <2>1, <2>2, <2>3
<1>4. ASSUME NEW k \in Keys, Delete(k)
      PROVE  /\ ServerTypeOK' /\ OneChangePerVersion' /\ Now' >= Now
             /\ \A v \in 1..Now : history'[v] = history[v]
  <2> DEFINE snapshot == [history[Now] EXCEPT ![k] = None]
  <2>1. snapshot \in Cache
    BY <1>1 DEF Cache
  <2>2. /\ \A j \in Keys : j # k => snapshot[j] = history[Now][j]
        /\ snapshot[k] = None
    BY <1>1 DEF Cache
  <2>3. history' = Append(history, snapshot) /\ oldest' = oldest
    BY <1>4 DEF Delete
  <2> HIDE DEF snapshot
  <2> QED BY <1>2, <2>1, <2>2, <2>3
<1>5. CASE WriteElsewhere
  BY <1>1, <1>2, <1>5 DEF WriteElsewhere
<1>6. CASE Compact
  BY <1>1, <1>6 DEF Compact, ServerTypeOK, OneChangePerVersion, Changed, Now
<1> QED BY <1>3, <1>4, <1>5, <1>6 DEF ServerNext

(* The event of the next change carries the collection from where the body *)
(* stands to exactly the version of the event.                             *)
LEMMA NextEvent ==
  ASSUME ServerTypeOK, OneChangePerVersion,
         NEW from \in 1..Now, NEW v \in 1..Now, NEW k \in Keys, IsNext(from, v, k)
  PROVE  /\ EventAt(v, k).type = "change" /\ EventAt(v, k).key = k
         /\ EventAt(v, k).class \in ChangeClass
         /\ EventAt(v, k).object \in Object /\ EventAt(v, k).object.rv = v
         /\ history[v] = [history[from] EXCEPT ![k] = IF EventAt(v, k).class = "deleted"
                                                     THEN None ELSE EventAt(v, k).object]
<1>1. /\ history \in Seq(Cache) /\ Now \in Nat
      /\ v \in (from + 1)..Now
  BY DEF ServerTypeOK, Now, IsNext
<1>2. v \in 2..Now /\ v - 1 \in 1..Now
  BY <1>1
<1>3. history[v] \in Cache /\ history[v - 1] \in Cache
  BY <1>1, <1>2 DEF Now
<1>4. history[v - 1] = history[from]
  <2>1. CASE v - 1 = from
    BY <2>1
  <2>2. CASE v - 1 # from
    <3>1. v - 1 \in (from + 1)..(v - 1)
      BY <1>1, <2>2
    <3> QED BY <3>1 DEF IsNext, QuietBetween
  <2> QED BY <2>1, <2>2
<1>5. /\ history[v][k] # history[v - 1][k]
      /\ \A j \in Keys \ {k} : history[v][j] = history[v - 1][j]
      /\ history[v][k] # None => history[v][k].rv = v
  BY <1>2 DEF IsNext, OneChangePerVersion, Changed
<1>6. history[v] = [history[v - 1] EXCEPT ![k] = history[v][k]]
  BY <1>3, <1>5 DEF Cache
<1>7. CASE history[v][k] = None
  <2>1. history[v - 1][k] \in Object
    BY <1>3, <1>5, <1>7 DEF Cache
  <2>2. EventAt(v, k) = [type |-> "change", class |-> "deleted", key |-> k,
                         object |-> [uid |-> history[v - 1][k].uid, rv |-> v]]
    BY <1>7 DEF EventAt, Change
  <2>3. [uid |-> history[v - 1][k].uid, rv |-> v] \in Object
    BY <1>2, <2>1 DEF Object, Version
  <2> QED BY <1>2, <1>4, <1>6, <1>7, <2>2, <2>3 DEF ChangeClass
<1>8. CASE history[v][k] # None
  <2>1. history[v][k] \in Object
    BY <1>3, <1>8 DEF Cache
  <2>2. EventAt(v, k) = [type |-> "change",
                         class |-> IF history[v - 1][k] = None THEN "added" ELSE "modified",
                         key |-> k, object |-> history[v][k]]
    BY <1>8 DEF EventAt, Change
  <2> QED BY <1>2, <1>4, <1>5, <1>6, <1>8, <2>1, <2>2 DEF ChangeClass
<1> QED BY <1>7, <1>8

-----------------------------------------------------------------------------
(* The methods of a stream make a stream of a stream.                      *)

(* The stream a session opens is a stream: nothing is known yet.           *)
LEMMA NewStreamType == NewStream \in WatchStream
BY DEF NewStream, WatchStream, SyncState, EmptyCache, Cache

(* Closing a period, or a gap, changes only the edge it is closed at.      *)
LEMMA ClosedSegmentType ==
  ASSUME NEW segment \in Segment, NEW c \in Version \cup {None}
  PROVE  [segment EXCEPT !.closed_at = c] \in Segment
BY DEF Segment

(* A gap that is closed is a gap.                                          *)
LEMMA ClosedGapType ==
  ASSUME NEW gap \in WatchGap, NEW v \in Version
  PROVE  [gap EXCEPT !.resumed_at = v] \in WatchGap
BY DEF WatchGap

(* Closing the open period keeps the list of periods well formed.          *)
LEMMA CloseOpenSegmentType ==
  ASSUME NEW s \in WatchStream
  PROVE  /\ CloseOpenSegment(s) \in Seq(Segment)
         /\ Len(CloseOpenSegment(s)) = Len(s.segments)
<1>1. s.segments \in Seq(Segment) /\ s.checkpoint \in Version \cup {None}
  BY DEF WatchStream
<1>2. CASE HasOpenSegment(s)
  <2>1. Len(s.segments) \in 1..Len(s.segments)
    BY <1>1, <1>2 DEF HasOpenSegment
  <2>2. s.segments[Len(s.segments)] \in Segment
    BY <1>1, <2>1
  <2>3. [s.segments[Len(s.segments)] EXCEPT !.closed_at = s.checkpoint] \in Segment
    BY <1>1, <2>2, ClosedSegmentType
  <2> QED BY <1>1, <1>2, <2>1, <2>3 DEF CloseOpenSegment
<1>3. CASE ~ HasOpenSegment(s)
  BY <1>1, <1>3 DEF CloseOpenSegment
<1> QED BY <1>2, <1>3

(* The gaps after a listing: the open one closes, or a restart is added.   *)
LEMMA GapsAfterListingType ==
  ASSUME NEW s \in WatchStream, NEW v \in Version
  PROVE  GapsAfterListing(s, v) \in Seq(WatchGap)
<1>1. s.gaps \in Seq(WatchGap) /\ s.checkpoint \in Version \cup {None}
  BY DEF WatchStream
<1>2. CASE HasOpenGap(s)
  <2>1. Len(s.gaps) \in 1..Len(s.gaps)
    BY <1>1, <1>2 DEF HasOpenGap
  <2>2. s.gaps[Len(s.gaps)] \in WatchGap
    BY <1>1, <2>1
  <2>3. [s.gaps[Len(s.gaps)] EXCEPT !.resumed_at = v] \in WatchGap
    BY <2>2, ClosedGapType
  <2> QED BY <1>1, <1>2, <2>1, <2>3 DEF GapsAfterListing
<1>3. Gap("restarted", s.checkpoint, v) \in WatchGap
  BY <1>1 DEF Gap, WatchGap, GapReason
<1> QED BY <1>1, <1>2, <1>3 DEF GapsAfterListing

(* `listed` makes a stream that is live at the version of the listing.     *)
LEMMA ListedType ==
  ASSUME NEW s \in WatchStream, NEW objects \in Cache, NEW v \in Version
  PROVE  Listed(s, objects, v) \in WatchStream
<1>1. [started_at |-> v, closed_at |-> None, changes |-> << >>, trimmed |-> 0] \in Segment
  BY DEF Segment
<1>2. Append(CloseOpenSegment(s),
             [started_at |-> v, closed_at |-> None, changes |-> << >>, trimmed |-> 0])
        \in Seq(Segment)
  BY <1>1, CloseOpenSegmentType
<1>3. GapsAfterListing(s, v) \in Seq(WatchGap)
  BY GapsAfterListingType
<1> QED BY <1>2, <1>3 DEF Listed, WatchStream, SyncState

(* The first element of a log that holds something.                        *)
LEMMA FirstOfSeq ==
  ASSUME NEW T, NEW q \in Seq(T), Len(q) >= 1
  PROVE  q # << >> /\ q[1] \in T
<1>1. 1 \in 1..Len(q)
  OBVIOUS
<1> QED BY <1>1

(* A full log makes room before it takes the change, so it is never longer *)
(* than its bound allowed before.                                          *)
LEMMA PushType ==
  ASSUME NEW segment \in Segment, NEW change \in ObservedChange
  PROVE  /\ Push(segment, change) \in Segment
         /\ Push(segment, change).changes # << >>
         /\ Push(segment, change).changes[1] \in ObservedChange
<1>1. segment.changes \in Seq(ObservedChange) /\ segment.trimmed \in Nat
  BY DEF Segment
<1>2. CASE LogFull(segment)
  <2>1. TrimBlock + 1 \in Nat /\ TrimBlock + 1 >= 1 /\ TrimBlock \in Nat
    BY LogAssumption
  <2>2. SubSeq(segment.changes, TrimBlock + 1, Len(segment.changes)) \in Seq(ObservedChange)
    BY <1>1, <2>1
  <2> DEFINE log == Append(SubSeq(segment.changes, TrimBlock + 1, Len(segment.changes)), change)
  <2>3. log \in Seq(ObservedChange) /\ Len(log) >= 1
    BY <2>2
  <2>4. log # << >> /\ log[1] \in ObservedChange
    <3> HIDE DEF log
    <3> QED BY <2>3, FirstOfSeq
  <2>5. Push(segment, change) = [segment EXCEPT !.changes = log,
                                                !.trimmed = segment.trimmed + TrimBlock]
    BY <1>2 DEF Push
  <2> HIDE DEF log
  <2>6. Push(segment, change).changes = log
    BY <2>5 DEF Segment
  <2>7. segment.trimmed + TrimBlock \in Nat
    BY <1>1, <2>1
  <2>8. Push(segment, change) \in Segment
    BY <2>3, <2>5, <2>7 DEF Segment
  <2> QED BY <2>4, <2>6, <2>8
<1>3. CASE ~ LogFull(segment)
  <2> DEFINE log == Append(segment.changes, change)
  <2>1. log \in Seq(ObservedChange) /\ Len(log) >= 1
    BY <1>1
  <2>2. log # << >> /\ log[1] \in ObservedChange
    <3> HIDE DEF log
    <3> QED BY <2>1, FirstOfSeq
  <2>3. Push(segment, change) = [segment EXCEPT !.changes = log]
    BY <1>3 DEF Push
  <2> HIDE DEF log
  <2> QED BY <2>1, <2>2, <2>3 DEF Segment
<1> QED BY <1>2, <1>3

(* A recorded trim is a gap with two edges.                                *)
LEMMA RecordTrimType ==
  ASSUME NEW gaps \in Seq(WatchGap), NEW trim_gap \in Nat \cup {None},
         NEW segment \in Segment, segment.changes[1] \in ObservedChange
  PROVE  RecordTrim(gaps, trim_gap, segment) \in Seq(WatchGap)
<1>1. RetainedFrom(segment) \in Version
  BY DEF RetainedFrom, ObservedChange
<1>2. CASE trim_gap # None /\ trim_gap \in 1..Len(gaps)
  <2>1. gaps[trim_gap] \in WatchGap
    BY <1>2
  <2>2. [gaps[trim_gap] EXCEPT !.resumed_at = RetainedFrom(segment)] \in WatchGap
    BY <1>1, <2>1, ClosedGapType
  <2> QED BY <1>2, <2>2 DEF RecordTrim
<1>3. CASE ~ (trim_gap # None /\ trim_gap \in 1..Len(gaps))
  <2>1. segment.started_at \in Version
    BY DEF Segment
  <2>2. Gap("trimmed", segment.started_at, RetainedFrom(segment)) \in WatchGap
    BY <1>1, <2>1 DEF Gap, WatchGap, GapReason
  <2> QED BY <1>3, <2>2 DEF RecordTrim
<1> QED BY <1>2, <1>3

(* `record` on a live stream: the cache takes the change and the stream    *)
(* stands at its version.                                                  *)
LEMMA RecordLive ==
  ASSUME NEW s \in WatchStream, NEW class \in ChangeClass, NEW k \in Keys, NEW o \in Object,
         s.state = "live"
  PROVE  LET t == Record(s, class, k, o)
         IN  /\ t \in WatchStream
             /\ t.state = "live"
             /\ t.staging = s.staging
             /\ t.checkpoint = o.rv
             /\ t.pending_writes = s.pending_writes \ {k}
             /\ t.objects = [s.objects EXCEPT ![k] = IF class = "deleted" THEN None ELSE o]
<1> DEFINE n      == Len(s.segments)
           change == [class |-> class, key |-> k, uid |-> o.uid, rv |-> o.rv]
           pushed == Push(s.segments[n], change)
           trims  == n > 0 /\ LogFull(s.segments[n])
           segs   == IF n > 0 THEN [s.segments EXCEPT ![n] = pushed] ELSE s.segments
           gps    == IF trims THEN RecordTrim(s.gaps, s.trim_gap, pushed) ELSE s.gaps
           cache  == [s.objects EXCEPT ![k] = IF class = "deleted" THEN None ELSE o]
           trim   == IF trims /\ (s.trim_gap = None \/ s.trim_gap \notin 1..Len(s.gaps))
                     THEN Len(s.gaps) + 1 ELSE s.trim_gap
<1>1. /\ s.segments \in Seq(Segment) /\ s.gaps \in Seq(WatchGap)
      /\ s.trim_gap \in Nat \cup {None}
      /\ s.objects \in Cache
  BY DEF WatchStream
<1>2. change \in ObservedChange
  BY DEF ObservedChange, Object
<1>3. n \in Nat
  BY <1>1
<1>4. n > 0 => /\ pushed \in Segment
               /\ pushed.changes[1] \in ObservedChange
  <2>1. n > 0 => s.segments[n] \in Segment
    BY <1>1
  <2> QED BY <1>2, <2>1, PushType
<1>5. segs \in Seq(Segment)
  BY <1>1, <1>3, <1>4
<1>6. gps \in Seq(WatchGap)
  BY <1>1, <1>4, RecordTrimType
<1>7. trim \in Nat \cup {None}
  BY <1>1
<1>8. cache \in Cache
  BY <1>1 DEF Cache
<1>9. Record(s, class, k, o) =
        [s EXCEPT !.checkpoint     = o.rv,
                  !.objects        = cache,
                  !.pending_writes = s.pending_writes \ {k},
                  !.segments       = segs,
                  !.gaps           = gps,
                  !.trim_gap       = trim]
  BY DEF Record, WatchStream
<1>10. o.rv \in Version
  BY DEF Object
<1>11. Record(s, class, k, o) \in WatchStream
  <2> HIDE DEF n, change, pushed, trims, segs, gps, trim, cache
  <2> QED BY <1>5, <1>6, <1>7, <1>8, <1>9, <1>10 DEF WatchStream
<1>12. /\ Record(s, class, k, o).state = "live"
       /\ Record(s, class, k, o).staging = s.staging
       /\ Record(s, class, k, o).checkpoint = o.rv
       /\ Record(s, class, k, o).pending_writes = s.pending_writes \ {k}
       /\ Record(s, class, k, o).objects = cache
  <2> HIDE DEF n, change, pushed, trims, segs, gps, trim, cache
  <2> QED BY <1>9 DEF WatchStream
<1> QED BY <1>11, <1>12

(* A break leaves a stream that claims nothing: no checkpoint, nothing     *)
(* staged, not synchronised.                                               *)
LEMMA BreakType ==
  ASSUME NEW s \in WatchStream, NEW reason \in GapReason, NEW state \in {"gap_detected", "denied"}
  PROVE  LET t == BreakContinuity(s, reason, state)
         IN  /\ t \in WatchStream
             /\ t.staging = None
             /\ ~ HasSynced(t)
<1>1. CASE s.state \in {"gap_detected", "denied"}
  BY <1>1 DEF BreakContinuity, WatchStream, HasSynced
<1>2. CASE s.state \notin {"gap_detected", "denied"}
  <2>1. CloseOpenSegment(s) \in Seq(Segment)
    BY CloseOpenSegmentType
  <2>2. Gap(reason, s.checkpoint, None) \in WatchGap
    BY DEF Gap, WatchGap, WatchStream
  <2>3. Append(s.gaps, Gap(reason, s.checkpoint, None)) \in Seq(WatchGap)
    BY <2>2 DEF WatchStream
  <2> QED BY <1>2, <2>1, <2>3 DEF BreakContinuity, WatchStream, SyncState, HasSynced
<1> QED BY <1>1, <1>2

(* An error suspends a stream or takes its checkpoint, and never touches   *)
(* the cache.                                                              *)
LEMMA ErrorEffect ==
  ASSUME NEW s \in WatchStream, NEW failure \in {"interrupted", "expired", "denied"}
  PROVE  LET t == Observe(s, Error(failure))
         IN  /\ t \in WatchStream
             /\ t.objects = s.objects
             /\ t.pending_writes = s.pending_writes
             /\ Reception(s, Error(failure)) \in {"suspended", "continuity_broken"}
             /\ failure = "interrupted" =>
                  /\ t.state = IF s.state = "live" THEN "reconnecting" ELSE s.state
                  /\ t.checkpoint = s.checkpoint
                  /\ t.staging = s.staging
             /\ failure # "interrupted" =>
                  /\ t.state \in {"gap_detected", "denied"}
                  /\ t.checkpoint \in {s.checkpoint, None}
                  /\ t.staging = None
<1>1. Observe(s, Error(failure)) = Fail(s, failure)
  BY DEF Observe, Error
<1>2. Reception(s, Error(failure)) \in {"suspended", "continuity_broken"}
  <2> DEFINE e == Error(failure)
  <2>1. e.type = "error" /\ e.failure = failure
    BY DEF Error
  <2> HIDE DEF e
  <2>2. Reception(s, e) = IF failure = "interrupted" THEN "suspended" ELSE "continuity_broken"
    BY <2>1 DEF Reception, Stages
  <2> QED BY <2>2 DEF e
<1>3. CASE failure = "interrupted"
  <2>1. Fail(s, failure) = IF s.state = "live" THEN [s EXCEPT !.state = "reconnecting"] ELSE s
    BY <1>3 DEF Fail
  <2> QED BY <1>1, <1>2, <1>3, <2>1 DEF WatchStream, SyncState
<1>4. ASSUME NEW reason \in GapReason, NEW state \in {"gap_detected", "denied"},
             Fail(s, failure) = BreakContinuity(s, reason, state)
      PROVE  /\ Fail(s, failure) \in WatchStream
             /\ Fail(s, failure).objects = s.objects
             /\ Fail(s, failure).pending_writes = s.pending_writes
             /\ Fail(s, failure).state \in {"gap_detected", "denied"}
             /\ Fail(s, failure).checkpoint \in {s.checkpoint, None}
             /\ Fail(s, failure).staging = None
  <2>1. BreakContinuity(s, reason, state) \in WatchStream
    BY BreakType
  <2>2. CASE s.state \in {"gap_detected", "denied"}
    BY <1>4, <2>1, <2>2 DEF BreakContinuity, WatchStream
  <2>3. CASE s.state \notin {"gap_detected", "denied"}
    BY <1>4, <2>1, <2>3 DEF BreakContinuity, WatchStream
  <2> QED BY <2>2, <2>3
<1>5. CASE failure = "expired"
  <2>1. Fail(s, failure) = BreakContinuity(s, "expired", "gap_detected")
    BY <1>5 DEF Fail
  <2> QED BY <1>1, <1>2, <1>4, <1>5, <2>1 DEF GapReason
<1>6. CASE failure = "denied"
  <2>1. Fail(s, failure) = BreakContinuity(s, "access_denied", "denied")
    BY <1>6 DEF Fail
  <2> QED BY <1>1, <1>2, <1>4, <1>6, <2>1 DEF GapReason
<1> QED BY <1>3, <1>5, <1>6

(* A change is staged by a streaming list, applied by a live stream and    *)
(* dropped by any other.                                                   *)
LEMMA ChangeEffect ==
  ASSUME NEW s \in WatchStream, NEW class \in ChangeClass, NEW k \in Keys, NEW o \in Object
  PROVE  LET e == Change(class, k, o)
             t == Observe(s, e)
         IN  /\ t \in WatchStream
             /\ Reception(s, e) = IF class = "added" /\ s.staging # None THEN "staged"
                                  ELSE IF s.state = "live" THEN "applied" ELSE "discarded"
             /\ Reception(s, e) = "staged" =>
                  /\ t.state = s.state /\ t.checkpoint = s.checkpoint
                  /\ t.objects = s.objects /\ t.pending_writes = s.pending_writes
                  /\ t.staging = [s.staging EXCEPT ![k] = o]
             /\ Reception(s, e) = "discarded" => t = s
             /\ Reception(s, e) = "applied" =>
                  /\ t.state = s.state /\ t.checkpoint = o.rv
                  /\ t.staging = s.staging
                  /\ t.pending_writes = s.pending_writes \ {k}
                  /\ t.objects = [s.objects EXCEPT ![k] = IF class = "deleted" THEN None ELSE o]
<1> DEFINE e == Change(class, k, o)
<1>1. /\ e.type = "change" /\ e.class = class /\ e.key = k /\ e.object = o
  BY DEF Change
<1>2. /\ Stages(s, e) <=> class = "added" /\ s.staging # None
      /\ Reception(s, e) = IF class = "added" /\ s.staging # None THEN "staged"
                           ELSE IF s.state = "live" THEN "applied" ELSE "discarded"
  <2> HIDE DEF e
  <2> QED BY <1>1 DEF Stages, Reception
<1>3. Observe(s, e) = IF Stages(s, e) THEN [s EXCEPT !.staging[k] = o] ELSE Record(s, class, k, o)
  <2> HIDE DEF e
  <2> QED BY <1>1 DEF Observe
<1> HIDE DEF e
<1>4. CASE Stages(s, e)
  <2>1. s.staging \in Cache
    BY <1>2, <1>4 DEF WatchStream
  <2> DEFINE staged == [s.staging EXCEPT ![k] = o]
  <2>2. staged \in Cache
    BY <2>1 DEF Cache
  <2>3. Observe(s, e) = [s EXCEPT !.staging = staged]
    BY <1>3, <1>4
  <2>4. /\ Observe(s, e) \in WatchStream
        /\ Observe(s, e).state = s.state /\ Observe(s, e).checkpoint = s.checkpoint
        /\ Observe(s, e).objects = s.objects
        /\ Observe(s, e).pending_writes = s.pending_writes
        /\ Observe(s, e).staging = staged
    <3> HIDE DEF staged
    <3> QED BY <2>2, <2>3 DEF WatchStream
  <2> QED BY <1>2, <1>4, <2>4 DEF e
<1>5. CASE ~ Stages(s, e) /\ s.state = "live"
  <2>1. /\ Record(s, class, k, o) \in WatchStream
        /\ Record(s, class, k, o).state = "live"
        /\ Record(s, class, k, o).staging = s.staging
        /\ Record(s, class, k, o).checkpoint = o.rv
        /\ Record(s, class, k, o).pending_writes = s.pending_writes \ {k}
        /\ Record(s, class, k, o).objects =
             [s.objects EXCEPT ![k] = IF class = "deleted" THEN None ELSE o]
    BY <1>5, RecordLive
  <2> QED BY <1>2, <1>3, <1>5, <2>1 DEF e
<1>6. CASE ~ Stages(s, e) /\ s.state # "live"
  <2>1. Observe(s, e) = s
    BY <1>3, <1>6 DEF Record
  <2> QED BY <1>2, <1>6, <2>1 DEF e
<1> QED BY <1>4, <1>5, <1>6

(* A bookmark moves a live stream and no other.                            *)
LEMMA CheckpointedEffect ==
  ASSUME NEW s \in WatchStream, NEW v \in Version
  PROVE  LET t == Checkpointed(s, v)
         IN  /\ t \in WatchStream
             /\ t.state = s.state /\ t.objects = s.objects
             /\ t.pending_writes = s.pending_writes /\ t.staging = s.staging
             /\ t.checkpoint = IF s.state = "live" THEN v ELSE s.checkpoint
BY DEF Checkpointed, WatchStream

(* What a bookmark makes of a stream.                                      *)
LEMMA BookmarkEffect ==
  ASSUME NEW s \in WatchStream, NEW v \in Version
  PROVE  /\ Observe(s, Bookmark(v)) = Checkpointed(s, v)
         /\ Reception(s, Bookmark(v)) \in {"checkpointed", "discarded"}
BY DEF Observe, Bookmark, Reception, Stages

(* The bookmark that ends a streaming list makes what is staged the cache; *)
(* without one it is a bookmark like any other.                            *)
LEMMA EndEffect ==
  ASSUME NEW s \in WatchStream, NEW v \in Version
  PROVE  /\ Observe(s, InitialEventsEnd(v)) =
              IF s.staging # None THEN Listed(s, s.staging, v) ELSE Checkpointed(s, v)
         /\ s.staging # None => Reception(s, InitialEventsEnd(v)) = "synchronised"
         /\ s.staging = None => Reception(s, InitialEventsEnd(v)) \in {"checkpointed", "discarded"}
BY DEF Observe, InitialEventsEnd, Reception, Stages
=============================================================================
