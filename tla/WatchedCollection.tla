-------------------------- MODULE WatchedCollection -------------------------
(***************************************************************************)
(* One watch stream (WatchOps) kept true by one feed from the API server:  *)
(* the contract between `WatchStream` and whoever feeds it.  A feed lists  *)
(* the collection, or streams a list, and then delivers the changes in the *)
(* order the server made them, until the body ends, the history it needs   *)
(* is gone, or access is refused.                                          *)
(*                                                                         *)
(* Who feeds it, and in which order it takes the steps, is module          *)
(* ChangeView; here any order the methods themselves allow may happen.     *)
(***************************************************************************)
EXTENDS ApiServer

CONSTANT MaxBreaks      \* bound on the breaks of a behaviour

ASSUME MaxBreaksAssumption == MaxBreaks \in Nat

VARIABLES
  stream,   \* the WatchStream of the collection
  feed,     \* the response body being read: where the server is in it
  listing   \* the version of a listing that is being read, or None

client == << stream, feed, listing >>
vars   == << server, client >>

(* `at` is the last version the body has delivered; `todo` are the objects *)
(* of the initial state a streaming list has still to send.                *)
Feed == [phase : {"closed", "initial", "changes"},
         at    : Version,
         todo  : SUBSET Keys]

Closed == [phase |-> "closed", at |-> 0, todo |-> {}]

TypeOK ==
  /\ ServerTypeOK
  /\ stream \in WatchStream
  /\ feed \in Feed
  /\ listing \in Version \cup {None}

Init ==
  /\ ServerInit
  /\ stream = NewStream
  /\ feed = Closed
  /\ listing = None

-----------------------------------------------------------------------------
(* Acquisition.                                                            *)

Idle == feed.phase = "closed" /\ listing = None

(* A break is counted by the gap it leaves; the bound is on those.         *)
MayBreak == Len(stream.gaps) < MaxBreaks

(* A listing is read: its pages all stand at the version of the first.     *)
StartListing ==
  /\ Idle
  /\ MayBreak
  /\ listing' = Now
  /\ UNCHANGED << server, stream, feed >>

(* A mutated form of the next: the objects are later than their version.   *)
FinishListingMixed ==
  /\ listing # None
  /\ stream' = Listed(stream, history[Now], listing)
  /\ listing' = None
  /\ UNCHANGED << server, feed >>

FinishListing ==
  /\ listing # None
  /\ stream' = Listed(stream, history[listing], listing)
  /\ listing' = None
  /\ UNCHANGED << server, feed >>

(* A listing that failed, or that lost a page, seeds nothing.              *)
LoseListing ==
  /\ listing # None
  /\ listing' = None
  /\ UNCHANGED << server, stream, feed >>

(* The initial state is to be asked for on the watch itself.               *)
BeginStream ==
  /\ Idle
  /\ stream.state \in {"syncing", "gap_detected"}
  /\ stream' = BeginStreamingList(stream)
  /\ UNCHANGED << server, feed, listing >>

(* A streaming list is only opened over nothing staged: an attempt that    *)
(* was cut short is abandoned before there is another.                     *)
OpenStreamingList ==
  /\ Idle
  /\ stream.staging = EmptyCache
  /\ feed' = [phase |-> "initial", at |-> Now,
              todo |-> {k \in Keys : history[Now][k] # None}]
  /\ UNCHANGED << server, stream, listing >>

AbandonStream ==
  /\ Idle
  /\ IsStreamingList(stream)
  /\ stream' = AbandonStreamingList(stream)
  /\ UNCHANGED << server, feed, listing >>

-----------------------------------------------------------------------------
(* Watching.                                                               *)

Reconnect ==
  /\ Idle
  /\ stream.state = "reconnecting"
  /\ stream' = Reconnected(stream)
  /\ UNCHANGED << server, feed, listing >>

(* The watch opens where the stream stands, if the server still holds it.  *)
OpenWatch ==
  /\ Idle
  /\ stream.state = "live"
  /\ stream.checkpoint >= oldest
  /\ feed' = [phase |-> "changes", at |-> stream.checkpoint, todo |-> {}]
  /\ UNCHANGED << server, stream, listing >>

(* Or it does not, and says so with the status of the response: the        *)
(* history behind the checkpoint is gone, or the watch is forbidden.       *)
OpenRefused ==
  /\ Idle
  /\ MayBreak
  /\ stream.state = "live"
  /\ \/ /\ stream.checkpoint < oldest
        /\ stream' = Observe(stream, Error("expired"))
     \/ stream' = Observe(stream, Error("denied"))
  /\ UNCHANGED << server, feed, listing >>

SendInitial ==
  /\ feed.phase = "initial"
  /\ \E k \in feed.todo :
       /\ stream' = Observe(stream, Change("added", k, history[feed.at][k]))
       /\ feed' = [feed EXCEPT !.todo = @ \ {k}]
  /\ UNCHANGED << server, listing >>

EndInitial ==
  /\ feed.phase = "initial"
  /\ feed.todo = {}
  /\ stream' = Observe(stream, InitialEventsEnd(feed.at))
  /\ feed' = [feed EXCEPT !.phase = "changes"]
  /\ UNCHANGED << server, listing >>

Deliver ==
  /\ feed.phase = "changes"
  /\ \E v \in 1..Now, k \in Keys :
       /\ IsNext(feed.at, v, k)
       /\ stream' = Observe(stream, EventAt(v, k))
       /\ feed' = [feed EXCEPT !.at = v]
  /\ UNCHANGED << server, listing >>

SendBookmark ==
  /\ feed.phase = "changes"
  /\ \E v \in (feed.at + 1)..Now :
       /\ QuietBetween(feed.at, v)
       /\ stream' = Observe(stream, Bookmark(v))
       /\ feed' = [feed EXCEPT !.at = v]
  /\ UNCHANGED << server, listing >>

(* The body ends: cleanly, which no event reports, or mid-stream.          *)
EndBody ==
  /\ feed.phase # "closed"
  /\ feed' = Closed
  /\ stream' \in {stream, Observe(stream, Error("interrupted"))}
  /\ UNCHANGED << server, listing >>

(* The history expires under an open body, or the server refuses it.       *)
BreakBody ==
  /\ feed.phase # "closed"
  /\ MayBreak
  /\ feed' = Closed
  /\ \E failure \in {"expired", "denied"} :
       stream' = Observe(stream, Error(failure))
  /\ UNCHANGED << server, listing >>

(* This session wrote k: the live stream quarantines it until its event.   *)
OwnWrite(k) ==
  /\ stream' = Written(stream, k)
  /\ UNCHANGED << server, feed, listing >>

(* A stream that is not live is released with the view that read it, and   *)
(* the next use of the collection starts a new one.                        *)
Release ==
  /\ Idle
  /\ ~ AbsenceIsConclusive(stream)
  /\ stream' = NewStream
  /\ UNCHANGED << server, feed, listing >>

ServerStep == ServerNext /\ UNCHANGED client

Next ==
  \/ ServerStep
  \/ StartListing \/ FinishListing \/ LoseListing
  \/ BeginStream \/ OpenStreamingList \/ AbandonStream
  \/ Reconnect \/ OpenWatch \/ OpenRefused
  \/ SendInitial \/ EndInitial \/ Deliver \/ SendBookmark
  \/ EndBody \/ BreakBody
  \/ \E k \in Keys : OwnWrite(k)
  \/ Release

Spec == Init /\ [][Next]_vars

-----------------------------------------------------------------------------
(* Properties.                                                             *)

(* §20.3: while the stream says it has synchronised, its cache is the      *)
(* collection exactly as it stood at the checkpoint: nothing staged early, *)
(* nothing missed, nothing kept past its deletion.                         *)
CacheIsCollectionAtCheckpoint ==
  HasSynced(stream) =>
    /\ stream.checkpoint \in 1..Now
    /\ stream.objects = history[stream.checkpoint]

(* §19.1, §19.4: a watch body and the stream it feeds stand at the same    *)
(* version, so reopening at the checkpoint skips and repeats nothing.      *)
BodyStandsAtCheckpoint ==
  feed.phase = "changes" =>
    /\ stream.state = "live"
    /\ feed.at = stream.checkpoint

(* §19.2: what a streaming list has staged is the initial state less what  *)
(* is still to come, and none of it is in a cache that answers.            *)
StagedIsPartOfInitial ==
  /\ IsStreamingList(stream) => ~ HasSynced(stream)
  /\ feed.phase = "initial" =>
       /\ feed.at \in 1..Now
       /\ IsStreamingList(stream)
       /\ \A k \in Keys :
            stream.staging[k] = IF k \in feed.todo THEN None ELSE history[feed.at][k]

(* The last version a segment covers.                                      *)
EndOf(segment) == IF IsOpen(segment) THEN stream.checkpoint ELSE segment.closed_at

(* The versions within a segment at which the collection changed.          *)
ChangesWithin(segment) ==
  {v \in (segment.started_at + 1)..EndOf(segment) : history[v] # history[v - 1]}

(* §19.4: the change log of every period of observation, closed ones       *)
(* included, is every change the collection went through in it, in order   *)
(* and once, less the oldest `trimmed` ones.                               *)
LogIsCompleteSinceTrim ==
  \A i \in 1..Len(stream.segments) :
    LET segment == stream.segments[i]
        log     == segment.changes
        within  == ChangesWithin(segment)
        logged  == {log[j].rv : j \in 1..Len(log)}
    IN  /\ \A j \in 1..Len(log) - 1 : log[j].rv < log[j + 1].rv
        /\ logged \subseteq within
        /\ \A v \in within \ logged : \A w \in logged : v < w
        /\ (segment.trimmed = 0) <=> (logged = within)

(* §19.4 step 5, Gate F: between two periods of observation there is a gap *)
(* whose two edges are where the first ended and where the second began.   *)
PeriodsAreSeparatedByGaps ==
  \A i \in 1..Len(stream.segments) - 1 :
    \E j \in 1..Len(stream.gaps) :
      /\ stream.gaps[j].reason # "trimmed"
      /\ stream.gaps[j].after = stream.segments[i].closed_at
      /\ stream.gaps[j].resumed_at = stream.segments[i + 1].started_at

(* §18.5, §50.1: a period whose log forgot its beginning says so in a gap  *)
(* from where the period began to where its retained record begins.        *)
TrimIsReported ==
  \A i \in 1..Len(stream.segments) :
    stream.segments[i].trimmed > 0 =>
      Gap("trimmed", stream.segments[i].started_at, RetainedFrom(stream.segments[i]))
        \in {stream.gaps[j] : j \in 1..Len(stream.gaps)}

(* §18.5, §19.4: nothing is lost silently.  The two above together: a log  *)
(* is every change of its period less those a trimmed gap stands for.      *)
LossesAreReported == LogIsCompleteSinceTrim /\ TrimIsReported

(* A stream is broken exactly while its last gap is open, and observing    *)
(* exactly while its last period is; a stream that never broke has no gap  *)
(* and no second period.                                                   *)
ContinuityAgrees ==
  /\ HasSynced(stream) <=> stream.checkpoint # None
  /\ HasSynced(stream) <=> HasOpenSegment(stream)
  /\ (stream.state \in {"gap_detected", "denied"}) <=> HasOpenGap(stream)
  /\ \A i \in 1..Len(stream.segments) - 1 : ~ IsOpen(stream.segments[i])
  /\ \A j \in 1..Len(stream.gaps) - 1 : stream.gaps[j].resumed_at # None

(* §63.11, §19.5: two periods are never concatenated, and what the stream  *)
(* says of itself, its periods and its gaps agree.                         *)
PeriodsAndGapsAgree == PeriodsAreSeparatedByGaps /\ ContinuityAgrees

(* A listing is read with no body open, and stands at no earlier version   *)
(* than the stream.                                                        *)
ListingIsNotBehind ==
  listing # None =>
    /\ feed.phase = "closed"
    /\ listing \in 1..Now
    /\ HasSynced(stream) => stream.checkpoint <= listing

(* The inductive invariant: the cache is right at the checkpoint because   *)
(* whatever the stream is handed next continues from exactly there.        *)
IInv ==
  /\ TypeOK
  /\ OneChangePerVersion
  /\ CacheIsCollectionAtCheckpoint
  /\ BodyStandsAtCheckpoint
  /\ StagedIsPartOfInitial
  /\ ListingIsNotBehind

(* What a reader may rely on, and that the stream implements it: the       *)
(* collection is unknown, or known exactly as it was at one version, and   *)
(* what is known only moves forward, a change at a time or by a listing.   *)
KnownView ==
  IF HasSynced(stream)
  THEN [known |-> TRUE, at |-> stream.checkpoint, objects |-> stream.objects]
  ELSE [known |-> FALSE, at |-> 0, objects |-> EmptyCache]

Observed == INSTANCE ObservedCollection WITH view <- KnownView

ImplementsObserved == Observed!Spec
=============================================================================
