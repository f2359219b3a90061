------------------------------ MODULE ChangeView ----------------------------
(***************************************************************************)
(* The `k8s-change` query (changes.rs): invocations that acquire one       *)
(* collection, watch it and report it record by record, all of them        *)
(* through one session that also answers other questions from its cache    *)
(* and takes this package's own writes.                                    *)
(*                                                                         *)
(* An invocation takes the session's lock for a step at a time and never   *)
(* while it waits for the network or for its reader (`Held::with`), so a   *)
(* step that holds the lock is one action here, and every other step of    *)
(* every other invocation may come in between.                             *)
(***************************************************************************)
EXTENDS ApiServer, SessionOps

CONSTANTS
  Readers,       \* the `k8s-change` invocations that may be open at once
  Invocations,   \* bound: how often each of them is invoked
  OwnWritten,    \* the objects this session writes (a bound)
  MaxBreaks      \* bound on the expiries and refusals the server makes

ASSUME ViewAssumption ==
  /\ Invocations \in Nat /\ MaxBreaks \in Nat
  /\ OwnWritten \subseteq Keys

VARIABLES
  slot,      \* the session's entry for the collection: a Watched, or None
  refused,   \* whether the session holds StreamingLists as refused
  reader,    \* each invocation
  breaks     \* how many breaks the server has made

session == << slot, refused >>
vars    == << server, session, reader, breaks >>

(* Where an invocation is.  "state" is the match on the stream's state at  *)
(* the end of a round; the others are named for what they do next.         *)
Place == {"idle", "begin", "synchronise", "acquisition", "round", "open", "reading",
          "abandon", "refuse", "relist", "state", "reconnect", "close"}

(* A response body: a streaming list sends its objects and a bookmark and  *)
(* then changes; a watch opened at no version sends its objects and then   *)
(* changes; a watch opened at a version sends changes.                     *)
Body == [phase : {"closed", "initial", "unversioned", "changes"},
         at    : Version,
         todo  : SUBSET Keys]

NoBody == [phase |-> "closed", at |-> 0, todo |-> {}]

(* What the records emitted so far say, put together by whoever reads      *)
(* them: the objects, and the version of the last record (0: nothing).     *)
Seen == [at : Version, objects : Cache]

NothingSeen == [at |-> 0, objects |-> EmptyCache]

Reader == [pc        : Place,
           left      : Nat,                      \* invocations left
           listing   : Version \cup {None},      \* the listing being read
           from      : Version \cup {None},      \* what a round opens with
           streaming : BOOLEAN,
           body      : Body,
           seen      : Seen]

TypeOK ==
  /\ ServerTypeOK
  /\ slot \in Watched \cup {None}
  /\ refused \in BOOLEAN
  /\ reader \in [Readers -> Reader]
  /\ breaks \in 0..MaxBreaks

Init ==
  /\ ServerInit
  /\ slot = None
  /\ refused = FALSE
  /\ reader = [r \in Readers |->
                 [pc |-> "idle", left |-> Invocations, listing |-> None, from |-> None,
                  streaming |-> FALSE, body |-> NoBody, seen |-> NothingSeen]]
  /\ breaks = 0

At(r, place) == reader[r].pc = place

Goto(r, place) == reader' = [reader EXCEPT ![r].pc = place]

-----------------------------------------------------------------------------
(* Acquisition.                                                            *)

(* `Acquire` holds the lock across its reads: unless the cluster refused   *)
(* streaming lists the watch will deliver the state, else it is listed.    *)
Acquire(r) ==
  /\ At(r, "idle")
  /\ reader[r].left > 0
  /\ reader' = [reader EXCEPT
       ![r].pc      = IF refused THEN "synchronise" ELSE "begin",
       ![r].listing = IF refused THEN Now ELSE None,
       ![r].left    = @ - 1,
       ![r].seen    = NothingSeen]
  /\ UNCHANGED << server, session, breaks >>

(* A denied stream refuses, and the invocation fails.                      *)
Begin(r) ==
  /\ At(r, "begin")
  /\ slot' = OnStream(slot, BeginStreamingList(EntryFor(slot).stream))
  /\ Goto(r, IF EntryFor(slot).stream.state = "denied" THEN "close" ELSE "round")
  /\ UNCHANGED << server, refused, breaks >>

Synchronise(r) ==
  /\ At(r, "synchronise")
  /\ slot' = Synchronised(slot, history[reader[r].listing], reader[r].listing)
  /\ Goto(r, "acquisition")
  /\ UNCHANGED << server, refused, breaks >>

(* A listing that lost a page, or that broke, is no cache.                 *)
SyncRefused(r) ==
  /\ At(r, "synchronise")
  /\ reader' = [reader EXCEPT ![r].pc = "close", ![r].listing = None]
  /\ UNCHANGED << server, session, breaks >>

(* `acquisition`: the cache is copied under the lock and reported as       *)
(* `listed`, at the version of the listing or of the closing bookmark.     *)
(* An empty collection is reported by no record.                           *)
Acquisition(r) ==
  /\ At(r, "acquisition")
  /\ LET objects == IF slot = None THEN EmptyCache ELSE slot.stream.objects
         reading == reader[r].body.phase # "closed"
     IN  reader' = [reader EXCEPT
           ![r].pc      = IF reading THEN "reading" ELSE "round",
           ![r].listing = None,
           ![r].seen    = IF objects = EmptyCache
                          THEN @
                          ELSE [at |-> IF reading THEN reader[r].body.at ELSE reader[r].listing,
                                objects |-> objects]]
  /\ UNCHANGED << server, session, breaks >>

-----------------------------------------------------------------------------
(* A round: one watch response.                                            *)

Round(r) ==
  /\ At(r, "round")
  /\ reader' = [reader EXCEPT
       ![r].pc        = "open",
       ![r].from      = IF slot = None THEN None ELSE slot.stream.checkpoint,
       ![r].streaming = slot # None /\ IsStreamingList(slot.stream)]
  /\ UNCHANGED << server, session, breaks >>

Existing == {k \in Keys : history[Now][k] # None}

Opened(r, phase, at, todo) ==
  reader' = [reader EXCEPT ![r].pc   = "reading",
                           ![r].body = [phase |-> phase, at |-> at, todo |-> todo]]

(* The server takes the request: as a streaming list, as a watch from a    *)
(* version it still holds, or as a watch from no version at all.           *)
Open(r) ==
  /\ At(r, "open")
  /\ \/ /\ reader[r].streaming
        /\ Opened(r, "initial", Now, Existing)
     \/ /\ ~ reader[r].streaming
        /\ reader[r].from = None
        /\ Opened(r, "unversioned", Now, Existing)
     \/ /\ ~ reader[r].streaming
        /\ reader[r].from # None
        /\ reader[r].from >= oldest
        /\ Opened(r, "changes", reader[r].from, {})
  /\ UNCHANGED << server, session, breaks >>

(* The server declines the streaming list: 400, or 403.                    *)
OpenDeclined(r) ==
  /\ At(r, "open")
  /\ reader[r].streaming
  /\ Goto(r, "abandon")
  /\ UNCHANGED << server, session, breaks >>

(* What the gap record leaves of what was seen: none of it is current.     *)
Break(r, failure) ==
  /\ slot' = ObserveEvent(slot, Error(failure))
  /\ reader' = [reader EXCEPT ![r].pc   = "abandon",
                              ![r].body = NoBody,
                              ![r].seen = NothingSeen]
  /\ UNCHANGED << server, refused >>

(* 410: the history behind the checkpoint is gone.  Not counted among the  *)
(* breaks: compactions are bounded by the versions there are.              *)
OpenExpired(r) ==
  /\ At(r, "open")
  /\ ~ reader[r].streaming
  /\ reader[r].from # None
  /\ reader[r].from < oldest
  /\ Break(r, "expired")
  /\ UNCHANGED breaks

(* 403: the cluster refuses the watch.                                     *)
OpenDenied(r) ==
  /\ At(r, "open")
  /\ ~ reader[r].streaming
  /\ breaks < MaxBreaks
  /\ breaks' = breaks + 1
  /\ Break(r, "denied")

-----------------------------------------------------------------------------
(* Reading: `apply` of each event, under the lock, then its record.        *)

Reading(r, phase) == At(r, "reading") /\ reader[r].body.phase = phase

(* What a record of an applied change adds to what was seen.               *)
Told(seen, e) ==
  [at      |-> e.object.rv,
   objects |-> [seen.objects EXCEPT ![e.key] =
                  IF e.class = "deleted" THEN None ELSE e.object]]

(* A mutated form of the next: a streamed list is not reported.            *)
ApplyUnreported(r, e, body) ==
  LET reception == ReceptionOf(slot, e)
  IN  /\ slot' = ObserveEvent(slot, e)
      /\ refused' = (refused /\ reception # "synchronised")
      /\ reader' = [reader EXCEPT
           ![r].body = body,
           ![r].seen = IF reception = "applied" THEN Told(@, e) ELSE @]
      /\ UNCHANGED << server, breaks >>

(* The event reaches the session's stream, whatever that is by now; only   *)
(* what the stream applied is reported.                                    *)
Apply(r, e, body) ==
  LET reception == ReceptionOf(slot, e)
  IN  /\ slot' = ObserveEvent(slot, e)
      /\ refused' = (refused /\ reception # "synchronised")
      /\ reader' = [reader EXCEPT
           ![r].pc   = IF reception = "synchronised" THEN "acquisition" ELSE "reading",
           ![r].body = body,
           ![r].seen = IF reception = "applied" THEN Told(@, e) ELSE @]
      /\ UNCHANGED << server, breaks >>

SendInitial(r) ==
  /\ Reading(r, "initial") \/ Reading(r, "unversioned")
  /\ \E k \in reader[r].body.todo :
       Apply(r, Change("added", k, history[reader[r].body.at][k]),
             [reader[r].body EXCEPT !.todo = @ \ {k}])

EndInitial(r) ==
  /\ Reading(r, "initial")
  /\ reader[r].body.todo = {}
  /\ Apply(r, InitialEventsEnd(reader[r].body.at), [reader[r].body EXCEPT !.phase = "changes"])

(* The changes after the initial state follow on the same body.            *)
SendsChanges(r) ==
  \/ Reading(r, "changes")
  \/ Reading(r, "unversioned") /\ reader[r].body.todo = {}

Deliver(r) ==
  /\ SendsChanges(r)
  /\ \E v \in 1..Now, k \in Keys :
       /\ IsNext(reader[r].body.at, v, k)
       /\ Apply(r, EventAt(v, k), [reader[r].body EXCEPT !.at = v])

SendBookmark(r) ==
  /\ SendsChanges(r)
  /\ \E v \in (reader[r].body.at + 1)..Now :
       /\ QuietBetween(reader[r].body.at, v)
       /\ Apply(r, Bookmark(v), [reader[r].body EXCEPT !.at = v])

(* The body ends.  An end that no event reports leaves the stream alone.   *)
EndBody(r) ==
  /\ At(r, "reading")
  /\ reader' = [reader EXCEPT ![r].pc = "abandon", ![r].body = NoBody]
  /\ UNCHANGED << server, session, breaks >>

(* The body stops mid-stream, or a frame of it cannot be read.             *)
Interrupt(r) ==
  /\ At(r, "reading")
  /\ slot' = ObserveEvent(slot, Error("interrupted"))
  /\ reader' = [reader EXCEPT ![r].pc = "abandon", ![r].body = NoBody]
  /\ UNCHANGED << server, refused, breaks >>

(* An error event: the history expired under the body, or was refused.     *)
BreakBody(r) ==
  /\ At(r, "reading")
  /\ breaks < MaxBreaks
  /\ breaks' = breaks + 1
  /\ \E failure \in {"expired", "denied"} : Break(r, failure)

-----------------------------------------------------------------------------
(* After a round.                                                          *)

(* A streaming list that did not reach its bookmark is abandoned.          *)
Abandon(r) ==
  /\ At(r, "abandon")
  /\ IF slot # None /\ IsStreamingList(slot.stream)
     THEN /\ slot' = OnStream(slot, AbandonStreamingList(slot.stream))
          /\ Goto(r, "refuse")
     ELSE /\ Goto(r, "state")
          /\ UNCHANGED slot
  /\ UNCHANGED << server, refused, breaks >>

Refuse(r) ==
  /\ At(r, "refuse")
  /\ refused' = TRUE
  /\ Goto(r, "relist")
  /\ UNCHANGED << server, slot, breaks >>

(* The listing is read without the lock, and handed over later.            *)
Relist(r) ==
  /\ At(r, "relist")
  /\ reader' = [reader EXCEPT ![r].pc = "synchronise", ![r].listing = Now]
  /\ UNCHANGED << server, session, breaks >>

(* The match on the stream's state; asking opens an entry where none is.   *)
(* Whether a gap is re-acquired is the operator's option.                  *)
MatchState(r) ==
  /\ At(r, "state")
  /\ slot' = EntryFor(slot)
  /\ \/ slot'.stream.state = "live"         /\ Goto(r, "round")
     \/ slot'.stream.state = "reconnecting" /\ Goto(r, "reconnect")
     \/ slot'.stream.state = "gap_detected" /\ (Goto(r, "relist") \/ Goto(r, "close"))
     \/ slot'.stream.state \in {"denied", "syncing"} /\ Goto(r, "close")
  /\ UNCHANGED << server, refused, breaks >>

(* A mutated form of the next: the stream is not told of the reconnection. *)
ReconnectUntold(r) ==
  /\ At(r, "reconnect")
  /\ Goto(r, "round")
  /\ UNCHANGED << server, session, breaks >>

Reconnect(r) ==
  /\ At(r, "reconnect")
  /\ slot' = OnStream(slot, Reconnected(EntryFor(slot).stream))
  /\ Goto(r, IF CanReconnect(EntryFor(slot).stream) THEN "round" ELSE "close")
  /\ UNCHANGED << server, refused, breaks >>

(* A request that cannot be made, a cancellation, or the last of the       *)
(* records that were asked for, ends the invocation.                       *)
Stop(r) ==
  /\ reader[r].pc \in {"round", "open", "reading", "relist"}
  /\ reader' = [reader EXCEPT ![r].pc = "close", ![r].body = NoBody]
  /\ UNCHANGED << server, session, breaks >>

(* Every way out of the loop closes the view.                              *)
Close(r) ==
  /\ At(r, "close")
  /\ slot' = ViewClosed(slot)
  /\ reader' = [reader EXCEPT ![r].pc = "idle", ![r].seen = NothingSeen]
  /\ UNCHANGED << server, refused, breaks >>

-----------------------------------------------------------------------------
(* A write of this package holds the lock from its request to `mutated`.   *)
OwnWrite(k) ==
  /\ k \in OwnWritten
  /\ Write(k) \/ Delete(k)
  /\ slot' = Mutated(slot, k)
  /\ UNCHANGED << refused, reader, breaks >>

ServerStep == ServerNext /\ UNCHANGED << session, reader, breaks >>

ReaderStep(r) ==
  \/ Acquire(r) \/ Begin(r) \/ Synchronise(r) \/ SyncRefused(r) \/ Acquisition(r)
  \/ Round(r) \/ Open(r) \/ OpenDeclined(r) \/ OpenExpired(r) \/ OpenDenied(r)
  \/ SendInitial(r) \/ EndInitial(r) \/ Deliver(r) \/ SendBookmark(r)
  \/ EndBody(r) \/ Interrupt(r) \/ BreakBody(r)
  \/ Abandon(r) \/ Refuse(r) \/ Relist(r) \/ MatchState(r) \/ Reconnect(r)
  \/ Stop(r) \/ Close(r)

Next ==
  \/ ServerStep
  \/ \E r \in Readers : ReaderStep(r)
  \/ \E k \in Keys : OwnWrite(k)

Spec == Init /\ [][Next]_vars

(* The worker of an invocation runs on, and so does the network: a request *)
(* is answered, and a body that is open time and again gets around to what *)
(* the server has to send.  Nothing is assumed of ends, breaks and stops.  *)
Fairness ==
  \A r \in Readers :
    /\ WF_vars(Begin(r) \/ Synchronise(r) \/ Acquisition(r) \/ Round(r)
               \/ Abandon(r) \/ Refuse(r) \/ Relist(r) \/ MatchState(r)
               \/ Reconnect(r) \/ Close(r))
    /\ WF_vars(Open(r) \/ OpenExpired(r))
    /\ SF_vars(SendInitial(r) \/ EndInitial(r) \/ Deliver(r))

FairSpec == Spec /\ Fairness

-----------------------------------------------------------------------------
(* Properties of the cache, as the session answers from it.                *)

(* §20.3: whatever a name is answered with from the cache, an object or    *)
(* its absence, is what the collection held at the stream's checkpoint.    *)
AnswersAreOfTheCheckpoint ==
  \A k \in Keys :
    Lookup(slot, k) \in {"cached", "confirmed_absent"} =>
      /\ slot.stream.checkpoint \in 1..Now
      /\ IF Lookup(slot, k) = "cached"
         THEN slot.stream.objects[k] = history[slot.stream.checkpoint][k]
         ELSE history[slot.stream.checkpoint][k] = None

(* §50.4: an index that may answer posts exactly what the cache holds,     *)
(* through every event, quarantine, overflow and re-acquisition.           *)
IndexIsTheCache ==
  Usable(slot) => slot.index.posted = slot.stream.objects

-----------------------------------------------------------------------------
(* Properties of what a reader is told.                                    *)

(* §19.1, §19.4: the records of an invocation, put together, are the       *)
(* collection as it was at the version of the last of them.                *)
RecordsAreTheCollection ==
  \A r \in Readers :
    LET seen == reader[r].seen
    IN  seen.at # 0 => seen.objects = history[seen.at]

(* A streaming list is synchronised whole or not at all (§19.2).           *)
StreamedListIsWhole ==
  [][ \A r \in Readers :
        EndInitial(r) /\ ReceptionOf(slot, InitialEventsEnd(reader[r].body.at)) = "synchronised"
          => slot'.stream.objects = history[reader[r].body.at] ]_vars

(* An invocation that goes on tells its reader everything in the end: the  *)
(* server's bound on versions makes it fall silent, and then what was told *)
(* is the collection as it is.                                             *)
ReaderCatchesUp ==
  \A r \in Readers :
    <>[](At(r, "idle") \/ reader[r].seen.objects = history[Now])

-----------------------------------------------------------------------------
(* The whole of it against the contract of one stream and its feed: an     *)
(* invocation that is alone with its stream takes only the steps that      *)
(* module WatchedCollection allows, in an order it allows.                 *)
Alone == CHOOSE r \in Readers : TRUE

Contract == INSTANCE WatchedCollection WITH
  stream    <- EntryFor(slot).stream,
  feed      <- reader[Alone].body,
  listing   <- IF At(Alone, "synchronise") THEN reader[Alone].listing ELSE None,
  MaxBreaks <- 3 * MaxVersion + MaxBreaks + Invocations

KeepsTheContract == Contract!Spec
=============================================================================
