------------------------------- MODULE Listing ------------------------------
(***************************************************************************)
(* How a collection is read: `Client::walk` (transport.rs) follows the     *)
(* server's continue tokens page by page, a `Ledger` (budget.rs) says      *)
(* whether it may ask again, and a reader takes each page: the one that    *)
(* collects a listing to seed a cache, or the one that streams records to  *)
(* the operator and retries what failed (query.rs).  The records a reader  *)
(* has handed on cannot be taken back, so what the walk says of itself at  *)
(* its end is all there is to tell a whole collection from a part.         *)
(*                                                                         *)
(* A turn of the walk's loop is one action: it asks the ledger, sends one  *)
(* request and does with the answer all that follows from it.              *)
(***************************************************************************)
EXTENDS ApiServer, FiniteSets

(* A question: the operator's page budget, the bounds of the query's       *)
(* Budget, the retries its reader allows, whether the reader streams, and  *)
(* whether its credential can be had anew.                                 *)
Query == [page_budget : Nat \cup {None},
          pages       : Nat \cup {None},
          requests    : Nat \cup {None},
          bytes       : Nat \cup {None},
          timed       : BOOLEAN,
          allowance   : Nat,
          streams     : BOOLEAN,
          can_refresh : BOOLEAN]

CONSTANTS
  Queries,    \* the questions that may be asked
  PageSize    \* the most objects a page has: PAGE_SIZE

(* A collection holds finitely many objects, so a page can be measured.    *)
ASSUME ListingAssumption ==
  /\ IsFiniteSet(Keys)
  /\ Queries \subseteq Query
  /\ PageSize \in Nat \ {0}

VARIABLES
  query,      \* the question
  walk,       \* the walk: its position, and what it says of itself
  ledger,     \* what the question has cost, over all its walks
  reader      \* what the reader took and handed on

local == << query, walk, ledger, reader >>
vars  == << server, local >>

(* A continue token stands for a snapshot and the keys not yet passed.     *)
Token == [version : Version, rest : SUBSET Keys]

ASSUME TokenAssumption == None \notin Token

Continuity == {"intact", "token_expired", "snapshot_changed", "token_repeated"}

Failure == {"unavailable", "denied", "unauthenticated", "gone", "malformed"}

(* `fresh` is `fresh_page`; `gap` and `more` are the walk's Coverage.      *)
Walk == [pc         : {"reading", "done"},
         token      : Token \cup {None},
         fresh      : BOOLEAN,
         snapshot   : Version \cup {None},
         pages      : Nat,
         continuity : Continuity,
         gap        : BOOLEAN,
         more       : BOOLEAN,
         error      : Failure \cup {None}]

Ledger == [pages : Nat, requests : Nat, bytes : Nat]

(* `handed` are the records of each key, in the order they crossed, `told` *)
(* whether one of them was marked as having more behind it.                *)
Reader == [handed    : [Keys -> Seq(Object)],
           pages     : Nat,
           taken     : 0..query.allowance,
           told      : BOOLEAN,
           stopped   : BOOLEAN,
           refreshed : BOOLEAN]

TypeOK ==
  /\ ServerTypeOK
  /\ query \in Queries
  /\ walk \in Walk
  /\ ledger \in Ledger
  /\ reader \in Reader

NewWalk == [pc |-> "reading", token |-> None, fresh |-> TRUE, snapshot |-> None,
            pages |-> 0, continuity |-> "intact", gap |-> FALSE, more |-> FALSE,
            error |-> None]

Init ==
  /\ ServerInit
  /\ query \in Queries
  /\ walk = NewWalk
  /\ ledger = [pages |-> 0, requests |-> 0, bytes |-> 0]
  /\ reader = [handed |-> [k \in Keys |-> << >>], pages |-> 0, taken |-> 0,
               told |-> FALSE, stopped |-> FALSE, refreshed |-> FALSE]

-----------------------------------------------------------------------------
(* The ledger: it refuses before the spending.                             *)

Within(bound, reached) == bound # None => reached <= bound

Reading == walk.pc = "reading"

(* A request that is sent again costs a request and never a second page.   *)
MayPage == walk.fresh => Within(query.pages, ledger.pages + 1)
MayAsk  == MayPage /\ Within(query.requests, ledger.requests + 1)

Paged == [ledger EXCEPT !.pages = IF walk.fresh THEN @ + 1 ELSE @]
Asked == [Paged EXCEPT !.requests = @ + 1]

(* `Overrun::record`: the stop and what says so are one statement.         *)
Overrun(w) == [w EXCEPT !.pc = "done", !.gap = TRUE, !.more = TRUE]

(* A mutated form of the next: the gap is written, and the loop goes on.   *)
ExhaustedGoesOn ==
  /\ Reading
  /\ ~ MayAsk \/ query.timed
  /\ walk' = [walk EXCEPT !.gap = TRUE, !.more = TRUE]
  /\ ledger' = IF MayPage THEN Paged ELSE ledger
  /\ UNCHANGED << server, query, reader >>

(* A bound is reached before the request; time may be up at any turn.      *)
Exhausted ==
  /\ Reading
  /\ ~ MayAsk \/ query.timed
  /\ walk' = Overrun(walk)
  /\ ledger' = IF MayPage THEN Paged ELSE ledger
  /\ UNCHANGED << server, query, reader >>

-----------------------------------------------------------------------------
(* The server's pages.  A page passes some of the keys that are left.  The *)
(* Kubernetes API allows it fewer objects than the limit, down to none,    *)
(* when what it passed was filtered out: only the token says whether more  *)
(* remains, and it may say so where nothing does.                          *)

Rest == IF walk.token = None THEN Keys ELSE walk.token.rest

Existing(v, keys) == {k \in keys : history[v][k] # None}

(* A continued page is of the token's snapshot, or of another: then its    *)
(* version says so.                                                        *)
ServedVersions ==
  IF walk.token = None \/ walk.token.version < oldest
  THEN {Now}
  ELSE {walk.token.version, Now}

Pages ==
  {page \in [version : ServedVersions, passed : SUBSET Rest, last : BOOLEAN] :
     /\ page.passed # {}
     /\ Cardinality(Existing(page.version, page.passed)) <= PageSize
     /\ page.last  => Existing(page.version, Rest \ page.passed) = {}
     /\ ~ page.last => Rest \ page.passed # {}}

Objects(page)   == Existing(page.version, page.passed)
Bytes(page)     == 1 + Cardinality(Objects(page))
NextToken(page) == IF page.last THEN None
                   ELSE [version |-> page.version, rest |-> Rest \ page.passed]

-----------------------------------------------------------------------------
(* A page arrives.                                                         *)

BudgetReached(pages) == query.page_budget # None /\ pages >= query.page_budget

(* What crosses to the consumer: all of a page, or a part and then the     *)
(* consumer stops.  Who has stopped before takes nothing.                  *)
Crossings(page) ==
  IF reader.stopped THEN {{}}
  ELSE IF query.streams THEN SUBSET Objects(page)
  ELSE {Objects(page)}

(* `Streamed::page`: the records are marked when this is the last page the *)
(* operator asked for and the server has more.                             *)
Handed(page, kept) ==
  [reader EXCEPT
     !.handed  = [k \in Keys |-> IF k \in kept
                                 THEN Append(@[k], history[page.version][k]) ELSE @[k]],
     !.pages   = @ + 1,
     !.taken   = IF kept = Objects(page) THEN 0 ELSE @,
     !.told    = @ \/ (~ page.last /\ BudgetReached(reader.pages + 1) /\ kept # {}),
     !.stopped = @ \/ kept # Objects(page)]

Snapshot(page) == IF walk.snapshot = None THEN page.version ELSE walk.snapshot

(* The walk after a page was handed to its reader.                         *)
Walked(page, kept) ==
  LET stop == kept # Objects(page) \/ BudgetReached(walk.pages + 1)
  IN  [walk EXCEPT
         !.pc         = IF page.last \/ stop THEN "done" ELSE @,
         !.token      = NextToken(page),
         !.fresh      = TRUE,
         !.snapshot   = Snapshot(page),
         !.pages      = @ + 1,
         !.continuity = IF Snapshot(page) = page.version THEN @ ELSE "snapshot_changed",
         !.more       = ~ page.last /\ stop]

(* A mutated form of the next: a page of another snapshot goes unnoticed.  *)
TakePageUnversioned ==
  /\ Reading
  /\ MayAsk
  /\ \E page \in Pages :
       /\ Within(query.bytes, ledger.bytes + Bytes(page))
       /\ ledger' = [Asked EXCEPT !.bytes = @ + Bytes(page)]
       /\ \E kept \in Crossings(page) :
            /\ reader' = Handed(page, kept)
            /\ walk' = [Walked(page, kept) EXCEPT !.continuity = walk.continuity]
  /\ UNCHANGED << server, query >>

TakePage ==
  /\ Reading
  /\ MayAsk
  /\ \E page \in Pages :
       /\ Within(query.bytes, ledger.bytes + Bytes(page))
       /\ ledger' = [Asked EXCEPT !.bytes = @ + Bytes(page)]
       /\ \E kept \in Crossings(page) :
            /\ reader' = Handed(page, kept)
            /\ walk' = Walked(page, kept)
  /\ UNCHANGED << server, query >>

(* A page that passes the byte bound is refused rather than handed on.     *)
RefusePage ==
  /\ Reading
  /\ MayAsk
  /\ \E page \in Pages : ~ Within(query.bytes, ledger.bytes + Bytes(page))
  /\ ledger' = Asked
  /\ walk' = Overrun([walk EXCEPT !.pages = @ + 1, !.fresh = TRUE])
  /\ UNCHANGED << server, query, reader >>

(* The token that was sent comes back: the page after it would be the page *)
(* before it, and is refused.                                              *)
RepeatToken ==
  /\ Reading
  /\ MayAsk
  /\ walk.token # None
  /\ \E size \in 1..(PageSize + 1) :
       /\ Within(query.bytes, ledger.bytes + size)
       /\ ledger' = [Asked EXCEPT !.bytes = @ + size]
  /\ walk' = [walk EXCEPT !.pc = "done", !.pages = @ + 1, !.fresh = TRUE,
                          !.continuity = "token_repeated", !.gap = TRUE,
                          !.error = "malformed"]
  /\ UNCHANGED << server, query, reader >>

-----------------------------------------------------------------------------
(* A request fails.                                                        *)

(* The server is unavailable, and the reader allows the same request to be *)
(* sent again.                                                             *)
Retry ==
  /\ Reading
  /\ MayAsk
  /\ query.streams /\ ~ reader.stopped
  /\ reader.taken < query.allowance
  /\ reader' = [reader EXCEPT !.taken = @ + 1]
  /\ walk' = [walk EXCEPT !.fresh = FALSE]
  /\ ledger' = Asked
  /\ UNCHANGED << server, query >>

(* Whether a failure ends the walk: only an outage that may be waited out, *)
(* by a reader who is still there, does not.                               *)
Ends(failure, cancelled) ==
  \/ cancelled
  \/ failure # "unavailable"
  \/ ~ query.streams
  \/ reader.taken >= query.allowance

(* 410 comes for a token whose snapshot the server no longer holds.        *)
MayFail(failure) ==
  failure = "gone" => walk.token # None /\ walk.token.version < oldest

(* A mutated form of the next: the hole is not written into the coverage.  *)
LosePageUntold ==
  /\ Reading
  /\ MayAsk
  /\ \E failure \in Failure, cancelled \in {reader.stopped, query.streams} :
       /\ MayFail(failure)
       /\ Ends(failure, cancelled)
       /\ reader' = [reader EXCEPT !.stopped = cancelled]
       /\ walk' = [walk EXCEPT !.pc = "done", !.error = failure]
  /\ ledger' = Asked
  /\ UNCHANGED << server, query >>

(* The walk ends with the failure, is never restarted, and what it handed  *)
(* on stands.  A streaming consumer may have gone away by then.            *)
LosePage ==
  /\ Reading
  /\ MayAsk
  /\ \E failure \in Failure, cancelled \in {reader.stopped, query.streams} :
       /\ MayFail(failure)
       /\ Ends(failure, cancelled)
       /\ reader' = [reader EXCEPT !.stopped = cancelled]
       /\ walk' = [walk EXCEPT
            !.pc         = "done",
            !.continuity = IF failure = "gone" THEN "token_expired" ELSE @,
            !.gap        = TRUE,
            !.error      = failure]
  /\ ledger' = Asked
  /\ UNCHANGED << server, query >>

(* A mutated form of the next: it is enough that it is the first refresh.  *)
RefreshAnyTime ==
  /\ walk.pc = "done"
  /\ walk.error = "unauthenticated"
  /\ query.can_refresh /\ ~ reader.refreshed
  /\ walk' = NewWalk
  /\ reader' = [reader EXCEPT !.refreshed = TRUE]
  /\ UNCHANGED << server, query, ledger >>

(* A 401 before any page: the credential is had anew, once, and the walk   *)
(* starts over, with the same reader and on the same ledger.               *)
Refresh ==
  /\ walk.pc = "done"
  /\ walk.error = "unauthenticated"
  /\ reader.pages = 0
  /\ query.can_refresh /\ ~ reader.refreshed
  /\ walk' = NewWalk
  /\ reader' = [reader EXCEPT !.refreshed = TRUE]
  /\ UNCHANGED << server, query, ledger >>

ServerStep == ServerNext /\ UNCHANGED local

Turn == Exhausted \/ TakePage \/ RefusePage \/ RepeatToken \/ Retry \/ LosePage

Next == ServerStep \/ Turn \/ Refresh

Spec == Init /\ [][Next]_vars

(* A request is answered, or fails, in the end.                            *)
FairSpec == Spec /\ WF_vars(Turn)

-----------------------------------------------------------------------------
(* Properties.                                                             *)

(* What the query says of itself when its walk is over (`finish`, and the  *)
(* conditions `synchronise` puts on a listing).                            *)
Outcome ==
  IF reader.stopped THEN "stopped"
  ELSE IF ~ walk.gap /\ walk.continuity = "intact" THEN "completed"
  ELSE "failed"

(* The records of k in the snapshot of version v.                          *)
Recorded(v, k) == IF history[v][k] = None THEN << >> ELSE << history[v][k] >>

(* §18.3, §19.1: a read that says it completed handed on the collection    *)
(* exactly as it was at its version, whatever retries, refusals, expiries  *)
(* and repeated tokens it met; or it says that there is more, which it     *)
(* does only because the operator's page budget was reached.               *)
CompletedIsWhole ==
  walk.pc = "done" /\ Outcome = "completed" =>
    /\ walk.snapshot \in 1..Now
    /\ IF walk.more
       THEN BudgetReached(walk.pages)
       ELSE \A k \in Keys : reader.handed[k] = Recorded(walk.snapshot, k)

(* §18.2: as long as the read claims one snapshot, every record is of it,  *)
(* and no object crosses twice.                                            *)
RecordsAreOfOneSnapshot ==
  walk.continuity = "intact" =>
    \A k \in Keys : reader.handed[k] # << >> =>
      /\ walk.snapshot \in 1..Now
      /\ reader.handed[k] = Recorded(walk.snapshot, k)

NothingHanded == \A k \in Keys : reader.handed[k] = << >>

(* Of one snapshot so far, the keys that are passed were handed on as they *)
(* were in it, and the token goes on in it with the rest.                  *)
PassedIsHanded ==
  /\ walk.snapshot = IF walk.token = None THEN None ELSE walk.token.version
  /\ \A k \in Keys :
       reader.handed[k] = IF k \in Rest THEN << >> ELSE Recorded(walk.snapshot, k)

(* The inductive invariant: a read that completes is whole because at any  *)
(* of its turns what was handed on and what the token stands for are the   *)
(* two parts of one snapshot.                                              *)
LInv ==
  /\ TypeOK
  /\ OneChangePerVersion
  /\ CompletedIsWhole
  /\ RecordsAreOfOneSnapshot
  /\ walk.snapshot # None => walk.snapshot \in 1..Now
  /\ walk.token # None => walk.token.version \in 1..Now
  /\ reader.pages = 0 => NothingHanded
  /\ Reading /\ reader.stopped => NothingHanded
  /\ Reading /\ ~ reader.stopped /\ walk.continuity = "intact" => PassedIsHanded

(* Every read comes to an end.                                             *)
WalkEnds == <>[](walk.pc = "done")
=============================================================================
