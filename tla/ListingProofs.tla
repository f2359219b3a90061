---------------------------- MODULE ListingProofs ---------------------------
(***************************************************************************)
(* Proofs about Listing, for every finite set of keys, every page size and *)
(* every question that may be asked.                                       *)
(***************************************************************************)
EXTENDS Listing, ApiServerProofs, FiniteSetTheorems

(* Nothing is read of a snapshot, and nothing handed on, before the walk.  *)
LEMMA InitLInv == Init => LInv
<1> SUFFICES ASSUME Init PROVE LInv
  OBVIOUS
<1>1. /\ history \in Seq(Cache) /\ Len(history) = 1 /\ oldest = 1
  BY DEF Init, ServerInit, Cache, Object, Version
<1>2. ServerTypeOK /\ OneChangePerVersion
  BY <1>1 DEF ServerTypeOK, OneChangePerVersion, Now
<1>3. query \in Queries /\ query.allowance \in Nat
  BY ListingAssumption DEF Init, Query
<1>4. /\ walk \in Walk
      /\ walk.pc = "reading" /\ walk.token = None /\ walk.snapshot = None
  BY DEF Init, NewWalk, Walk, Continuity
<1>5. /\ ledger \in Ledger /\ reader \in Reader
      /\ reader.handed = [k \in Keys |-> << >>] /\ reader.stopped = FALSE
  BY <1>3 DEF Init, Ledger, Reader
<1>6. NothingHanded
  BY <1>5 DEF NothingHanded
<1>7. Rest = Keys
  BY <1>4 DEF Rest
<1> QED
  BY <1>2, <1>3, <1>4, <1>5, <1>6, <1>7
  DEF LInv, TypeOK, CompletedIsWhole, RecordsAreOfOneSnapshot, NothingHanded, PassedIsHanded

-----------------------------------------------------------------------------
(* What the server and the ledger do leaves all that was handed on alone.  *)

(* The snapshots that were read are still what the collection was.         *)
LEMMA RecordedStands ==
  ASSUME NEW v \in 1..Now, NEW k \in Keys, history'[v] = history[v]
  PROVE  Recorded(v, k)' = Recorded(v, k)
BY DEF Recorded

(* What the server does between two pages changes no snapshot of the past. *)
LEMMA ServerKeepsLInv == LInv /\ ServerStep => LInv'
<1> SUFFICES ASSUME LInv, ServerStep PROVE LInv'
  OBVIOUS
<1>1. /\ ServerTypeOK' /\ OneChangePerVersion' /\ Now' >= Now
      /\ \A v \in 1..Now : history'[v] = history[v]
  BY ServerGrows DEF LInv, TypeOK, ServerStep
<1>2. Now \in Nat /\ Now' \in Nat /\ \A v \in 1..Now : v \in 1..Now'
  BY <1>1 DEF LInv, TypeOK, ServerTypeOK, Now
<1>3. query' = query /\ walk' = walk /\ ledger' = ledger /\ reader' = reader
  BY DEF ServerStep, local
<1>4. TypeOK'
  BY <1>1, <1>3 DEF LInv, TypeOK, Reader
<1>5. \A v \in 1..Now, k \in Keys : Recorded(v, k)' = Recorded(v, k)
  BY <1>1, RecordedStands
<1>6. CompletedIsWhole'
  BY <1>2, <1>3, <1>5 DEF LInv, CompletedIsWhole, Outcome, BudgetReached
<1>7. RecordsAreOfOneSnapshot'
  BY <1>2, <1>3, <1>5 DEF LInv, RecordsAreOfOneSnapshot
<1>8. Rest' = Rest /\ NothingHanded' = NothingHanded
  BY <1>3 DEF Rest, NothingHanded
<1>9. PassedIsHanded => PassedIsHanded'
  BY <1>2, <1>3, <1>5, <1>8 DEF LInv, PassedIsHanded, Rest, TypeOK, Walk, Token
<1> QED
  BY <1>1, <1>2, <1>3, <1>4, <1>6, <1>7, <1>8, <1>9 DEF LInv, Reading

(* The ledger counts.                                                      *)
LEMMA AskedType ==
  ASSUME TypeOK
  PROVE  Paged \in Ledger /\ Asked \in Ledger
<1>1. ledger \in Ledger
  BY DEF TypeOK
<1>2. Paged \in Ledger
  BY <1>1 DEF Ledger, Paged
<1> QED BY <1>2 DEF Ledger, Asked

(* A walk that ends with a gap claims nothing: what was handed on stands,  *)
(* and the invariant with it.                                              *)
LEMMA EndingKeepsLInv ==
  ASSUME LInv,
         UNCHANGED << server, query >>,
         walk' \in Walk, ledger' \in Ledger, reader' \in Reader,
         walk'.pc = "done", walk'.gap,
         walk'.token = walk.token, walk'.snapshot = walk.snapshot,
         walk'.continuity = "intact" => walk.continuity = "intact",
         reader'.handed = reader.handed, reader'.pages = reader.pages
  PROVE  LInv'
<1>1. history' = history /\ oldest' = oldest /\ query' = query /\ Now' = Now
  BY DEF server, Now
<1>2. TypeOK'
  BY <1>1 DEF LInv, TypeOK, ServerTypeOK, Now, Reader
<1>3. OneChangePerVersion'
  BY <1>1 DEF LInv, OneChangePerVersion, Changed
<1>4. CompletedIsWhole'
  BY DEF CompletedIsWhole, Outcome
<1>5. RecordsAreOfOneSnapshot'
  BY <1>1 DEF LInv, RecordsAreOfOneSnapshot, Recorded
<1>6. NothingHanded' = NothingHanded
  BY DEF NothingHanded
<1> QED BY <1>1, <1>2, <1>3, <1>4, <1>5, <1>6 DEF LInv, Reading

(* A budget that is met ends the walk and withdraws no record.             *)
LEMMA ExhaustedKeepsLInv == LInv /\ Exhausted => LInv'
<1> SUFFICES ASSUME LInv, Exhausted PROVE LInv'
  OBVIOUS
<1>1. walk \in Walk /\ ledger \in Ledger /\ reader \in Reader
  BY DEF LInv, TypeOK
<1>2. walk' = [walk EXCEPT !.pc = "done", !.gap = TRUE, !.more = TRUE]
  BY DEF Exhausted, Overrun
<1>3. ledger' \in Ledger
  BY <1>1, AskedType DEF LInv, Exhausted
<1>4. walk' \in Walk
  BY <1>1, <1>2 DEF Walk
<1>5. /\ walk'.pc = "done" /\ walk'.gap /\ walk'.continuity = walk.continuity
      /\ walk'.token = walk.token /\ walk'.snapshot = walk.snapshot
  BY <1>1, <1>2 DEF Walk
<1>6. UNCHANGED << server, query, reader >>
  BY DEF Exhausted
<1> QED BY <1>1, <1>3, <1>4, <1>5, <1>6, EndingKeepsLInv

(* A page that is refused ends the walk with a gap.                        *)
LEMMA RefusePageKeepsLInv == LInv /\ RefusePage => LInv'
<1> SUFFICES ASSUME LInv, RefusePage PROVE LInv'
  OBVIOUS
<1>1. walk \in Walk /\ walk.pages + 1 \in Nat /\ reader \in Reader
  BY DEF LInv, TypeOK, Walk
<1> DEFINE arrived == [walk EXCEPT !.pages = walk.pages + 1, !.fresh = TRUE]
<1>2. /\ arrived \in Walk
      /\ arrived.token = walk.token /\ arrived.snapshot = walk.snapshot
      /\ arrived.continuity = walk.continuity
  BY <1>1 DEF Walk
<1>3. walk' = Overrun(arrived)
  BY DEF RefusePage
<1> HIDE DEF arrived
<1>4. /\ walk' \in Walk
      /\ walk'.pc = "done" /\ walk'.gap /\ walk'.continuity = walk.continuity
      /\ walk'.token = walk.token /\ walk'.snapshot = walk.snapshot
  BY <1>2, <1>3 DEF Walk, Overrun
<1>5. ledger' \in Ledger
  BY AskedType DEF LInv, RefusePage
<1>6. UNCHANGED << server, query, reader >>
  BY DEF RefusePage
<1> QED BY <1>1, <1>4, <1>5, <1>6, EndingKeepsLInv

(* A token that was followed before ends the walk with a gap.              *)
LEMMA RepeatTokenKeepsLInv == LInv /\ RepeatToken => LInv'
<1> SUFFICES ASSUME LInv, RepeatToken PROVE LInv'
  OBVIOUS
<1>1. /\ walk \in Walk /\ walk.pages + 1 \in Nat
      /\ reader \in Reader /\ Asked \in Ledger
  BY AskedType DEF LInv, TypeOK, Walk
<1>2. walk' = [walk EXCEPT !.pc = "done", !.pages = walk.pages + 1, !.fresh = TRUE,
                           !.continuity = "token_repeated", !.gap = TRUE,
                           !.error = "malformed"]
  BY DEF RepeatToken
<1>3. /\ walk' \in Walk
      /\ walk'.pc = "done" /\ walk'.gap /\ walk'.continuity = "token_repeated"
      /\ walk'.token = walk.token /\ walk'.snapshot = walk.snapshot
  BY <1>1, <1>2 DEF Walk, Continuity, Failure
<1>4. PICK size \in 1..(PageSize + 1) : ledger' = [Asked EXCEPT !.bytes = @ + size]
  BY DEF RepeatToken
<1>5. ledger' \in Ledger
  BY <1>1, <1>4, ListingAssumption DEF Ledger
<1>6. UNCHANGED << server, query, reader >>
  BY DEF RepeatToken
<1> QED BY <1>1, <1>3, <1>5, <1>6, EndingKeepsLInv

(* A page that is lost ends the walk with a gap.                           *)
LEMMA LosePageKeepsLInv == LInv /\ LosePage => LInv'
<1> SUFFICES ASSUME LInv, LosePage PROVE LInv'
  OBVIOUS
<1>1. walk \in Walk /\ reader \in Reader /\ query \in Query
  BY ListingAssumption DEF LInv, TypeOK
<1>2. PICK failure \in Failure, cancelled \in {reader.stopped, query.streams} :
        /\ reader' = [reader EXCEPT !.stopped = cancelled]
        /\ walk' = [walk EXCEPT
             !.pc         = "done",
             !.continuity = IF failure = "gone" THEN "token_expired" ELSE @,
             !.gap        = TRUE,
             !.error      = failure]
  BY DEF LosePage
<1>3. /\ walk' \in Walk
      /\ walk'.pc = "done" /\ walk'.gap
      /\ walk'.continuity = "intact" => walk.continuity = "intact"
      /\ walk'.token = walk.token /\ walk'.snapshot = walk.snapshot
  BY <1>1, <1>2 DEF Walk, Continuity
<1>4. cancelled \in BOOLEAN
  BY <1>1 DEF Reader, Query
<1>5. /\ reader' \in Reader
      /\ reader'.handed = reader.handed /\ reader'.pages = reader.pages
  BY <1>1, <1>2, <1>4 DEF Reader
<1>6. ledger' \in Ledger /\ UNCHANGED << server, query >>
  BY AskedType DEF LInv, LosePage
<1> QED BY <1>3, <1>5, <1>6, EndingKeepsLInv

-----------------------------------------------------------------------------
(* The walk goes on from where it stood, or from the beginning.            *)

(* A request that is repeated asks for the same page.                      *)
LEMMA RetryKeepsLInv == LInv /\ Retry => LInv'
<1> SUFFICES ASSUME LInv, Retry PROVE LInv'
  OBVIOUS
<1>1. walk \in Walk /\ reader \in Reader /\ query \in Query
  BY ListingAssumption DEF LInv, TypeOK
<1>2. /\ walk' = [walk EXCEPT !.fresh = FALSE]
      /\ reader' = [reader EXCEPT !.taken = reader.taken + 1]
      /\ reader.taken < query.allowance /\ walk.pc = "reading"
      /\ query' = query /\ history' = history /\ oldest' = oldest
  BY DEF Retry, Reading, server
<1>3. /\ walk' \in Walk
      /\ walk'.pc = walk.pc /\ walk'.token = walk.token
      /\ walk'.snapshot = walk.snapshot /\ walk'.continuity = walk.continuity
  BY <1>1, <1>2 DEF Walk
<1>4. reader.taken + 1 \in 0..query.allowance
  BY <1>1, <1>2 DEF Reader, Query
<1>5. /\ reader' \in Reader
      /\ reader'.handed = reader.handed /\ reader'.pages = reader.pages
      /\ reader'.stopped = reader.stopped
  BY <1>1, <1>2, <1>4 DEF Reader
<1>6. Reader' = Reader /\ Now' = Now
  BY <1>2 DEF Reader, Now
<1>7. TypeOK'
  BY <1>2, <1>3, <1>5, <1>6, AskedType DEF LInv, TypeOK, ServerTypeOK, Retry
<1>8. OneChangePerVersion'
  BY <1>2, <1>6 DEF LInv, OneChangePerVersion, Changed
<1>9. CompletedIsWhole' /\ RecordsAreOfOneSnapshot'
  BY <1>2, <1>3, <1>5, <1>6
  DEF LInv, CompletedIsWhole, RecordsAreOfOneSnapshot, Recorded
<1>10. NothingHanded' = NothingHanded /\ PassedIsHanded' = PassedIsHanded
  BY <1>2, <1>3, <1>5 DEF NothingHanded, PassedIsHanded, Rest, Recorded
<1> QED
  BY <1>2, <1>3, <1>5, <1>6, <1>7, <1>8, <1>9, <1>10 DEF LInv, Reading

(* A refreshed credential starts over only where nothing was handed on.    *)
LEMMA RefreshKeepsLInv == LInv /\ Refresh => LInv'
<1> SUFFICES ASSUME LInv, Refresh PROVE LInv'
  OBVIOUS
<1>1. reader \in Reader /\ NothingHanded
  BY DEF LInv, TypeOK, Refresh
<1>2. /\ walk' = NewWalk /\ ledger' = ledger
      /\ reader' = [reader EXCEPT !.refreshed = TRUE]
      /\ query' = query /\ history' = history /\ oldest' = oldest
  BY DEF Refresh, server
<1>3. /\ walk' \in Walk /\ walk'.pc = "reading" /\ walk'.token = None
      /\ walk'.snapshot = None
  BY <1>2 DEF NewWalk, Walk, Continuity
<1>4. /\ reader' \in Reader /\ reader'.handed = reader.handed
  BY <1>1, <1>2 DEF Reader
<1>5. Reader' = Reader /\ Now' = Now
  BY <1>2 DEF Reader, Now
<1>6. TypeOK' /\ OneChangePerVersion'
  BY <1>2, <1>3, <1>4, <1>5
  DEF LInv, TypeOK, ServerTypeOK, OneChangePerVersion, Changed
<1>7. NothingHanded' /\ Rest' = Keys
  BY <1>1, <1>3, <1>4 DEF NothingHanded, Rest
<1>8. CompletedIsWhole' /\ RecordsAreOfOneSnapshot' /\ PassedIsHanded'
  BY <1>3, <1>7 DEF CompletedIsWhole, RecordsAreOfOneSnapshot, NothingHanded, PassedIsHanded
<1> QED BY <1>3, <1>6, <1>7, <1>8 DEF LInv

-----------------------------------------------------------------------------
(* A page, and what is left after it.                                      *)
LEMMA PageFacts ==
  ASSUME LInv, NEW page \in Pages
  PROVE  /\ page.version \in 1..Now
         /\ page.last \in BOOLEAN
         /\ Rest \in SUBSET Keys
         /\ page.passed \in SUBSET Rest
         /\ page.last => \A k \in Rest \ page.passed : history[page.version][k] = None
         /\ NextToken(page) = IF page.last THEN None
                              ELSE [version |-> page.version, rest |-> Rest \ page.passed]
         /\ NextToken(page) \in Token \cup {None}
         /\ Bytes(page) \in Nat
<1>1. /\ Now \in Nat /\ Now \in 1..Now /\ oldest \in 1..Now
      /\ walk.token \in Token \cup {None}
      /\ walk.token # None => walk.token.version \in 1..Now
  BY DEF LInv, TypeOK, ServerTypeOK, Now, Walk
<1>2. Rest \in SUBSET Keys
  BY <1>1 DEF Rest, Token
<1>3. /\ page.version \in ServedVersions /\ page.passed \in SUBSET Rest
      /\ page.last \in BOOLEAN
      /\ page.last => Existing(page.version, Rest \ page.passed) = {}
  BY DEF Pages
<1>4. page.version \in 1..Now
  BY <1>1, <1>3 DEF ServedVersions
<1>5. Rest \ page.passed \in SUBSET Keys /\ page.version \in Version
  BY <1>2, <1>4 DEF Version
<1>6. NextToken(page) \in Token \cup {None}
  BY <1>3, <1>5 DEF NextToken, Token
<1>7. IsFiniteSet(Objects(page))
  <2>1. Objects(page) \subseteq Keys
    BY <1>2, <1>3 DEF Objects, Existing
  <2> QED BY <2>1, ListingAssumption, FS_Subset
<1>8. Bytes(page) \in Nat
  <2>1. Cardinality(Objects(page)) \in Nat
    BY <1>7, FS_CardinalityType
  <2> QED BY <2>1 DEF Bytes
<1> QED BY <1>2, <1>3, <1>4, <1>6, <1>8 DEF NextToken, Existing

(* A sequence that holds one record.                                       *)
LEMMA OneRecord == ASSUME NEW x PROVE Append(<< >>, x) = << x >>
OBVIOUS

(* A page of the walk's own snapshot goes on where the walk stands; one of *)
(* another is noticed.                                                     *)
LEMMA TakePageKeepsLInv == LInv /\ TakePage => LInv'
<1> SUFFICES ASSUME LInv, TakePage PROVE LInv'
  OBVIOUS
<1>1. PICK page \in Pages :
        /\ ledger' = [Asked EXCEPT !.bytes = @ + Bytes(page)]
        /\ \E kept \in Crossings(page) : /\ reader' = Handed(page, kept)
                                        /\ walk' = Walked(page, kept)
  BY DEF TakePage
<1>2. PICK kept \in Crossings(page) : /\ reader' = Handed(page, kept)
                                      /\ walk' = Walked(page, kept)
  BY <1>1
<1>3. /\ walk \in Walk /\ reader \in Reader /\ query \in Query /\ walk.pc = "reading"
      /\ walk.pages + 1 \in Nat /\ reader.pages + 1 \in Nat
      /\ history \in Seq(Cache) /\ Asked \in Ledger
  BY ListingAssumption, AskedType DEF LInv, TypeOK, ServerTypeOK, TakePage, Reading, Walk, Reader
<1>4. /\ query' = query /\ history' = history /\ oldest' = oldest /\ Now' = Now
      /\ Reader' = Reader
  BY DEF TakePage, server, Now, Reader
<1> DEFINE v    == page.version
           stop == kept # Objects(page) \/ BudgetReached(walk.pages + 1)
<1>5. /\ v \in 1..Now /\ page.last \in BOOLEAN
      /\ Rest \in SUBSET Keys /\ page.passed \in SUBSET Rest
      /\ page.last => \A k \in Rest \ page.passed : history[v][k] = None
      /\ NextToken(page) = IF page.last THEN None
                           ELSE [version |-> v, rest |-> Rest \ page.passed]
      /\ NextToken(page) \in Token \cup {None}
      /\ Bytes(page) \in Nat
  BY PageFacts
<1>6. /\ kept \subseteq Objects(page)
      /\ reader.stopped => kept = {}
      /\ Objects(page) = {k \in page.passed : history[v][k] # None}
      /\ kept \subseteq page.passed
  BY DEF Crossings, Objects, Existing
<1>7. history[v] \in Cache /\ \A k \in kept : history[v][k] \in Object
  <2>1. history[v] \in Cache
    BY <1>3, <1>5 DEF Now
  <2>2. \A k \in kept : k \in Keys /\ history[v][k] # None
    BY <1>5, <1>6
  <2> QED BY <2>1, <2>2 DEF Cache
(* The reader after the page.                                              *)
<1>8. \A k \in Keys :
        reader'.handed[k] = IF k \in kept THEN Append(reader.handed[k], history[v][k])
                                          ELSE reader.handed[k]
  BY <1>2 DEF Handed, Reader
<1>9. /\ reader'.pages = reader.pages + 1
      /\ reader'.stopped = (reader.stopped \/ kept # Objects(page))
  BY <1>2, <1>3 DEF Handed, Reader
<1>10. reader' \in Reader
  <2>1. [k \in Keys |-> IF k \in kept THEN Append(reader.handed[k], history[v][k])
                                     ELSE reader.handed[k]] \in [Keys -> Seq(Object)]
    BY <1>3, <1>7 DEF Reader
  <2>2. (IF kept = Objects(page) THEN 0 ELSE reader.taken) \in 0..query.allowance
    BY <1>3 DEF Reader, Query
  <2> QED BY <1>2, <1>3, <2>1, <2>2 DEF Handed, Reader
(* The walk after the page.                                                *)
<1>11. Snapshot(page) = (IF walk.snapshot = None THEN v ELSE walk.snapshot)
  BY DEF Snapshot
<1>12. /\ walk'.pc = (IF page.last \/ stop THEN "done" ELSE "reading")
       /\ walk'.token = NextToken(page) /\ walk'.snapshot = Snapshot(page)
       /\ walk'.pages = walk.pages + 1 /\ walk'.gap = walk.gap
       /\ walk'.continuity = (IF Snapshot(page) = v THEN walk.continuity
                              ELSE "snapshot_changed")
       /\ walk'.more = (~ page.last /\ stop)
  BY <1>2, <1>3 DEF Walked, Walk
<1>13. /\ Snapshot(page) \in 1..Now /\ Snapshot(page) \in Version
  BY <1>5, <1>11 DEF LInv, Version
<1>14. walk' \in Walk
  <2>1. /\ (IF page.last \/ stop THEN "done" ELSE walk.pc) \in {"reading", "done"}
        /\ (IF Snapshot(page) = v THEN walk.continuity ELSE "snapshot_changed")
             \in Continuity
        /\ (~ page.last /\ stop) \in BOOLEAN
    BY <1>3 DEF Walk, Continuity
  <2> DEFINE pc   == IF page.last \/ stop THEN "done" ELSE walk.pc
             held == IF Snapshot(page) = v THEN walk.continuity ELSE "snapshot_changed"
             more == ~ page.last /\ stop
  <2>2. /\ NextToken(page) \in Token \cup {None}
        /\ Snapshot(page) \in Version \cup {None}
        /\ walk.pages + 1 \in Nat
    BY <1>3, <1>5, <1>13
  <2>3. walk' = [walk EXCEPT !.pc = pc, !.token = NextToken(page), !.fresh = TRUE,
                             !.snapshot = Snapshot(page), !.pages = walk.pages + 1,
                             !.continuity = held, !.more = more]
    BY <1>2 DEF Walked
  <2> HIDE DEF v, stop, pc, held, more
  <2>4. walk \in Walk /\ pc \in {"reading", "done"} /\ held \in Continuity /\ more \in BOOLEAN
    BY <1>3, <2>1 DEF pc, held, more
  <2> QED BY <2>2, <2>3, <2>4 DEF Walk
<1>15. TypeOK' /\ OneChangePerVersion'
  <2>1. ledger' \in Ledger
    BY <1>1, <1>3, <1>5 DEF Ledger
  <2> QED BY <1>4, <1>10, <1>14, <2>1 DEF LInv, TypeOK, ServerTypeOK, OneChangePerVersion, Changed
(* While it claims one snapshot, what was handed on is of the page's.      *)
<1>16. ASSUME ~ reader.stopped, walk'.continuity = "intact"
       PROVE  /\ walk'.snapshot = v
              /\ \A k \in Keys :
                   reader'.handed[k] =
                     IF k \in Rest /\ k \notin kept THEN << >> ELSE Recorded(v, k)
  <2>1. Snapshot(page) = v /\ walk.continuity = "intact"
    BY <1>12, <1>16
  <2>2. PassedIsHanded
    BY <1>3, <1>16, <2>1 DEF LInv, Reading
  <2>3. \A k \in Keys : k \notin Rest => reader.handed[k] = Recorded(v, k)
    <3>1. CASE walk.token = None
      BY <3>1 DEF Rest
    <3>2. CASE walk.token # None
      <4>1. walk.snapshot = walk.token.version /\ walk.token.version \in Nat
        BY <2>2, <3>2 DEF PassedIsHanded, LInv
      <4>2. walk.snapshot = v
        BY <1>11, <2>1, <4>1, NoneAssumption
      <4> QED BY <2>2, <4>2 DEF PassedIsHanded
    <3> QED BY <3>1, <3>2
  <2>4. \A k \in Keys : k \in Rest => reader.handed[k] = << >>
    BY <2>2 DEF PassedIsHanded
  <2>5. \A k \in kept : k \in Rest /\ Recorded(v, k) = Append(<< >>, history[v][k])
    BY <1>5, <1>6, OneRecord DEF Recorded
  <2> QED BY <1>8, <1>12, <2>1, <2>3, <2>4, <2>5
(* And it is all there is, once the last page was.                         *)
<1>17. ASSUME ~ reader'.stopped, walk'.continuity = "intact", NEW k \in Keys
       PROVE  reader'.handed[k] =
                IF k \in Rest \ page.passed THEN << >> ELSE Recorded(v, k)
  <2>1. ~ reader.stopped /\ kept = Objects(page)
    BY <1>3, <1>9, <1>17 DEF Reader
  <2>2. reader'.handed[k] = IF k \in Rest /\ k \notin kept THEN << >> ELSE Recorded(v, k)
    BY <1>16, <1>17, <2>1
  <2>3. CASE k \in page.passed /\ k \notin kept
    BY <1>6, <2>1, <2>2, <2>3 DEF Recorded
  <2>4. CASE k \in kept \/ k \notin page.passed
    BY <1>5, <1>6, <2>2, <2>4
  <2> QED BY <2>3, <2>4
<1>18. NothingHanded /\ kept = {} => NothingHanded'
  BY <1>8 DEF NothingHanded
<1>19. CompletedIsWhole'
  <2> SUFFICES ASSUME walk'.pc = "done", Outcome' = "completed"
               PROVE  /\ walk'.snapshot \in 1..Now'
                      /\ IF walk'.more
                         THEN BudgetReached(walk.pages)'
                         ELSE \A k \in Keys : reader'.handed[k] = Recorded(walk.snapshot, k)'
    BY DEF CompletedIsWhole
  <2>1. ~ reader'.stopped /\ walk'.continuity = "intact"
    BY DEF Outcome
  <2>2. walk'.snapshot = v /\ kept = Objects(page)
    BY <1>3, <1>9, <1>16, <2>1 DEF Reader
  <2>3. walk'.more => BudgetReached(walk.pages)'
    BY <1>4, <1>12, <2>2 DEF BudgetReached
  <2>4. ASSUME ~ walk'.more, NEW k \in Keys
        PROVE  reader'.handed[k] = Recorded(walk.snapshot, k)'
    <3>1. page.last
      BY <1>5, <1>12, <2>4
    <3>2. reader'.handed[k] = Recorded(v, k)
      BY <1>5, <1>17, <2>1, <3>1 DEF Recorded
    <3> QED BY <1>4, <2>2, <3>2 DEF Recorded
  <2> QED BY <1>4, <1>5, <2>2, <2>3, <2>4
<1>20. RecordsAreOfOneSnapshot'
  <2> SUFFICES ASSUME walk'.continuity = "intact", NEW k \in Keys, reader'.handed[k] # << >>
               PROVE  /\ walk'.snapshot \in 1..Now'
                      /\ reader'.handed[k] = Recorded(walk.snapshot, k)'
    BY DEF RecordsAreOfOneSnapshot
  <2>1. ASSUME reader.stopped PROVE FALSE
    <3>1. NothingHanded /\ kept = {}
      BY <1>3, <1>6, <2>1 DEF LInv, Reading
    <3> QED BY <1>8, <3>1 DEF NothingHanded
  <2> QED BY <1>4, <1>5, <1>16, <2>1 DEF Recorded
<1>21. ~ (walk'.pc = "reading" /\ reader'.stopped) \/ NothingHanded'
  <2>1. walk'.pc = "reading" => kept = Objects(page)
    BY <1>12
  <2> QED BY <1>3, <1>6, <1>9, <1>18, <2>1 DEF LInv, Reading
<1>22. walk'.pc = "reading" /\ ~ reader'.stopped /\ walk'.continuity = "intact"
         => PassedIsHanded'
  <2> SUFFICES ASSUME walk'.pc = "reading", ~ reader'.stopped, walk'.continuity = "intact"
               PROVE  PassedIsHanded'
    OBVIOUS
  <2>1. ~ reader.stopped /\ ~ page.last
    BY <1>3, <1>9, <1>12 DEF Reader
  <2>2. walk'.snapshot = v
    BY <1>16, <2>1
  <2>3. /\ walk'.token = [version |-> v, rest |-> Rest \ page.passed]
        /\ walk'.token # None
    <3>1. [version |-> v, rest |-> Rest \ page.passed] \in Token
      BY <1>5 DEF Token, Version
    <3> QED BY <1>5, <1>12, <2>1, <3>1, TokenAssumption
  <2>4. Rest' = Rest \ page.passed
    BY <2>3 DEF Rest
  <2>5. \A k \in Keys : Recorded(v, k)' = Recorded(v, k)
    BY <1>4 DEF Recorded
  <2> QED BY <1>4, <1>17, <2>2, <2>3, <2>4 DEF PassedIsHanded, Recorded
<1>23. walk'.snapshot \in 1..Now' /\ (walk'.token # None => walk'.token.version \in 1..Now')
  BY <1>4, <1>5, <1>12, <1>13
<1>24. reader'.pages # 0
  BY <1>3, <1>9 DEF Reader
<1> QED
  BY <1>15, <1>19, <1>20, <1>21, <1>22, <1>23, <1>24 DEF LInv, Reading

-----------------------------------------------------------------------------
(* At every turn what was handed on and what the token stands for are the  *)
(* two parts of one snapshot, or the walk has said that they are not.      *)
THEOREM ListingInvariant == Spec => []LInv
<1>1. LInv /\ UNCHANGED vars => LInv'
  BY DEF LInv, vars, local, server, TypeOK, ServerTypeOK, Now, Reader, OneChangePerVersion,
     Changed, CompletedIsWhole, Outcome, BudgetReached, Recorded, RecordsAreOfOneSnapshot,
     NothingHanded, Reading, PassedIsHanded, Rest
<1>2. LInv /\ Next => LInv'
  BY ServerKeepsLInv, ExhaustedKeepsLInv, TakePageKeepsLInv, RefusePageKeepsLInv,
     RepeatTokenKeepsLInv, RetryKeepsLInv, LosePageKeepsLInv, RefreshKeepsLInv
  DEF Next, Turn
<1> QED BY InitLInv, <1>1, <1>2, PTL DEF Spec

(* §18.3, §19.1: a read that says it completed is the whole collection at  *)
(* its version, or has reached the page budget its operator named.         *)
THEOREM CompletedListing == Spec => []CompletedIsWhole
<1>1. LInv => CompletedIsWhole
  BY DEF LInv
<1> QED BY <1>1, ListingInvariant, PTL

(* §18.2: the records of a read that claims one snapshot are all of it,    *)
(* and no object crosses twice.                                            *)
THEOREM OneSnapshot == Spec => []RecordsAreOfOneSnapshot
<1>1. LInv => RecordsAreOfOneSnapshot
  BY DEF LInv
<1> QED BY <1>1, ListingInvariant, PTL
=============================================================================
