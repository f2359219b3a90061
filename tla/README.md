# Verification of the Ono-Sendai Kubernetes provider

TLA+ models of `ono-provider-kubernetes` and `ono-kubernetes-plugin`: how a collection is listed
and watched, what a session answers from what it holds, how a change is planned, sent and verified,
how credentials and sessions are shared, and the rules by which the two crates derive edges,
times, names, places and verdicts from what they read. TLC checks small instances; TLAPS proves
the central properties for all values of the constants.

The question behind all of it is the one the repository states as an invariant of its own (§4
invariant 13, §20.3): *what the provider could not see must never be reported as something that is
not there.* An answer is a claim about a whole collection at one version, or about one object over
time, and it is put together from pages, events, bookmarks, reconnects and retries, by several
invocations, while the cluster and this package itself write to it.

Section numbers (§19.4, ...) and Gates are those the source's comments cite.

## 1. The system

Two crates. `ono-provider-kubernetes` does no I/O of its own: its types are handed bytes, events
and clocks. `ono-kubernetes-plugin` runs inside a host that brokers connections and receives
records; each query is an *invocation* with a worker of its own (at most three at once), and all
invocations on one provider instance share one `Session` under one lock.

| component | state it keeps | operations | interacts with | what is hard, and what makes it correct |
|---|---|---|---|---|
| watch stream (`watch.rs`) | state, checkpoint, cached objects, periods of observation with their change logs, gaps, staging, quarantined writes | listed, observe, begin/abandon streaming list, reconnected, written, find | fed by the change view, owned by the session | events of an old body, bookmarks that end a list, breaks on top of breaks, a full log; the cache is the collection at the checkpoint, every loss is a gap with the right edges |
| session: watches (`session.rs`, `index.rs`) | watched entries, the index of each | synchronise, observe_event, mutated, close_view, lookup, indexed | everything above the provider | interleaved callers, own writes, entries dropped under a reader; an answer from the cache is what the collection held |
| session: served API (`session.rs`, `schema.rs`) | discovery documents, schemas, root hashes, fingerprint | cache, refresh, vouch, observe a fingerprint | query, diagnostic | each is an observation with an age and says something about the others; no answer outlives its window, its listing or its cluster |
| change view (`changes.rs`) | place in its loop, a response body, the listing it reads | acquire, round, apply, abandon, relist, reconnect, close | session, API server, host | steps without the lock between steps with it; records add up to the collection, and it never goes silent |
| live view (`live.rs`) | bounded rows, what was withheld, counts, staleness | refresh, announce | change view | a row is no newer than its observation, a count across a gap is no change |
| transport (`transport.rs`) | one HTTP/1.1 connection, the position of a paging walk | get, list, walk, watch, write | broker | a page that fails, expires, repeats or comes from elsewhere; a body cut up anywhere; a complete answer is one snapshot |
| budget, retries, coverage | requests, pages, bytes, time; scopes that answered, gaps | begin, page, transfer, plan; record | every query | the bound is met before the spending, and a stop is always stated |
| query (`query.rs`, `dynamic.rs`, `discovery.rs`) | pages taken, records handed on, why it stopped | resolve a name, streamed listing, get | session, transport, host | records cannot be taken back; a name is resolved over what could be read |
| plan, mutation (`plan.rs`, `planning.rs`, `mutation.rs`, `mutations.rs`) | a prospective change, its preconditions, the deadline of a verification | plan, preflight, apply, delete, verify, converge | session, transport, controllers | other writers between read and write; a late answer, an older generation or another lifetime must not verify a write |
| session registry (`sessions.rs`) | sessions by instance, poisoned or not | with | all invocations | a panic under the lock discards the session |
| credentials (`exec.rs`, `credentials.rs`, `credential_store.rs`) | a credential by source, its expiry | resolve, refresh | query, change view | expiry between check and use; one run per expiry, one retry per refusal |
| connection, logs (`broker.rs`, `logs.rs`) | silent windows, a partial line | pull, follow, cancel | host, transport | silence, cancellation and bytes in any pieces |
| relationships, causal walk (`relationship.rs`, `causal.rs`, `relations.rs`, `why.rs`) | the memo of one invocation's listings, frontier, seen | derive, explore, expand | query, session | two ends, two sources, cycles, bounds, failures; no edge is denied that was not looked for |
| events, timelines (`temporal.rs`, `events.rs`, `timeline.rs`) | none (derived) | assemble, order | query, session | clocks that do not agree, lifetimes of one name |
| places, diagnostic, evidence (`place.rs`, `spatial.rs`, `diagnostics.rs`, `cluster.rs`, `evidence.rs`) | none (derived) | address, navigate, interrogate, export | query | no claim beyond its evidence |
| kubeconfig, objects, redaction, records, contributions, audit, TLS, plugin entry | none worth a model | parse, hold, format, route, forward | host | |

How they interact in one `k8s-change` invocation: it *acquires* the collection (a paging walk
whose listing seeds the stream, or a watch opened with a streaming list whose objects are staged
until a closing bookmark), reports what is cached, then runs *rounds*: take the checkpoint under
the lock, open a watch without it, apply each event under the lock, report what was applied. When
the body ends it asks the stream what has become of it and reopens, re-acquires or ends. Any
other invocation, a lookup, or a write of this package may come between any two of these steps.

In one mutating invocation: under the session's lock it reads the target, plans, asks whether the
change is permitted, sends it with the plan's preconditions, looks once, and tells the session what
it wrote. Then, without the lock, it *converges*: it polls the session's live watch or opens one of
its own until the plan's rule is decided or the window ends.

## 2. Modules

| module | models | form |
|---|---|---|
| `WatchOps` | `WatchStream`, `Segment`, `WatchGap` (`watch.rs`) | operators from a stream to a stream, one per method |
| `ApiServer` | the Kubernetes API server's collections (external) | a state machine: a history of snapshots and the oldest version still served |
| `ObservedCollection` | nothing of the code: what a watched collection promises | abstract specification |
| `WatchedCollection` | one stream and one feed, any order the methods allow | state machine over `WatchOps` and `ApiServer` |
| `SessionOps` | `Watched`, `RelationshipIndex` and the `Session` methods on them | operators on a registry slot |
| `ChangeView` | invocations of `changes.rs` through one session, own writes | state machine over `SessionOps` and `ApiServer` |
| `Listing` | `Client::walk`, the `Ledger`, the `Streamed` and `Collected` readers | state machine over `ApiServer` |
| `Planning` | intents, actions, effects, rules, preconditions, staleness, caveats (`plan.rs`, `planning.rs`) | operators on an object and an intent |
| `Verifying` | requests, answers, reconciliation, verdicts (`mutation.rs`, `condition.rs`) | operators on a plan and an observation |
| `Target` | the target of a change: server-side apply, deletion, its controller, other writers (external) | state machine over `Verifying` |
| `Mutating` | a mutating invocation and the session's watch beside it (`mutations.rs`) | composition of `Target`, `Verifying` and `SessionOps` |
| `Access` | credential store, session registry and the invocations that wait for both | state machine |
| `Surface` | the documents, schemas and fingerprint of a session over a changing cluster | state machine |
| `Connection` | one response body through broker and HTTP framing | actions and a frame-taking operator |
| `Follow` | a `k8s-log` invocation and its decoder | composition over `Connection` |
| `Walk` | a `k8s-why` exploration with its memo and bounds | state machine |
| `Kin` | the relationships and the search for the other end | operators on a set of objects |
| `History` | stamps, clocks, observations, timelines | operators |
| `ObjectTimeline` | a timeline made from a stream that any feed has left | `History` over `WatchedCollection` |
| `Screen` | `live.rs` and the emitter that shows it | operators |
| `Catalogue` | discovery documents, both forms, and the resolution of a name | operators |
| `Wire` | the watch decoder; what an error answer means | operators |
| `Places` | addresses, places, exits (`place.rs`, `spatial.rs`) | operators over `Kin` |
| `Diagnosing` | the requests of a diagnostic, capabilities, fingerprint, certificate key | operators |
| `Evidence` | what objects state of other systems | operators |
| `Kinship` | asks both ends of the relationships of a cluster | a state is a question |
| `Rules` | asks the operator modules one bounded question at a time, those of `Kinship` among them | a state is a question |
| `*Proofs` | | lemmas and theorems of the module they are named after; `WalkProofs` also of `Kinship`, `WatchedCollectionProofs` of `ObjectTimeline` |
| `MC*` | | instances for TLC |

**State and code.** A `WatchStream` record has the fields of the struct of that name; objects are
reduced to a key, a uid and a version, and a `resourceVersion` to a number that is compared for
equality only, as in the code. `ChangeView`'s `slot` is the session's entry for one collection and
scope, `reader[r]` is the local state of `observe`, `live` and `Live::run`: its `pc` names the next
locked step. Because the code takes the session's lock for a step and releases it before it
waits (`Held::with`), a locked step is one action, and two steps of one function with an unlock
between them are two. `seen` is not in the code: it is what a consumer has when it puts the
records together. In `Listing`, one turn of the loop of `walk` is one action (ledger, request,
what is done with the answer); `walk` holds the loop's locals and the coverage, `reader.handed`
what has crossed to the consumer.

In `Mutating`, `call[c]` has the locals of `Mutating::run` and `converge`; `holder` is the session's
lock, held from the read of the target to `Session::mutated`, so no other step of this package falls
between them, but any step of the cluster may. `slot` is the session's entry of the target's collection
and `feeding` the invocation that feeds it. `audited`, `lagged`, `planned` and `written` are history for
the properties. In `Access`, `entry` and `inside` are what is in the store and who holds the session;
`pc[i]` says which of the two locks invocation `i` waits for or holds. `acquired`, `refused` and
`crossed` are what it has caused so far. In `Surface`, `served` is the cluster, `was` what it has served
at each instant, `documents`, `schemas`, `root`, `digest` and `fingerprint` the session's fields;
`shown` is history: the cluster a diagnostic last showed the session, in an entry the one it had shown
when the entry was read. In `Walk`, `frontier`, `uids`, `locators`, `findings`, `gaps` and `more` are
the locals of `explore`, `listings` the memo of `relations.rs`, with, as history, whether what was read
was only a part (`part`); one action takes one object off the frontier. In `Follow`, a body travels as
tokens on a `wire`; `Receive` takes the frames that are whole and `Silence` is one silent window of the
broker.

**The API server.** `history[v]` is the collection at version v. One version is one write,
perhaps of another collection. The server may compact its history at any time. A watch delivers
the changes after its version in order and may send a bookmark for any stretch without changes; a
streaming list sends the objects of one version in any order and then its bookmark; a list
page passes some of the remaining keys of its token's snapshot, and may hold no object at all.
`Target` is one object of it in more detail: field owners, generations, finalizers, an autoscaler,
a controller that observes a generation, makes it ready or fails it, and other managers.

**What the operators named "a mutated form of the next" are.** Plausible mistakes in the code they stand
beside. Each property of each passing run has one that breaks it; `PROJECT.json` pairs them. They are
not part of any specification. Some definitions are used by no configuration and are kept so that
section 6 can be repeated: the five properties it calls violated that no run checks, and in MC modules
`TwoReaders` of `MCChangeView`, `Unpaged`, `RespelledStated` and `TwoSpellings` of `MCWalk`, `NodeOnly`,
`CordonIntents` and `ImageIntents` of `MCMutating` (a cordon of a Node, and an image over fields of an
earlier apply).

## 3. Runs

Each run asks one question of the system; its configuration gives the constants values and the
properties it checks. Times are for two workers on one machine.

| run | expected | question | instance |
|---|---|---|---|
| `watched` | pass | Can any order of calls make a stream claim what the cluster was not, or lose something without saying so? | 2 keys (symmetric), 4 versions, log of 1, 1 break; 70 s |
| `driver` | pass | Does an invocation that is alone with its session keep the contract, tell the truth and catch up? | 2 keys, 3 versions, log and index of 1, 1 break, fair; 50 s |
| `writes` | pass | Can this package's own writes make cache, index or answers wrong? | 2 keys of which it writes one, 3 versions, log of 2, index of 1, 2 invocations one after the other; 40 s |
| `listing` | pass | Is a listing that says it is complete the collection, and does it end? | 3 keys, pages of 1 object, 2 versions, 7 kinds of question, fair; 40 s |
| `mutation` | pass | Does a change do only what its plan foretold, and is its verdict true? | 1 caller, a Deployment, an apply of replicas and image and a foreground delete, pages of autoscalers that are the last or not, 4 versions, fair; 130 s |
| `access` | pass | Do concurrent invocations share credential and session without a second run, an inheritance or a deadlock? | 2 invocations, 3 kinds of request, lifetimes 1 and 3, margin 1, 1 revocation, 1 panic, fair; 80 s |
| `surface` | pass | Does what a session holds of the served API stay recent, of one piece, and of one cluster? | 2 versions, 2 clusters (both symmetric), 1 signal, either form of discovery, window 2, 1 change; 100 s |
| `walk` | pass | Does a bounded walk report everything within its bounds or say that it may not have? | a subject and 3 objects, 128 graphs, 5 bounds, one of them on pages; 12 s |
| `follow` | pass | Are the lines of a log its bytes, and does a cancelled follow end? | bodies of up to 2 chunks of 2 symbols, line limit 2, 3 framings, 2 silent windows, fair; 20 s |
| `rules` | pass | Do the pure rules agree with references of their own? | the bounded inputs of `MCRules`; 70 s |
| `forgotten` | violation | Is a replaced cluster noticed by a diagnostic with less evidence? | `surface` with a signal that is sometimes obtained and 2 changes |
| `memo` | violation | Does a remembered listing answer all that its key stands for? | `walk` with one selector shared by two rules |

**What each shows.**

`watched`: while a stream is synchronised, its cache is `history[checkpoint]`
(`CacheIsCollectionAtCheckpoint`), with the invariant that is proved (`IInv`); the log of each
period holds every change of the period, once and in order, less what a trim is told for with the
right edges, and the records of ended periods are final (`LossesAreReported`); state, checkpoint,
last period and last gap agree, and two periods have a gap between them with their very edges
(`PeriodsAndGapsAgree`); the timeline of an object made from the stream is that lifetime's and is
not called continuous where it is not (`TimelineIsTheLifetime`); stream and feed implement
`ObservedCollection` (`ImplementsObserved`), where knowledge is nothing or one whole snapshot, and
moves forward by one change or one acquisition.

`driver`: the records add up to the collection (`RecordsAreTheCollection`), a streamed list is
seeded whole (`StreamedListIsWhole`), every step of the invocation is a step the contract of
`WatchedCollection` allows (`KeepsTheContract`, a refinement), and an invocation that is not ended
catches up (`ReaderCatchesUp`). `writes`: while this package writes at any moment, `lookup` answers
of the checkpoint and never of a quarantined object (`AnswersAreOfTheCheckpoint`), and an index that
may answer posts exactly what is cached (`IndexIsTheCache`). `listing`: `CompletedIsWhole`,
`RecordsAreOfOneSnapshot`, the proved invariant `LInv`, and `WalkEnds`.

`mutation`: between the read of a plan and its write nobody else wrote unnoticed, the write touches the
fields of the plan or such as only this package held, a write that stops or replaces Pods was planned as
one, and the autoscaler that will take the replicas back is named or said not to have been asked for,
unless it is beyond the one page that is read (`WhatHappensWasForetold`; without that exemption
`NoAutoscalerIsMissed`, which is false of the code: section 6, *page*); a confirmed change was seen on
the planned lifetime after the write, converged where the rule is about a controller; a refuted one
failed after the write; and no deletion is confirmed, no object said to be gone, whose lifetime has not
ended (`VerdictsAreTrue`); every verification ends (`VerificationEnds`).

`access`: `OneRunPerExpiry`, `OneRetry`, `PanicLeavesNothing` and `InvocationsEnd`: nobody acquires
while a credential that will last is held (two invocations that are refused with one credential each
force a run, which no property forbids), a refusal buys the invocation one newer credential and one
more request and none after records have crossed, whoever holds the session finds nothing a panicked
invocation wrote, and nobody waits for ever. `surface`: `AnswersAreRecent`, `SchemasAreOfTheListing`,
`ListsAreOfTheRoot`, `ReplacedIsForgotten`. `walk`: an answer that tells of no gap, and was
not derived from a part of a collection (`OnlyAPartWasHeld`: a listing short untold, or ended at a
bound on pages), shows exactly what asking hop by hop would (`NothingIsMissedUntold`; without that
exemption `NothingIsMissed`, which is false of the code: section 6, *torn*); a finding is a chain of real
relationships, reported and read once, within the bounds (`ReportsAreFindings`). `follow`:
`LinesAreTheLog` and `CancelEnds`.

`rules`: `EndsAgree` (an edge is the same from either end, from an index or from the API server),
`TimesAreTrue` (what is ordered happened in that order and so far apart, whatever the clocks say; dates
are the days they name), `ScreenIsHonest` (age, bound, staleness and changes of a live view),
`NamesAreProven` (found, ambiguous and not served over a discovery of which some groups did not answer,
in both forms; of a kind this package names itself, but for a group that is stale in an aggregated
document, section 6, *stale*), `FramesAreWhole` (any cut of a body into reads), `ErrorsAreTold`
(absence, retry, credential and coverage, against what the server meant; a server that broke counts as
one worth asking again, which is the code's rule and not its comment's: section 6, *generic*),
`PlacesAreReal` (an address is read back as its place; exits lead to the lifetime meant; `up` leads to
the parent), `DiagnosisIsHonest` (what is stated the cluster said; two fingerprints differ only if the
clusters do), `EvidenceIsTrue` (facts with pointers that lead back, absences that are absences, one
spelling per fact, and a shared lookup value that is not empty, of the same drivers, speaks of one
thing; without those two conditions `KeysStandAlone`, which is false of the code: section 6, *handle*
and *blank*).

**Bounds and why they are enough.** `MaxVersion` bounds the writes: three or four versions give an
object a creation, a change and a deletion with another object's change or a foreign write in between.
Two keys tell "the object" from "another object", and three are needed in `listing` for a page that is
neither first nor last. A log of one change trims at the second change and again at the third.
`MaxBreaks` counts losses: one gives a life with a gap, a re-acquisition and a second period. An index
of one overflows with two objects. `Invocations` bounds how often each reader is invoked, twice in
`writes`, where the second finds what the first has left, `OwnWritten` which objects this package
writes, once each. `Queries` lists the combinations of bounds, retries and readers a listing is read
with: with each limit low enough to be met on the first page, on a later page, and on a retry.

In `mutation` four versions are the object that was planned on, the write, and two more: another
writer's or a controller's change before or after it, a deletion, a recreation. Another caller would
be one more foreign writer, so there is one; what other managers write is bounded to the image, which
is one of the fields the apply changes. The constraint `Unsettled` stops a behaviour at the end of
the invocation: it reads nothing more then, `versions` only grows, and each property of it is about
versions that are there, so nothing later can undo or cause a violation.

In `access` `MaxTime`, `MaxRevoked`, `MaxPages` and `MaxPanics` bound the clock, the credentials that
are revoked, the pages and the panics. Lifetimes of one and three ticks with a margin of one give a
credential that is about to expire as it is issued and one that expires while it is carried; two
invocations are one in each lock and one that waits; each may meet an expiry, a refusal and the other's
panic. In `surface` a window of two ticks and a clock of two give an answer in its window, at its edge
and beyond; `MaxChanges` of one is one edit, definition, withdrawal or replacement between any two
methods. In `walk` three objects beside the subject give cycles, diamonds, a far end beyond the bound,
an object that is not there; 2 hops and 1 read are the smallest bounds that are met. With the bound on
pages a collection read from the API server may end anywhere. In `follow` two chunks of two symbols and
a limit of two put a newline on, before and after every boundary of chunk, read and limit.

`CHECK_DEADLOCK FALSE` is used where a behaviour may really stop: an invocation that has ended, a walk
that is done, a clock or a number of versions at its bound, a question that is asked.

**Fairness.** The worker of an invocation is a thread that runs on: weak fairness of its steps. A
request of `ChangeView`, `Listing` and `Access` is answered or fails: `ReadPolicy::request` ends one
after a number of silent windows, and the helper is given a deadline (`credentials.rs`), so both are
weakly fair. In `ChangeView` a body that is opened time and again delivers in the end what the
server has: strong fairness of the deliveries, strong because bodies may end any number of times in
between. In `Mutating` only the clock (`WindowEnds`) and the invocation's own loop (`Poll`, `Expire`)
are fair: no answer, event or controller is waited for. In `Follow` the invocation's steps are fair
and those of the server are not: it may be silent for ever, and the end of a silent window, which the
broker counts, is what lets a cancellation be noticed. Nothing is assumed of ends, breaks, refusals,
cancellations, panics or the cluster's writes; that the server falls silent is the bound on versions.

## 4. Proofs

For any set of keys, any log capacity and trim block, any number of versions and breaks; any
invocations, lifetimes and bounds of `Access`; any versions, clusters, signals and windows of `Surface`;
any target, intents, number of invocations and of versions, and any other writers of `Mutating`; any
finite set of objects, whatever they state and select, any hops and reads, and any order in which new
objects are taken, of `Walk`; any cluster of `Kin`.

| module | inductive invariant | properties proved from it |
|---|---|---|
| `WatchedCollectionProofs` | `IInv` (`InductiveInvariant`) | `CacheIsCollectionAtCheckpoint` (`CacheIsSound`), `TypeOK` (`TypeCorrect`), `ImplementsObserved` (`Refinement`) |
| | `CInv` (`ContinuityInvariant`) | `LossesAreReported` (`LossesReported`), `PeriodsAndGapsAgree` (`PeriodsAndGaps`), `TimelineIsTheLifetime` (`TimelinesAreTrue`) |
| `ChangeViewProofs` | `XInv` (`SharedInvariant`) | `IndexIsTheCache` (`IndexPostsTheCache`) |
| | `SInv` (`AloneInvariant`) | `AnswersAreOfTheCheckpoint` (`AnswersHold`), `StreamedListIsWhole` (`StreamedWhole`) |
| | `RInv` | `RecordsAreTheCollection` (`RecordsHold`) |
| | `KInv` | `KeepsTheContract`, the refinement (`ContractKept`) |
| `ListingProofs` | `LInv` (`ListingInvariant`) | `CompletedIsWhole` (`CompletedListing`), `RecordsAreOfOneSnapshot` (`OneSnapshot`) |
| `AccessProofs` | `AInv` (`AccessInvariant`) | `OneRunPerExpiry` (`OneRun`), `OneRetry` (`Retried`), `PanicLeavesNothing` (`NothingLeft`) |
| `SurfaceProofs` | `SInv` (`SurfaceInvariant`) | `AnswersAreRecent` (`Recently`), `ListsAreOfTheRoot` (`OfTheRoot`) |
| | `FInv` (`ShownInvariant`) | `SchemasAreOfTheListing` (`OfTheListing`), `ReplacedIsForgotten` (`Forgotten`) |
| `MutatingProofs` | `MInv` (`MutatingInvariant`) | `VerdictsAreTrue` (`VerdictsHold`), `WhatHappensWasForetold` (`Foretold`) |
| `WalkProofs` | `WInv` | `ReportsAreFindings` (`WalkReportsAreFindings`) |
| | `WInv`, `Remembered`, `Followed` | `NothingIsMissedUntold` (`WalkMissesNothingUntold`) |
| | none: a question of `Kinship` has no past | `EndsAgree` (`EndsAlwaysAgree`) |
| `ApiServerProofs` | | lemmas: the server only adds to its history, and the event of the next change leads from the collection at one version to the collection at the next |

**Assumptions on constants.** `LogAssumption` (the log holds at least one change and trims at most all
of it), `MaxVersionAssumption`, `MaxBreaksAssumption`, `NoneAssumption`, `TokenAssumption` and
`EntryAssumption` (`None` is none of the values it is distinguished from), `ListingAssumption` (finitely
many keys, a page size of at least one), `AccessAssumption` and `SurfaceAssumption` (bounds are numbers,
lifetimes and the window at least one tick, `None` is none of the values), `TargetAssumption` and
`MutatingAssumption` (intents set fields of an object to values), `ContentAssumption` and
`CacheAssumption` (`None` is no object and no version), `WalkAssumption` (finitely many objects, each of
one rule, and bounds that are numbers), `ClustersAssumption` (what `Kinship` asks about are clusters, as
`IsCluster` of `Kin` says). The environment is assumed as modelled; no proof assumes fairness.

**Hypotheses of single theorems**, each with the behaviour it excludes:

* `AloneInvariant`, `AnswersHold`, `StreamedWhole`, `RecordsHold`, `ContractKept`: one reader
  (`\E r : Readers = {r}`), any number of invocations one after another. With two readers they are
  false of the code (section 6, *shared*); `IndexPostsTheCache` has no such hypothesis.
* `RecordsHold`: `Invocations <= 1`. A later invocation may find the stream live and is then told
  changes only (section 6), so its records alone are no collection.
* `ContractKept`: `OwnWritten = {}`. A write of this package is one locked step of the session, a
  change of the cluster and a quarantine at once, which the contract takes as two steps.
* `WalkReportsAreFindings`: `OneSpelling`, a locator spelled in one way. With two the property is
  false of the code (section 6, *twice*).
* `Foretold`: that an autoscaler is named is claimed where the page that was read was the last one; the
  property says so itself (`inventory.more`), and without it is section 6, *page*.
* `WalkMissesNothingUntold`: the property itself exempts a walk that held a part of a collection
  (without it section 6, *torn*); also `ChildrenAreKept`, that what is read of an owner's children is no
  other object's collection (without it the run `memo`), and `~ Silent`, that every group that is
  searched answers (section 6, *unsearched*).
* `EndsAlwaysAgree`: none but `ClustersAssumption`. One object of a cluster has one group, kind,
  namespace and name; an owner reference has a uid, and names the object which has that uid and kind, as
  the API server asks of it; and an owner with a selector owns what the selector matches, since a
  controller adopts nothing else and releases what no longer matches. (Of an object that says otherwise
  the two ends do differ: the owner looks among what it selects.) TLC evaluates it on the clusters of
  `rules`.
* `ShownInvariant`, `OfTheListing`, `Forgotten`: some signal that every diagnostic obtains. Without
  it `Forgotten` is false, which is the run `forgotten`.

**Why the cache is sound.** That the cache is the collection at the checkpoint is not inductive by
itself: a change is applied to whatever is cached, so the step is right only if the change is the
*next* one after the checkpoint. `IInv` therefore adds that an open body stands at the checkpoint
(`BodyStandsAtCheckpoint`), that a staged set is the part of one version already sent
(`StagedIsPartOfInitial`), that a listing under way is of a version not older than the stream
(`ListingIsNotBehind`), and that one version is one change. The proof has one lemma per kind of
step: standing still, losing, synchronising, advancing past one change, staging, opening.

**Why every loss is reported.** What `LossesAreReported` says of a log holds through a step only if
the period it belongs to is the one that is open, ends where the stream stands, and was not cut off
silently before. `CInv` adds to `IInv` that the last period is open exactly while the stream is
synchronised, and the last gap exactly while it is broken (`Continuous`); that an open gap begins where
the last period ended, and that the gap a trim moves is not one between periods (`Separated`); that a
trimmed log has a gap from the beginning of its period to the oldest change it retains, and that of the
open period is the one the next trim will move (`TrimsTold`); and what each log holds, in terms of the
history (`LogsWhole`). A trim is the hard step: it takes the oldest changes out of the log and, in the
same call, moves the edge of the gap that tells of them.

**Why a timeline is the lifetime.** `LogsWhole` also says that each logged change is one that its key
went through, of the lifetime the log names (`Tells`). A timeline selects from that log the changes
of one key and one lifetime (`Selection`) and files them by the period they are of (`Files`), one
period after another. Both are recursive functions over a sequence, which the prover knows nothing of:
that they are defined (`SelectionExists`, `AbsorptionExists`) and what they return
(`ChangesOfSelects`, `TimelineAbsorbs`) is shown by a least counterexample (`Upwards`). A change of that
lifetime which the log holds is selected, since a version is a change of one key; and one it does not
hold was trimmed, and the gap that tells of it is among the timeline's.

**Why an invocation's answers are those of the collection.** `XInv` holds for any number of readers,
as it speaks of the entry only: the index posts what the cache holds outside the quarantine, or it has
given up and does not answer. That the *stream* is right needs to know where the reader is in its loop:
between two locked steps the body it has opened must still be the body of the checkpoint. `SInv` says,
by program counter, what an invocation that is alone may rely on: a synchronised cache is the snapshot of
its checkpoint (`CacheStands`), an open body continues it (`BodyStands`), what is staged is what this
body has sent (`StagingStands`), and a request asks for what the stream needs (`RequestStands`). `RInv`
adds that a reader that follows a synchronised stream has been told all that is cached, and one whose
stream was broken, or stages, nothing (`RecordsStand`).

**Why an invocation keeps the contract.** `WatchedCollection` lets a feed do anything that the methods
of a stream allow; `KInv` shows that the change view does nothing else. `RoundStands` says when a round
finds a live or a staging stream, which of the two requests it then opens, and that a listing is no
older than the stream. `GapsStand` is about the bound of the contract on breaks, which counts gaps:
every gap there is, and the one a listing over a live stream will leave, is paid for by a break of the
server, by an invocation, or by the position of the stream moving on.

**Why a completed listing is whole.** The claim is about the end of the walk; what makes it hold
at the end is that at every turn, while the walk still claims one snapshot, the keys that the
token no longer names were handed on as they were in the snapshot and the others not at all
(`PassedIsHanded`). A page of another snapshot breaks this and at the same moment the claim; a
failure, an overrun and a repeated token leave it alone and withdraw the claim by a gap; a refreshed
credential starts over only when nothing was handed on.

**Why one expiry is one run.** This is about acquiring. A refusal forces a run whatever the store holds,
and so two invocations refused with one credential force two; what bounds those is `Retried`, by
invocation. That an invocation in the helper finds no lasting credential in the
store needs that it holds the entry's lock (`HelperIsHeld`) and that it asked before now
(`AskedBefore`), since the decision to run was made on the clock of an earlier step. One retry rests
on where an invocation stands and what it carries (`RetryInv`): a second request carries a run that
is newer than the refused one, and a listing that has handed on a page has not been refused before
it. That a panic leaves nothing rests on `SessionIsHeld` (who writes the session is inside its lock)
and `PanicPoisons` (a session with a panicked writer is poisoned until it is thrown away).

**Why answers are recent, and of one cluster.** An entry is stamped with the instant it was read at, and
what it says is a surface that was served then (`DocumentsWere`), which `ServedIsRecorded` keeps in
`was`. A schema may be vouched for later than it was read, by a hash: that is an observation of the
same schema because descriptions only grow (`NumbersGrow`) and a hash stands for one schema
(`HashesAreOfSchemas`), so its new stamp is an instant the schema was served at (`SchemasWere`).
`RootNames` says that a list that is not stale is of a version the root document names, and that
there is none beside an aggregated document. `FInv` adds that the signal every diagnostic obtains is in
the fingerprint as soon as a cluster was shown, and is of that cluster (`SignalStands`), so that a
comparison with another one cannot come out undecided; that entries were read under the cluster last
shown (`EntriesAreShown`); and that a schema is held only beside its resource list (`SchemasHaveLists`).

**Why a verdict is of the write.** A verdict is given long after the write, by what the session's
cache, a watch of its own or one read shows of the target. `MInv` says, of an invocation, what it was
written over (`WriteStands`: the planned version or the one after it, since the server grants the
request of a plan only where the target still is at the version planned on), and that its watch opens
and stands at the write or later (`PlaceStands`). Of the cache it says that a synchronised one holds the
target as it was at the checkpoint (`StreamStands`), and, what makes the proof go through, that to an
invocation which verifies it either has passed the write or keeps the target in quarantine until the
next event, which is the write or later (`AnswersAfter`). That is true because `Session::mutated`
quarantines in the step that ends the lock, and only of a stream that was not behind the plan then: the
one that was is what `Sound` exempts (section 6). A change seen then is a version since the write
(`SeenIsEvidence`), and stays one (`EvidenceLater`), because versions are only added. Of a deletion
`LifetimesEnd` says that another lifetime under the name is the end of the first. A plan is a
function of the version it was made on, so what happens was foretold (`Foretold`) follows from
`WriteStands`: a field that differs is one of the document, which has a change of the plan behind it
(`DocumentIsSet`), or one that an earlier apply held and this one gives up.

**Why a walk misses nothing.** A walk takes one object at a time and may find the same one on many ways,
so that what is *missed* is not visible in any one step. `WInv` says that it goes breadth first: the
frontier is in the order of its hops, and nothing was found further than one hop beyond its head
(`BreadthFirst`); each finding is a chain of the cluster (`Chained`) and what is marked is what was
found (`MarkedIsFound`). `Followed` says of every object found, unless a gap is told, that it is too
far, or not there, or waited for, or that whatever it leads to was found within one hop more. Breadth
first makes that hold: an object that was marked before was found no further away. A collection is read
once for all that share its selector, so what is remembered of it must be all that any of them asks for,
or a gap must be told, or a part is held (`Remembered`). A part once held stays so, and a gap once told;
so a walk that ends with neither had neither at any step before (`Quiet`, `QuietBefore`). When the
frontier is empty, an object that a route leads to and that was not found would have a first such object
before it on the route, whose predecessor was followed.

**Why two ends agree.** Each pair is two readings of one fact: an owner reference that says the owner
(`AreFamily`), a selector that reaches a Pod (`IsSelected`, `Governs`), a rule of an Ingress that names a
Service (`IsRouted`). Each end is shown to lead to the other exactly where the fact holds: the collection
it looks at holds the other end, taken from an index by uid or labels or from the API server, and what
it leads to by kind, namespace and name is that object, since a cluster has one of a name.

**Refinement.** `KnownView` maps a synchronised stream to "known, at its checkpoint" and any other
to "unknown". Each step acquires, advances past at most one change, loses, or stutters. With
`ContractKept`, what is proved of a stream under any feed holds of the one the change view drives.

**Only model-checked:** liveness (`ReaderCatchesUp`, `WalkEnds`, `VerificationEnds`,
`InvocationsEnd`, `CancelEnds`), as fairness is out of the prover's reach; `LinesAreTheLog`, whose
decoder recurses over the bytes of a line, cut by chunks the framing cuts again; and the rules of
`Rules` other than `EndsAgree`, which compute over sequences by folds and so call for induction over
data, or recurse (`DaysBefore`).

## 5. Assumed, and not modelled

**Assumed.** In `Surface`: what was changed is not changed back, a request lasts no time. In `Walk`:
objects do not change during a walk. In `Kin`: a cluster is one (`IsCluster`, section 4).
In `History`: one instance per controller and one clock of the API server. In `Catalogue`: names are
compared without case, and a stale group lists no resources. In `Places`: a kind names its group. In
`Diagnosing`: a cluster's key is not rotated during a diagnostic, and nothing answers after a lost
request. In `Evidence`: kind names are compared without case.

**Within modelled parts:** several scopes of one collection in a session, the clock of an entry and
`feed_watch`; delays, jitter and `max_changes` of the change view; concurrency and scope bounds of the
ledger; field selection; an object without a `resourceVersion`; a streaming request that is answered
with a 410; batches of changes and the dependents of a blast radius; the text of plans,
claims and observations; role overlays of places. A lost connection is an end or an interruption of a
body, or an outage of a request. A server whose tokens go in a circle is not modelled: nothing but a
bound ends such a walk.

**Not modelled:** the reconnect backoff and the reconciliation ladder (a capped doubling, and a choice
among answers the modules tell apart); records and presentation (one field at a time, formatting);
contributions, audit and the plugin entry (declarations and routing, no state); typed access to an
object and the destruction of a secret's payload on entry; kubeconfig; TLS, which is a library.

## 6. Where the code and its words differ

Two are runs expected to violate one property.

* `forgotten`. `observed_fingerprint` (`session.rs:629`) compares with the last fingerprint only and
  replaces it whatever it has less of. A diagnostic that obtains no decisive signal forgets the one the
  session had, and a replaced cluster then goes unnoticed, although what was read of the former one is
  to be invalidated before anything is presented (`session.rs:608-610`).
* `memo`. The children of one owner, answered from the index, are remembered under the key of all that
  the selector selects (`relations.rs:646`): a second rule gets one owner's children as everything,
  under complete coverage.

The others can be shown by a change of an instance, or are read off a definition.

*By an instance* (the definitions named are in the modules, and no configuration uses them):

* *shared* (`MCChangeView`, `Readers <- TwoReaders`, violates `StreamedListIsWhole`).
  `begin_streaming_list` for a second invocation replaces what the first has staged; the next closing
  bookmark, of either body, seeds a live cache from a part of the collection. The comment on `staging`
  (`watch.rs:503-505`) says no cache is seeded from an incomplete set. `driver` and `writes` therefore
  have one reader.
* *twice* (`MCWalk`, `Stated <- RespelledStated`, `Spellings <- TwoSpellings`, violates
  `ReportsAreFindings`). An owner reference places its owner in the dependent's namespace, a Node too
  (`relationship.rs:498-502`), and `spec.nodeName` places it in none: two locators, so the owner of
  such a Pod may be reported twice although "every object is visited once" (`causal.rs:706-708`).
* *unsearched* (`MCWalk`, `Silent = TRUE`, violates `NothingIsMissedUntold`). A far end whose API group
  did not answer the search is passed over as one that is not there (`why.rs:256-318`), though a
  silent group proves no absence (`relations.rs:163-167`) and the answer is to hold "everything the walk read
  or was stopped from reading" (`why.rs:347-352`).
* *torn* (`MCWalk`, `Bounds <- Unpaged`, violates `NothingIsMissed`). A collection read for a rule is
  taken as short if its coverage has a gap or its continuity is broken, but only the gaps are recorded
  (`relations.rs:686-690`). A listing whose pages are of two snapshots is broken without a gap
  (`transport.rs:2635`), and its rule is passed over untold, where a listing that came back short is to
  be a gap (`relations.rs:600-602`). `NothingIsMissedUntold` exempts it.
* *page* (`MCMutating`, violates `NoAutoscalerIsMissed`). One page of autoscalers is read; that there are
  more is no gap (`planning.rs:905-907`), and the plan asks for completeness alone (`plan.rs:2092`). An
  autoscaler on a later page is neither named nor said to be possible, where no way to find none is to be
  evidence that there is none (`planning.rs:859-862`). `WhatHappensWasForetold` exempts it.
* *stale* (`MCRules`, violates `StaleIsNotAnswered`). `curated` takes an aggregated document's word for a
  group without asking whether it is stale (`query.rs:1513-1529`), and answers that a group nobody could
  ask serves no such kind, which `discovery.rs:388-391` warns of. `NamesAreProven` exempts it.
* *generic* (`MCRules`, violates `BareFailureIsFinal`). A 500 without a reason is "a generic failure
  nobody retries" (`transport.rs:1103-1104`); by its code it is an unavailable service, which may be
  retried (`transport.rs:1265`, `1213`). `ErrorsAreTold` follows the code.
* *handle* (`MCRules`, `Stating <- TwoDrivers`, violates `KeysStandAlone`). A volume handle may be looked
  up "on this value alone" (`evidence.rs:407`), although it "is meaningless without the driver that
  issued it" (`evidence.rs:97`). `EvidenceIsTrue` asks that the drivers agree.
* *blank* (`MCRules`, `Stating <- NoUuid`, violates `KeysStandAlone`). The empty machine identifier or
  provider identifier of a node is exported as a lookup key (`evidence.rs:526-538`, `1015-1018`), where
  an empty value is "a key that matches everything unresolved everywhere" (`evidence.rs:674-676`).
  `EvidenceIsTrue` exempts the empty value.

*By reading, each at the definition that models it:*

* An apply sends only the fields of its plan (`apply_document`, `mutation.rs:289-340`), so the server
  takes away those an earlier apply of this manager held and this one does not name; no plan says so.
  (`GivesUp` of `Mutating`, which the properties of a change exempt.)
* A cordon is verified by the reconciliation of its Node (`mutation.rs:1533`), which has none, and so is
  never confirmed, where its rule promises that the field is looked at (`plan.rs:1277-1282`) and
  ADR-0060 that a node already cordoned needs no waiting. (`OfObject` of `Verifying`.)
* An event that was on its way when this package wrote lifts the quarantine (`watch.rs:862` against
  `498-499`), and a verification that polls such a cache may take the state before the write for the one
  after it. (`Sound` of `Mutating` exempts it.)
* An invocation over a stream that is already live neither lists nor streams a list (`changes.rs:296`
  against `224`). (`Acquire` of `ChangeView`.)
* `mutated` drops a stream that is not live under the invocation that feeds it (`session.rs:1030`
  against `1006-1007`). (`SessionOps`.)
* A page budget that ends on a page without records is told by no record (`query.rs:635` against
  `contributions.rs:248-250`). (`Listing`.)
* A 401 in discovery and in most handlers buys no refresh: `refresh_authorization` has two callers,
  ADR-0055 decision 5 speaks of every request. (`DiscoveryRefused` of `Access`.)
* `DocumentKind::of` knows no aggregated document, so one withdraws nothing (`session.rs:1456-1470`).
  (`SchemasAreOfTheListing` of `Surface` is stated of the other form.)
* A bound on pages cuts short a collection that a rule reads, and a cut listing is complete by its
  coverage (`relations.rs:672-674`, `transport.rs:2665-2668`): the rule evaluates the part as if it
  were all. The bound is carried over from an earlier query of the place (`query.rs:3032-3044`).
  (`EndedAtTheBound` of `Walk`.)
* Two invocations refused with one credential each run the helper, as a forced run asks for no newer
  entry (`credential_store.rs:162-172`). (`Refresh` of `Access`.)
* A diagnostic whose discovery was refused reports the kube-system uid as "disconnected"
  (`cluster.rs:561-563`), which is to say that the API server could not be reached (`coverage.rs:49`).
  (`KubeSystemUid` of `Diagnosing`.)
* A cancellation during convergence ends a persisted write before its audit record
  (`mutations.rs:155-160` against `161-165`). (`Cancel` of `Mutating`.)
* A live stream whose last reader has left is kept and answers absence, with nothing to feed it
  (`session.rs:1171-1175`). (`CloseView` of `Mutating`.)
* A followed log holds the session for as long as it lasts, which `changes.rs:150-155` gives as the
  reason a watch does not. (`Follow` therefore has no other invocation in it.)

## 7. Plan

Done, in this order: the stream, its refinement and proofs; the session's watches and the change view;
the listing and its proofs; planning, verification and mutation, with proofs; served API, credentials
and registry, with proofs; the causal walk and relationships; connection and logs; timelines, live
views, names, frames, errors, places, diagnostics and evidence as rules.

Left:

1. **Shared sessions.** What remains true of cache, log and records when two invocations feed one
   stream: today not much (section 6, *shared*).
2. **Pure rules.** The reconnect delay over its whole range, the merge of coverage over several scopes,
   the dependents of a blast radius.
3. **Several scopes** of one collection in a session, and a Namespace that is deleted under them.
