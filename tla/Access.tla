------------------------------- MODULE Access --------------------------------
(***************************************************************************)
(* How the invocations of one provider instance come by a credential and   *)
(* by its session (credential_store.rs, credentials.rs, sessions.rs, and   *)
(* the 401 of query.rs).  An invocation runs on a thread of its own.  It   *)
(* takes the credential from the store, running the helper where it must,  *)
(* waits for the session, reads discovery if the session has none, and     *)
(* sends the request it is about; a read that is refused with a 401 buys   *)
(* one more run of the helper and one more request.                        *)
(*                                                                         *)
(* The store and the registry of sessions hold one lock per key; there is  *)
(* one key of each here, and invocations of different keys share nothing.  *)
(* A credential has the number of the run that returned it.                *)
(***************************************************************************)
EXTENDS Naturals, FiniteSets, SequencesExt

CONSTANTS
  Invocations,
  Kinds,      \* what they may be about, out of "get", "list" and "other"
  None,
  Margin,     \* EARLY_REFRESH_MARGIN_MILLIS, in ticks
  Lifetimes,  \* how long a credential may live, in ticks
  MaxTime,    \* bound on the clock of a behaviour
  MaxRevoked, \* bound on the credentials that are revoked
  MaxPages,   \* bound on the pages of a listing
  MaxPanics   \* bound on the handlers that panic

ASSUME AccessAssumption ==
  /\ Kinds \subseteq {"get", "list", "other"}
  /\ {Margin, MaxTime, MaxPanics, MaxRevoked} \subseteq Nat
  /\ MaxPages \in Nat \ {0}
  /\ Lifetimes \subseteq Nat \ {0}
  /\ None \notin Invocations

VARIABLES
  now,        \* the clock
  issued,     \* how often the helper has been run
  revoked,    \* those the API server no longer accepts
  entry,      \* the store's credential, or None
  running,    \* the invocation inside the entry's lock, or None
  session,    \* the session: None, or the invocations that have written it
  inside,     \* the invocation inside the session's lock, or None
  poisoned,   \* whether a panic left that lock poisoned
  pc,         \* where each invocation is
  kind,       \* what it is about
  asked,      \* when it asked the store for a credential, while it does
  carried,    \* the credential it carries, or None
  refused,    \* the credentials it was refused with, in order
  crossed,    \* the pages it has answered with, as the walks they are of
  acquired    \* the runs of the helper it has made

store   == << entry, running, issued >>
shared  == << session, inside, poisoned >>
own     == << pc, kind, asked, carried, refused, crossed, acquired >>
vars    == << now, revoked, store, shared, own >>

Credential == [number : Nat, expires : Nat]

Ended   == {"answered", "failed", "panicked"}
Waiting == {"idle", "resolve", "claim"}
Holding == {"discover", "read", "refresh", "rerun"}
Phase   == Waiting \cup {"run"} \cup Holding \cup Ended

TypeOK ==
  /\ now \in 0..MaxTime
  /\ issued \in Nat
  /\ revoked \subseteq 1..issued
  /\ entry \in Credential \cup {None}
  /\ running \in Invocations \cup {None}
  /\ session \in (SUBSET Invocations) \cup {None}
  /\ inside \in Invocations \cup {None}
  /\ poisoned \in BOOLEAN
  /\ pc \in [Invocations -> Phase]
  /\ kind \in [Invocations -> Kinds]
  /\ asked \in [Invocations -> 0..MaxTime]
  /\ carried \in [Invocations -> Credential \cup {None}]
  /\ refused \in [Invocations -> Seq(Nat)]
  /\ crossed \in [Invocations -> Seq(Nat)]
  /\ acquired \in [Invocations -> Seq(Nat)]

Init ==
  /\ now = 0 /\ issued = 0 /\ revoked = {}
  /\ entry = None /\ running = None
  /\ session = None /\ inside = None /\ poisoned = FALSE
  /\ pc = [i \in Invocations |-> "idle"]
  /\ kind \in [Invocations -> Kinds]
  /\ asked = [i \in Invocations |-> 0]
  /\ carried = [i \in Invocations |-> None]
  /\ refused = [i \in Invocations |-> << >>]
  /\ crossed = [i \in Invocations |-> << >>]
  /\ acquired = [i \in Invocations |-> << >>]

-----------------------------------------------------------------------------
(* Around the package: time passes, and a credential is revoked.           *)

Tick ==
  /\ now < MaxTime
  /\ now' = now + 1
  /\ UNCHANGED << revoked, store, shared, own >>

Revoke ==
  /\ Cardinality(revoked) < MaxRevoked
  /\ \E n \in 1..issued \ revoked : revoked' = revoked \cup {n}
  /\ UNCHANGED << now, store, shared, own >>

(* Whether the API server takes a credential for an identity.              *)
Accepted(credential) ==
  credential.number \notin revoked /\ now < credential.expires

-----------------------------------------------------------------------------
(* The store.                                                              *)

(* `is_expiring`.                                                          *)
Expiring(credential, at) == credential.expires <= at + Margin

(* `Endpoint::resolve` reads the clock before it waits for the entry.      *)
Ask(i) ==
  /\ pc[i] = "idle"
  /\ pc' = [pc EXCEPT ![i] = "resolve"]
  /\ asked' = [asked EXCEPT ![i] = now]
  /\ UNCHANGED << now, revoked, store, shared, kind, carried, refused, crossed, acquired >>

(* A mutated form of the next: the entry is looked at, and not held.       *)
UnlockedEntry(i) == TRUE

EntryFree(i) == running = None

(* `resolve`: what the store holds, unless it is about to expire.          *)
Reuse(i) ==
  /\ pc[i] = "resolve" /\ EntryFree(i)
  /\ entry # None
  /\ ~ Expiring(entry, asked[i])
  /\ carried' = [carried EXCEPT ![i] = entry]
  /\ pc' = [pc EXCEPT ![i] = "claim"]
  /\ asked' = [asked EXCEPT ![i] = 0]
  /\ UNCHANGED << now, revoked, store, shared, kind, refused, crossed, acquired >>

(* The helper is run, within the entry's lock.                             *)
Launch(i) ==
  /\ running' = i
  /\ issued' = issued + 1
  /\ acquired' = [acquired EXCEPT ![i] = Append(@, issued + 1)]

Acquire(i) ==
  /\ pc[i] = "resolve" /\ EntryFree(i)
  /\ entry # None => Expiring(entry, asked[i])
  /\ Launch(i)
  /\ pc' = [pc EXCEPT ![i] = "run"]
  /\ asked' = [asked EXCEPT ![i] = 0]
  /\ UNCHANGED << now, revoked, entry, shared, kind, carried, refused, crossed >>

(* `refresh`: whatever the store holds.                                    *)
Refresh(i) ==
  /\ pc[i] = "refresh" /\ EntryFree(i)
  /\ Launch(i)
  /\ pc' = [pc EXCEPT ![i] = "rerun"]
  /\ UNCHANGED << now, revoked, entry, shared, kind, asked, carried, refused, crossed >>

(* A mutated form of the next: the lock goes along with the credential.    *)
AfterRunHeld(i) == i

AfterRun(i) == None

(* `credentials::run` ends with a credential: the helper printed one that  *)
(* has not expired by the clock.  A certificate, as any may be, cannot     *)
(* take the place of a token on an open connection; the store keeps it.    *)
Resolved(i) ==
  /\ pc[i] \in {"run", "rerun"}
  /\ \E lifetime \in Lifetimes :
       /\ entry' = [number |-> Last(acquired[i]), expires |-> now + lifetime]
       /\ \/ /\ carried' = [carried EXCEPT ![i] = entry']
             /\ pc' = [pc EXCEPT ![i] = IF pc[i] = "run" THEN "claim" ELSE "read"]
             /\ inside' = inside
          \/ /\ pc[i] = "rerun"
             /\ pc' = [pc EXCEPT ![i] = "failed"]
             /\ inside' = None
             /\ carried' = carried
  /\ running' = AfterRun(i)
  /\ UNCHANGED << now, revoked, issued, session, poisoned, kind, asked, refused, crossed, acquired >>

(* It ends without one: it may not run, does not finish within its reads,  *)
(* prints what is no credential or one that has expired, or is cancelled.  *)
Unresolved(i) ==
  /\ pc[i] \in {"run", "rerun"}
  /\ pc' = [pc EXCEPT ![i] = "failed"]
  /\ running' = None
  /\ inside' = IF pc[i] = "rerun" THEN None ELSE inside
  /\ UNCHANGED << now, revoked, entry, issued, session, poisoned, kind, asked, carried, refused, crossed, acquired >>

-----------------------------------------------------------------------------
(* The session.                                                            *)

(* A mutated form of the next: a session is kept whatever ended in it.     *)
SeededAnyway == IF session = None THEN {} ELSE session

(* What the one who claims a session finds in it.                          *)
Seeded == IF session = None \/ poisoned THEN {} ELSE session

(* `Sessions::with`: an invocation alone is inside.  Discovery is read if  *)
(* the session has none, or what it has is too old.                        *)
Claim(i) ==
  /\ pc[i] = "claim" /\ inside = None
  /\ inside' = i
  /\ session' = Seeded
  /\ poisoned' = FALSE
  /\ \E next \in IF Seeded = {} THEN {"discover"} ELSE {"discover", "read"} :
       pc' = [pc EXCEPT ![i] = next]
  /\ UNCHANGED << now, revoked, store, kind, asked, carried, refused, crossed, acquired >>

Leave(i, phase) ==
  /\ inside' = None
  /\ pc' = [pc EXCEPT ![i] = phase]
  /\ UNCHANGED << now, revoked, store, session, poisoned, kind, asked, carried, acquired >>

(* A discovery document that is refused ends the invocation, credential    *)
(* and all.                                                                *)
Discover(i) ==
  /\ pc[i] = "discover"
  /\ Accepted(carried[i])
  /\ session' = session \cup {i}
  /\ pc' = [pc EXCEPT ![i] = "read"]
  /\ UNCHANGED << now, revoked, store, inside, poisoned, kind, asked, carried, refused, crossed, acquired >>

DiscoveryRefused(i) ==
  /\ pc[i] = "discover"
  /\ ~ Accepted(carried[i])
  /\ refused' = [refused EXCEPT ![i] = Append(@, carried[i].number)]
  /\ crossed' = crossed
  /\ Leave(i, "failed")

(* The request itself is answered; a listing page by page, each of a walk  *)
(* that began with the credential it carries.                              *)
Answer(i) ==
  /\ pc[i] = "read"
  /\ Accepted(carried[i])
  /\ crossed' = [crossed EXCEPT ![i] = Append(@, Len(refused[i]))]
  /\ refused' = refused
  /\ Leave(i, "answered")

Page(i) ==
  /\ pc[i] = "read" /\ kind[i] = "list"
  /\ Accepted(carried[i])
  /\ Len(crossed[i]) + 1 < MaxPages
  /\ crossed' = [crossed EXCEPT ![i] = Append(@, Len(refused[i]))]
  /\ UNCHANGED << now, revoked, store, shared, pc, kind, asked, carried, refused, acquired >>

(* A mutated form of the next: a listing is sent again whatever crossed.   *)
WorthwhileAfterPages(i) == kind[i] \in {"get", "list"} /\ refused[i] = << >>

(* Whether a 401 is worth one more attempt.                                *)
Worthwhile(i) ==
  /\ \/ kind[i] = "get"
     \/ kind[i] = "list" /\ crossed[i] = << >>
  /\ refused[i] = << >>

Refused(i) ==
  /\ pc[i] = "read"
  /\ ~ Accepted(carried[i])
  /\ refused' = [refused EXCEPT ![i] = Append(@, carried[i].number)]
  /\ crossed' = crossed
  /\ IF Worthwhile(i)
     THEN /\ pc' = [pc EXCEPT ![i] = "refresh"]
          /\ UNCHANGED << now, revoked, store, shared, kind, asked, carried, acquired >>
     ELSE Leave(i, "failed")

(* A handler panics within its session, and maybe within the entry, which  *)
(* is found as it was.                                                     *)
Panic(i) ==
  /\ pc[i] \in Holding
  /\ Cardinality({j \in Invocations : pc[j] = "panicked"}) < MaxPanics
  /\ session' = session \cup {i}
  /\ poisoned' = TRUE
  /\ inside' = None
  /\ running' = IF running = i THEN None ELSE running
  /\ pc' = [pc EXCEPT ![i] = "panicked"]
  /\ UNCHANGED << now, revoked, entry, issued, kind, asked, carried, refused, crossed, acquired >>

-----------------------------------------------------------------------------
Step(i) ==
  \/ Ask(i) \/ Reuse(i) \/ Acquire(i) \/ Refresh(i) \/ Resolved(i) \/ Unresolved(i)
  \/ Claim(i) \/ Discover(i) \/ DiscoveryRefused(i) \/ Answer(i) \/ Page(i) \/ Refused(i)

Next ==
  \/ Tick \/ Revoke
  \/ \E i \in Invocations : Step(i) \/ Panic(i)

Spec == Init /\ [][Next]_vars

(* A thread that can go on does; the helper is read a bounded number of    *)
(* times and every request has a deadline, so both come to an end.         *)
FairSpec == Spec /\ \A i \in Invocations : WF_vars(Step(i))

-----------------------------------------------------------------------------
(* Properties.                                                             *)

(* ADR-0055: an expiry is met by one run, however many meet it: nobody     *)
(* acquires while the store holds what is not about to expire.  It is about*)
(* acquiring: of a refused credential each invocation forces its own run.  *)
OneRunPerExpiry ==
  \A i \in Invocations : pc[i] = "run" => entry = None \/ Expiring(entry, now)

(* §8.3, §18.2, ADR-0055: a request is sent at most twice, the second time *)
(* with a credential newer than the one it was refused with; the helper is *)
(* run at most twice; what has been answered is of one walk.               *)
OneRetry ==
  \A i \in Invocations :
    /\ Len(refused[i]) <= 2 /\ Len(acquired[i]) <= 2
    /\ Len(refused[i]) = 2 => refused[i][1] < refused[i][2]
    /\ \A p, q \in DOMAIN crossed[i] : crossed[i][p] = crossed[i][q]

(* §10.4: nothing that an invocation which panicked has written is there   *)
(* for another.                                                            *)
PanicLeavesNothing ==
  inside # None => \A i \in session : pc[i] # "panicked"

(* No invocation waits for ever, for the entry, for the session, or for    *)
(* one that holds the one and waits for the other.                         *)
InvocationsEnd == \A i \in Invocations : <>(pc[i] \in Ended)
=============================================================================
