---------------------------- MODULE AccessProofs -----------------------------
(***************************************************************************)
(* Proofs about Access, for every set of invocations, every margin and     *)
(* every set of lifetimes.                                                 *)
(***************************************************************************)
EXTENDS Access, SequenceTheorems, TLAPS

-----------------------------------------------------------------------------
(* The inductive invariant, in its parts.                                  *)

(* A helper runs for the invocation that holds the entry's lock.           *)
HelperIsHeld ==
  \A i \in Invocations : pc[i] \in {"run", "rerun"} => running = i

(* The clock was read before the wait for the entry.                       *)
AskedBefore ==
  \A i \in Invocations : pc[i] = "resolve" => asked[i] <= now

(* The session is held by the one whose step it is, and what it finds in   *)
(* it nobody who panicked has left there.                                  *)
SessionIsHeld ==
  /\ \A i \in Invocations : pc[i] \in Holding <=> inside = i
  /\ inside # None => session \in SUBSET Invocations /\ ~ poisoned

PanicPoisons ==
  session \in SUBSET Invocations /\ ~ poisoned => \A i \in session : pc[i] # "panicked"

(* Numbers are those of runs that were made.                               *)
EntryIsIssued == entry # None => entry.number <= issued

Carries(i) == carried[i] \in Credential /\ carried[i].number <= issued
RunsAreIssued(i) == \A n \in DOMAIN acquired[i] : acquired[i][n] <= issued

(* `OneRetry` of one invocation.                                           *)
TriedTwice(i) ==
  /\ Len(refused[i]) <= 2 /\ Len(acquired[i]) <= 2
  /\ Len(refused[i]) = 2 => refused[i][1] < refused[i][2]
  /\ \A p, q \in DOMAIN crossed[i] : crossed[i][p] = crossed[i][q]

Untried(i) == refused[i] = << >> /\ crossed[i] = << >>
RefusedOnce(i) == Len(refused[i]) = 1 /\ refused[i][1] <= issued

(* What an invocation has behind it, at each place it may be.              *)
Attempted(i) ==
  /\ pc[i] \in {"idle", "resolve"} => acquired[i] = << >> /\ Untried(i)
  /\ pc[i] = "run" => Len(acquired[i]) = 1 /\ Untried(i)
  /\ pc[i] \in {"claim", "discover"} => Len(acquired[i]) <= 1 /\ Untried(i) /\ Carries(i)
  /\ pc[i] = "read" =>
       /\ Carries(i)
       /\ crossed[i] # << >> => kind[i] = "list"
       /\ \A n \in DOMAIN crossed[i] : crossed[i][n] = Len(refused[i])
       /\ \/ refused[i] = << >> /\ Len(acquired[i]) <= 1
          \/ RefusedOnce(i) /\ Len(acquired[i]) <= 2 /\ refused[i][1] < carried[i].number
  /\ pc[i] = "refresh" =>
       RefusedOnce(i) /\ crossed[i] = << >> /\ Len(acquired[i]) <= 1
  /\ pc[i] = "rerun" =>
       /\ RefusedOnce(i) /\ crossed[i] = << >>
       /\ 1 <= Len(acquired[i]) /\ Len(acquired[i]) <= 2
       /\ refused[i][1] < acquired[i][Len(acquired[i])]

Tried(i) == RunsAreIssued(i) /\ TriedTwice(i) /\ Attempted(i)

RetryInv == EntryIsIssued /\ \A i \in Invocations : Tried(i)

AInv ==
  /\ TypeOK
  /\ HelperIsHeld /\ AskedBefore /\ OneRunPerExpiry
  /\ SessionIsHeld /\ PanicPoisons
  /\ RetryInv

-----------------------------------------------------------------------------
(* Types.                                                                  *)

(* What the assumption says of each constant.                             *)
LEMMA Constants ==
  /\ MaxTime \in Nat /\ Margin \in Nat
  /\ Lifetimes \subseteq Nat \ {0}
  /\ None \notin Invocations
BY AccessAssumption

(* Nothing has been asked for yet.                                        *)
LEMMA InitType == Init => TypeOK
<1> SUFFICES ASSUME Init PROVE TypeOK
  OBVIOUS
<1>1. << >> \in Seq(Nat) /\ 0 \in 0..MaxTime
  BY Constants
<1>2. /\ pc \in [Invocations -> Phase]
      /\ kind \in [Invocations -> Kinds]
      /\ asked \in [Invocations -> 0..MaxTime]
      /\ carried \in [Invocations -> Credential \cup {None}]
      /\ refused \in [Invocations -> Seq(Nat)]
      /\ crossed \in [Invocations -> Seq(Nat)]
      /\ acquired \in [Invocations -> Seq(Nat)]
  BY <1>1 DEF Init, Phase, Waiting
<1>3. /\ entry \in Credential \cup {None} /\ running \in Invocations \cup {None}
      /\ session \in (SUBSET Invocations) \cup {None}
      /\ inside \in Invocations \cup {None} /\ poisoned \in BOOLEAN
      /\ issued \in Nat /\ now \in 0..MaxTime
  BY <1>1 DEF Init
<1>4. revoked \subseteq 1..issued
  BY DEF Init
<1> QED
  BY <1>2, <1>3, <1>4 DEF TypeOK

(* The last of some numbers is one of them.                               *)
LEMMA LastOfNumbers ==
  \A s \in Seq(Nat) :
    1 <= Len(s) => Last(s) \in Nat /\ Last(s) = s[Len(s)] /\ Len(s) \in DOMAIN s
<1> SUFFICES ASSUME NEW s \in Seq(Nat), 1 <= Len(s)
             PROVE  Last(s) \in Nat /\ Last(s) = s[Len(s)] /\ Len(s) \in DOMAIN s
  OBVIOUS
<1>1. Len(s) \in 1..Len(s)
  OBVIOUS
<1>2. s[Len(s)] \in Nat
  BY <1>1, ElementOfSeq
<1> QED
  BY <1>1, <1>2 DEF Last

(* One more number.                                                       *)
LEMMA AppendedNumber ==
  \A s \in Seq(Nat), x \in Nat :
    /\ Append(s, x) \in Seq(Nat)
    /\ Len(Append(s, x)) = Len(s) + 1 /\ DOMAIN Append(s, x) = 1..(Len(s) + 1)
    /\ Append(s, x)[Len(s) + 1] = x
    /\ \A n \in 1..Len(s) : Append(s, x)[n] = s[n]
BY AppendProperties

(* Where the steps lead.                                                  *)
LEMMA Phases ==
  /\ "resolve" \in Phase /\ "run" \in Phase /\ "claim" \in Phase
  /\ "discover" \in Phase /\ "read" \in Phase /\ "refresh" \in Phase /\ "rerun" \in Phase
  /\ "answered" \in Phase /\ "failed" \in Phase /\ "panicked" \in Phase
BY DEF Phase, Waiting, Holding, Ended

(* Every step keeps the types.                                            *)
LEMMA TypeStep == TypeOK /\ SessionIsHeld /\ RetryInv /\ [Next]_vars => TypeOK'
<1> SUFFICES ASSUME TypeOK, SessionIsHeld, RetryInv, [Next]_vars PROVE TypeOK'
  OBVIOUS
<1> USE Constants, Phases
<1>1. CASE Tick
  BY <1>1 DEF Tick, TypeOK, store, shared, own
<1>2. CASE Revoke
  BY <1>2 DEF Revoke, TypeOK, store, shared, own
<1>3. ASSUME NEW i \in Invocations, Step(i) \/ Panic(i)
      PROVE  TypeOK'
  <2>1. CASE Ask(i)
    <3>1. pc' \in [Invocations -> Phase]
      BY <1>3, <2>1 DEF Ask, TypeOK
    <3>2. asked' \in [Invocations -> 0..MaxTime]
      BY <1>3, <2>1 DEF Ask, TypeOK
    <3> QED
      BY <1>3, <2>1, <3>1, <3>2 DEF Ask, TypeOK, store, shared, own
  <2>2. CASE Reuse(i)
    <3>1. pc' \in [Invocations -> Phase]
      BY <1>3, <2>2 DEF Reuse, EntryFree, TypeOK
    <3>2. asked' \in [Invocations -> 0..MaxTime]
      BY <1>3, <2>2 DEF Reuse, EntryFree, TypeOK
    <3>3. carried' \in [Invocations -> Credential \cup {None}]
      BY <1>3, <2>2 DEF Reuse, EntryFree, TypeOK
    <3> QED
      BY <1>3, <2>2, <3>1, <3>2, <3>3 DEF Reuse, EntryFree, TypeOK, store, shared, own
  <2>3. CASE Acquire(i)
    <3>1. pc' \in [Invocations -> Phase]
      BY <1>3, <2>3 DEF Acquire, Launch, TypeOK
    <3>2. asked' \in [Invocations -> 0..MaxTime]
      BY <1>3, <2>3 DEF Acquire, Launch, TypeOK
    <3>3. issued' \in Nat
      BY <1>3, <2>3 DEF Acquire, Launch, TypeOK
    <3>4. running' \in Invocations \cup {None}
      BY <1>3, <2>3 DEF Acquire, Launch, TypeOK
    <3>5. acquired' \in [Invocations -> Seq(Nat)]
      <4>1. Append(acquired[i], issued + 1) \in Seq(Nat)
        BY <1>3 DEF TypeOK
      <4> QED
        BY <1>3, <2>3, <4>1 DEF Acquire, Launch, TypeOK
    <3>6. revoked' \subseteq 1..issued'
      BY <2>3 DEF Acquire, Launch, TypeOK
    <3> QED
      BY <1>3, <2>3, <3>1, <3>2, <3>3, <3>4, <3>5, <3>6 DEF Acquire, Launch, TypeOK, store, shared, own
  <2>4. CASE Refresh(i)
    <3>1. pc' \in [Invocations -> Phase]
      BY <1>3, <2>4 DEF Refresh, Launch, TypeOK
    <3>2. issued' \in Nat
      BY <1>3, <2>4 DEF Refresh, Launch, TypeOK
    <3>3. running' \in Invocations \cup {None}
      BY <1>3, <2>4 DEF Refresh, Launch, TypeOK
    <3>4. acquired' \in [Invocations -> Seq(Nat)]
      <4>1. Append(acquired[i], issued + 1) \in Seq(Nat)
        BY <1>3 DEF TypeOK
      <4> QED
        BY <1>3, <2>4, <4>1 DEF Refresh, Launch, TypeOK
    <3>5. revoked' \subseteq 1..issued'
      BY <2>4 DEF Refresh, Launch, TypeOK
    <3> QED
      BY <1>3, <2>4, <3>1, <3>2, <3>3, <3>4, <3>5 DEF Refresh, Launch, TypeOK, store, shared, own
  <2>5. CASE Resolved(i)
    <3>1. pc[i] \in {"run", "rerun"} /\ 1 <= Len(acquired[i])
      <4>1. Attempted(i) /\ acquired[i] \in Seq(Nat)
        BY <1>3 DEF RetryInv, Tried, TypeOK
      <4>2. pc[i] \in {"run", "rerun"}
        BY <2>5 DEF Resolved
      <4>3. CASE pc[i] = "run"
        <5>1. Len(acquired[i]) = 1
          BY <4>1, <4>3 DEF Attempted
        <5> QED
          BY <4>2, <5>1
      <4>4. CASE pc[i] = "rerun"
        <5>1. 1 <= Len(acquired[i])
          BY <4>1, <4>4 DEF Attempted
        <5> QED
          BY <4>2, <5>1
      <4> QED
        BY <4>2, <4>3, <4>4
    <3>2. acquired[i] \in Seq(Nat)
      BY <1>3 DEF TypeOK
    <3>3. Last(acquired[i]) \in Nat
      BY <3>1, <3>2, LastOfNumbers
    <3>4. PICK lifetime \in Lifetimes :
            /\ entry' = [number |-> Last(acquired[i]), expires |-> now + lifetime]
            /\ \/ /\ carried' = [carried EXCEPT ![i] = entry']
                  /\ pc' = [pc EXCEPT ![i] = IF pc[i] = "run" THEN "claim" ELSE "read"]
                  /\ inside' = inside
               \/ /\ pc' = [pc EXCEPT ![i] = "failed"]
                  /\ inside' = None
                  /\ carried' = carried
      BY <2>5 DEF Resolved
    <3>5. entry' \in Credential
      BY <3>3, <3>4 DEF Credential, TypeOK
    <3>6. pc' \in [Invocations -> Phase]
      BY <1>3, <3>4 DEF TypeOK
    <3>7. carried' \in [Invocations -> Credential \cup {None}]
      BY <1>3, <3>4, <3>5 DEF TypeOK
    <3> QED
      BY <2>5, <3>4, <3>5, <3>6, <3>7 DEF Resolved, AfterRun, TypeOK, store, shared, own
  <2>6. CASE Unresolved(i)
    <3>1. pc' \in [Invocations -> Phase]
      BY <1>3, <2>6 DEF Unresolved, TypeOK
    <3>2. running' \in Invocations \cup {None}
      BY <1>3, <2>6 DEF Unresolved, TypeOK
    <3>3. inside' \in Invocations \cup {None}
      BY <1>3, <2>6 DEF Unresolved, TypeOK
    <3> QED
      BY <1>3, <2>6, <3>1, <3>2, <3>3 DEF Unresolved, TypeOK, store, shared, own
  <2>7. CASE Claim(i)
    <3>1. session' \in (SUBSET Invocations) \cup {None}
      BY <1>3, <2>7 DEF Claim, Seeded, TypeOK, SessionIsHeld, Holding
    <3>2. inside' \in Invocations \cup {None}
      BY <1>3, <2>7 DEF Claim, Seeded, TypeOK
    <3>3. pc' \in [Invocations -> Phase]
      BY <1>3, <2>7 DEF Claim, Seeded, TypeOK
    <3> QED
      BY <1>3, <2>7, <3>1, <3>2, <3>3 DEF Claim, Seeded, TypeOK, store, shared, own
  <2>8. CASE Discover(i)
    <3>1. pc' \in [Invocations -> Phase]
      BY <1>3, <2>8 DEF Discover, TypeOK
    <3>2. session' \in (SUBSET Invocations) \cup {None}
      BY <1>3, <2>8 DEF Discover, TypeOK, SessionIsHeld, Holding
    <3> QED
      BY <1>3, <2>8, <3>1, <3>2 DEF Discover, TypeOK, store, shared, own
  <2>9. CASE DiscoveryRefused(i)
    <3>1. pc' \in [Invocations -> Phase]
      BY <1>3, <2>9 DEF DiscoveryRefused, Leave, TypeOK
    <3>2. refused' \in [Invocations -> Seq(Nat)]
      <4>1. carried[i].number \in Nat
        BY <1>3, <2>9 DEF DiscoveryRefused, RetryInv, Tried, Attempted, Carries, Credential
      <4>2. Append(refused[i], carried[i].number) \in Seq(Nat)
        BY <1>3, <4>1 DEF TypeOK
      <4> QED
        BY <1>3, <2>9, <4>2 DEF DiscoveryRefused, Leave, TypeOK
    <3>3. inside' \in Invocations \cup {None}
      BY <1>3, <2>9 DEF DiscoveryRefused, Leave, TypeOK
    <3> QED
      BY <1>3, <2>9, <3>1, <3>2, <3>3 DEF DiscoveryRefused, Leave, TypeOK, store, shared, own
  <2>10. CASE Answer(i)
    <3>1. pc' \in [Invocations -> Phase]
      BY <1>3, <2>10 DEF Answer, Leave, TypeOK
    <3>2. crossed' \in [Invocations -> Seq(Nat)]
      <4>1. Append(crossed[i], Len(refused[i])) \in Seq(Nat)
        BY <1>3 DEF TypeOK
      <4> QED
        BY <1>3, <2>10, <4>1 DEF Answer, Leave, TypeOK
    <3>3. inside' \in Invocations \cup {None}
      BY <1>3, <2>10 DEF Answer, Leave, TypeOK
    <3> QED
      BY <1>3, <2>10, <3>1, <3>2, <3>3 DEF Answer, Leave, TypeOK, store, shared, own
  <2>11. CASE Page(i)
    <3>1. crossed' \in [Invocations -> Seq(Nat)]
      <4>1. Append(crossed[i], Len(refused[i])) \in Seq(Nat)
        BY <1>3 DEF TypeOK
      <4> QED
        BY <1>3, <2>11, <4>1 DEF Page, TypeOK
    <3> QED
      BY <1>3, <2>11, <3>1 DEF Page, TypeOK, store, shared, own
  <2>12. CASE Refused(i)
    <3>1. pc' \in [Invocations -> Phase]
      BY <1>3, <2>12 DEF Refused, Leave, TypeOK
    <3>2. refused' \in [Invocations -> Seq(Nat)]
      <4>1. carried[i].number \in Nat
        BY <1>3, <2>12 DEF Refused, RetryInv, Tried, Attempted, Carries, Credential
      <4>2. Append(refused[i], carried[i].number) \in Seq(Nat)
        BY <1>3, <4>1 DEF TypeOK
      <4> QED
        BY <1>3, <2>12, <4>2 DEF Refused, Leave, TypeOK
    <3>3. inside' \in {inside, None} /\ crossed' = crossed
      BY <2>12 DEF Refused, Leave, shared
    <3> QED
      BY <1>3, <2>12, <3>1, <3>2, <3>3 DEF Refused, Leave, TypeOK, store, shared, own
  <2>13. CASE Panic(i)
    <3>1. session' \in (SUBSET Invocations) \cup {None}
      BY <1>3, <2>13 DEF Panic, TypeOK, SessionIsHeld, Holding
    <3>2. inside' \in Invocations \cup {None}
      BY <1>3, <2>13 DEF Panic, TypeOK
    <3>3. running' \in Invocations \cup {None}
      BY <1>3, <2>13 DEF Panic, TypeOK
    <3>4. pc' \in [Invocations -> Phase]
      BY <1>3, <2>13 DEF Panic, TypeOK
    <3> QED
      BY <1>3, <2>13, <3>1, <3>2, <3>3, <3>4 DEF Panic, TypeOK, store, shared, own
  <2> QED
    BY <1>3, <2>1, <2>2, <2>3, <2>4, <2>5, <2>6, <2>7, <2>8, <2>9, <2>10, <2>11, <2>12, <2>13 DEF Step
<1>4. CASE UNCHANGED vars
  BY <1>4 DEF TypeOK, vars, store, shared, own
<1> QED
  BY <1>1, <1>2, <1>3, <1>4 DEF Next

-----------------------------------------------------------------------------
(* The store.                                                              *)

StoreInv == HelperIsHeld /\ AskedBefore /\ OneRunPerExpiry

(* The lock of the entry keeps the runs apart, and the clock only goes on.*)
LEMMA StoreStep == TypeOK /\ SessionIsHeld /\ StoreInv /\ [Next]_vars => StoreInv'
<1> SUFFICES ASSUME TypeOK, SessionIsHeld, StoreInv, [Next]_vars PROVE StoreInv'
  OBVIOUS
<1>0. /\ now \in Nat /\ running \in Invocations \cup {None}
      /\ pc \in [Invocations -> Phase] /\ asked \in [Invocations -> Nat]
      /\ entry # None => entry.expires \in Nat
  BY Constants DEF TypeOK, Credential
<1> USE Constants, <1>0
    DEF StoreInv, HelperIsHeld, AskedBefore, OneRunPerExpiry, Expiring
<1>1. CASE Tick
  <2>1. now' = now + 1 /\ UNCHANGED << pc, running, asked, entry >>
    BY <1>1 DEF Tick, store, shared, own
  <2> QED
    BY <2>1
<1>2. CASE Revoke
  BY <1>2 DEF Revoke, store, shared, own
<1>3. ASSUME NEW i \in Invocations, Step(i) \/ Panic(i)
      PROVE  StoreInv'
  <2>1. CASE Ask(i)
    BY <1>3, <2>1 DEF Ask, store, shared, own
  <2>2. CASE Reuse(i)
    BY <1>3, <2>2 DEF Reuse, EntryFree, store, shared, own
  <2>3. CASE Acquire(i)
    BY <1>3, <2>3 DEF Acquire, EntryFree, Launch, store, shared, own
  <2>4. CASE Refresh(i)
    BY <1>3, <2>4 DEF Refresh, EntryFree, Launch, store, shared, own
  <2>5. CASE Resolved(i)
    BY <1>3, <2>5 DEF Resolved, AfterRun, store, shared, own
  <2>6. CASE Unresolved(i)
    BY <1>3, <2>6 DEF Unresolved, store, shared, own
  <2>7. CASE Claim(i)
    BY <1>3, <2>7 DEF Claim, Seeded, store, shared, own
  <2>8. CASE Discover(i)
    BY <1>3, <2>8 DEF Discover, store, shared, own
  <2>9. CASE DiscoveryRefused(i)
    BY <1>3, <2>9 DEF DiscoveryRefused, Leave, store, shared, own
  <2>10. CASE Answer(i)
    BY <1>3, <2>10 DEF Answer, Leave, store, shared, own
  <2>11. CASE Page(i)
    BY <1>3, <2>11 DEF Page, store, shared, own
  <2>12. CASE Refused(i)
    <3>1. CASE Worthwhile(i)
      BY <1>3, <2>12, <3>1 DEF Refused, store, shared, own
    <3>2. CASE ~ Worthwhile(i)
      BY <1>3, <2>12, <3>2 DEF Refused, Leave, store, shared, own
    <3> QED
      BY <3>1, <3>2
  <2>13. CASE Panic(i)
    BY <1>3, <2>13 DEF Panic, SessionIsHeld, Holding, store, shared, own
  <2> QED
    BY <1>3, <2>1, <2>2, <2>3, <2>4, <2>5, <2>6, <2>7, <2>8, <2>9, <2>10, <2>11, <2>12, <2>13 DEF Step
<1> QED
  BY <1>1, <1>2, <1>3 DEF Next, vars, store, shared, own

-----------------------------------------------------------------------------
(* The session.                                                            *)

SessionInv == SessionIsHeld /\ PanicPoisons

(* The lock of the session keeps the others out until its holder leaves.  *)
LEMMA SessionStep == TypeOK /\ SessionInv /\ [Next]_vars => SessionInv'
<1> SUFFICES ASSUME TypeOK, SessionInv, [Next]_vars PROVE SessionInv'
  OBVIOUS
<1> USE Constants DEF TypeOK, SessionInv, SessionIsHeld, PanicPoisons, Holding
<1>1. CASE Tick
  BY <1>1 DEF Tick, store, shared, own
<1>2. CASE Revoke
  BY <1>2 DEF Revoke, store, shared, own
<1>3. ASSUME NEW i \in Invocations, Step(i) \/ Panic(i)
      PROVE  SessionInv'
  <2>1. CASE Ask(i)
    BY <1>3, <2>1 DEF Ask, store, shared, own
  <2>2. CASE Reuse(i)
    BY <1>3, <2>2 DEF Reuse, EntryFree, store, shared, own
  <2>3. CASE Acquire(i)
    BY <1>3, <2>3 DEF Acquire, EntryFree, Launch, store, shared, own
  <2>4. CASE Refresh(i)
    BY <1>3, <2>4 DEF Refresh, EntryFree, Launch, store, shared, own
  <2>5. CASE Resolved(i)
    <3>1. CASE pc' = [pc EXCEPT ![i] = IF pc[i] = "run" THEN "claim" ELSE "read"] /\ inside' = inside
      BY <1>3, <2>5, <3>1 DEF Resolved
    <3>2. CASE pc[i] = "rerun" /\ pc' = [pc EXCEPT ![i] = "failed"] /\ inside' = None
      BY <1>3, <2>5, <3>2 DEF Resolved
    <3> QED
      BY <2>5, <3>1, <3>2 DEF Resolved
  <2>6. CASE Unresolved(i)
    BY <1>3, <2>6 DEF Unresolved, store, shared, own
  <2>7. CASE Claim(i)
    <3>1. Seeded \in SUBSET Invocations /\ \A j \in Seeded : pc[j] # "panicked"
      <4>1. CASE session = None \/ poisoned
        BY <4>1 DEF Seeded
      <4>2. CASE session # None /\ ~ poisoned
        BY <4>2 DEF Seeded
      <4> QED
        BY <4>1, <4>2
    <3>2. PICK next \in {"discover", "read"} : pc' = [pc EXCEPT ![i] = next]
      BY <2>7 DEF Claim
    <3>3. \A j \in Invocations : pc[j] \notin Holding
      BY <2>7 DEF Claim
    <3> QED
      BY <1>3, <2>7, <3>1, <3>2, <3>3 DEF Claim
  <2>8. CASE Discover(i)
    <3>1. inside = i /\ session \in SUBSET Invocations /\ ~ poisoned
      BY <1>3, <2>8 DEF Discover
    <3>2. session' \in SUBSET Invocations /\ \A j \in session' : pc'[j] # "panicked"
      <4>1. \A j \in session : j \in Invocations /\ pc[j] # "panicked"
        BY <3>1
      <4>2. session' = session \cup {i} /\ pc' = [pc EXCEPT ![i] = "read"]
        BY <2>8 DEF Discover
      <4> QED
        BY <1>3, <3>1, <4>1, <4>2
    <3> QED
      BY <1>3, <2>8, <3>1, <3>2 DEF Discover, store
  <2>9. CASE DiscoveryRefused(i)
    BY <1>3, <2>9 DEF DiscoveryRefused, Leave, store, shared, own
  <2>10. CASE Answer(i)
    BY <1>3, <2>10 DEF Answer, Leave, store, shared, own
  <2>11. CASE Page(i)
    BY <1>3, <2>11 DEF Page, store, shared, own
  <2>12. CASE Refused(i)
    <3>1. CASE Worthwhile(i)
      BY <1>3, <2>12, <3>1 DEF Refused, store, shared, own
    <3>2. CASE ~ Worthwhile(i)
      <4>1. /\ inside' = None /\ session' = session /\ poisoned' = poisoned
            /\ pc' = [pc EXCEPT ![i] = "failed"]
        BY <2>12, <3>2 DEF Refused, Leave, shared
      <4>2. inside = i
        BY <1>3, <2>12 DEF Refused
      <4> QED
        BY <1>3, <4>1, <4>2
    <3> QED
      BY <3>1, <3>2
  <2>13. CASE Panic(i)
    BY <1>3, <2>13 DEF Panic, store, shared, own
  <2> QED
    BY <1>3, <2>1, <2>2, <2>3, <2>4, <2>5, <2>6, <2>7, <2>8, <2>9, <2>10, <2>11, <2>12, <2>13 DEF Step
<1>4. CASE UNCHANGED vars
  BY <1>4 DEF vars, shared, own
<1> QED
  BY <1>1, <1>2, <1>3, <1>4 DEF Next
-----------------------------------------------------------------------------
(* The retry.                                                              *)

(* What an invocation has behind it is left alone by the others.           *)
LEMMA OthersStand ==
  ASSUME TypeOK, RetryInv, NEW i \in Invocations,
         issued' \in Nat, issued <= issued', kind' = kind,
         \A j \in Invocations \ {i} :
           /\ pc'[j] = pc[j] /\ carried'[j] = carried[j] /\ refused'[j] = refused[j]
           /\ crossed'[j] = crossed[j] /\ acquired'[j] = acquired[j]
  PROVE  \A j \in Invocations \ {i} : Tried(j)'
<1> SUFFICES ASSUME NEW j \in Invocations \ {i} PROVE Tried(j)'
  OBVIOUS
<1>1. /\ issued \in Nat /\ acquired[j] \in Seq(Nat) /\ refused[j] \in Seq(Nat)
      /\ Tried(j)
  BY DEF TypeOK, RetryInv
<1>2. RunsAreIssued(j)'
  <2>1. \A n \in DOMAIN acquired[j] : acquired[j][n] \in Nat
    BY <1>1, ElementOfSeq
  <2> QED
    BY <1>1, <2>1 DEF Tried, RunsAreIssued
<1>3. TriedTwice(j)'
  BY <1>1 DEF Tried, TriedTwice
<1>4. Carries(j) => Carries(j)'
  BY <1>1 DEF Carries, Credential
<1>5. Untried(j) => Untried(j)'
  BY DEF Untried
<1>6. RefusedOnce(j) => RefusedOnce(j)'
  <2>1. Len(refused[j]) = 1 => refused[j][1] \in Nat
    BY <1>1, ElementOfSeq
  <2> QED
    BY <1>1, <2>1 DEF RefusedOnce
<1>7. Attempted(j)'
  BY <1>1, <1>4, <1>5, <1>6 DEF Tried, Attempted
<1> QED
  BY <1>2, <1>3, <1>7 DEF Tried

(* A step is of one invocation; the helper is never run less often.       *)
LEMMA OneMoves ==
  ASSUME TypeOK, NEW i \in Invocations, Step(i) \/ Panic(i)
  PROVE  /\ issued' \in Nat /\ issued <= issued' /\ kind' = kind
         /\ \A j \in Invocations \ {i} :
              /\ pc'[j] = pc[j] /\ carried'[j] = carried[j] /\ refused'[j] = refused[j]
              /\ crossed'[j] = crossed[j] /\ acquired'[j] = acquired[j]
<1> DEFINE Goal == /\ issued' \in Nat /\ issued <= issued' /\ kind' = kind
                   /\ \A j \in Invocations \ {i} :
                        /\ pc'[j] = pc[j] /\ carried'[j] = carried[j]
                        /\ refused'[j] = refused[j] /\ crossed'[j] = crossed[j]
                        /\ acquired'[j] = acquired[j]
<1>0. /\ issued \in Nat /\ pc \in [Invocations -> Phase]
      /\ carried \in [Invocations -> Credential \cup {None}]
      /\ refused \in [Invocations -> Seq(Nat)] /\ crossed \in [Invocations -> Seq(Nat)]
      /\ acquired \in [Invocations -> Seq(Nat)]
  BY DEF TypeOK
<1>1. CASE Ask(i)
  BY <1>0, <1>1 DEF Ask, store, shared, own
<1>2. CASE Reuse(i)
  BY <1>0, <1>2 DEF Reuse, store, shared, own
<1>3. CASE Acquire(i)
  BY <1>0, <1>3 DEF Acquire, Launch, store, shared, own
<1>4. CASE Refresh(i)
  BY <1>0, <1>4 DEF Refresh, Launch, store, shared, own
<1>5. CASE Resolved(i)
  <2>1. issued' = issued /\ UNCHANGED << kind, refused, crossed, acquired >>
    BY <1>5 DEF Resolved
  <2>2. carried' = carried \/ carried' = [carried EXCEPT ![i] = entry']
    BY <1>5 DEF Resolved
  <2>3. pc' = [pc EXCEPT ![i] = pc'[i]]
    BY <1>0, <1>5 DEF Resolved
  <2> QED
    BY <1>0, <2>1, <2>2, <2>3
<1>6. CASE Unresolved(i)
  BY <1>0, <1>6 DEF Unresolved, store, shared, own
<1>7. CASE Claim(i)
  BY <1>0, <1>7 DEF Claim, store, shared, own
<1>8. CASE Discover(i)
  BY <1>0, <1>8 DEF Discover, store, shared, own
<1>9. CASE DiscoveryRefused(i)
  BY <1>0, <1>9 DEF DiscoveryRefused, Leave, store, shared, own
<1>10. CASE Answer(i)
  BY <1>0, <1>10 DEF Answer, Leave, store, shared, own
<1>11. CASE Page(i)
  BY <1>0, <1>11 DEF Page, store, shared, own
<1>12. CASE Refused(i)
  <2>1. CASE Worthwhile(i)
    BY <1>0, <1>12, <2>1 DEF Refused, store, shared, own
  <2>2. CASE ~ Worthwhile(i)
    BY <1>0, <1>12, <2>2 DEF Refused, Leave, store, shared, own
  <2> QED
    BY <2>1, <2>2
<1>13. CASE Panic(i)
  BY <1>0, <1>13 DEF Panic, store, shared, own
<1> QED
  BY <1>1, <1>2, <1>3, <1>4, <1>5, <1>6, <1>7, <1>8, <1>9, <1>10, <1>11, <1>12, <1>13 DEF Step

(* The retry of the one that moves, and of the others.                    *)
LEMMA RetryStep == TypeOK /\ SessionIsHeld /\ RetryInv /\ [Next]_vars => RetryInv'
<1> SUFFICES ASSUME TypeOK, SessionIsHeld, RetryInv, [Next]_vars PROVE RetryInv'
  OBVIOUS
<1>1. CASE UNCHANGED << entry, issued, own >>
  BY <1>1 DEF RetryInv, EntryIsIssued, Tried, RunsAreIssued, TriedTwice, Attempted,
              Carries, Untried, RefusedOnce, own
<1>2. CASE Tick \/ Revoke \/ UNCHANGED vars
  BY <1>1, <1>2 DEF Tick, Revoke, vars, store
<1>3. ASSUME NEW i \in Invocations, Step(i) \/ Panic(i)
      PROVE  RetryInv'
  <2>1. \A j \in Invocations \ {i} : Tried(j)'
    BY <1>3, OneMoves, OthersStand
  <2>2. /\ issued \in Nat /\ pc[i] \in Phase /\ carried[i] \in Credential \cup {None}
        /\ refused[i] \in Seq(Nat) /\ crossed[i] \in Seq(Nat) /\ acquired[i] \in Seq(Nat)
        /\ kind[i] \in Kinds
    BY <1>3 DEF TypeOK
  <2>3. EntryIsIssued /\ Tried(i)
    BY <1>3 DEF RetryInv
  <2>4. SUFFICES EntryIsIssued' /\ Tried(i)'
    BY <2>1 DEF RetryInv
  <2>5. \A n \in DOMAIN acquired[i] : acquired[i][n] \in Nat
    BY <2>2, ElementOfSeq
  <2>6. \A n \in DOMAIN refused[i] : refused[i][n] \in Nat
    BY <2>2, ElementOfSeq
  <2> USE <1>3, <2>2, <2>3, <2>5, <2>6
      DEF EntryIsIssued, Tried, RunsAreIssued, TriedTwice, Attempted, Carries, Untried, RefusedOnce
  <2>7. pc \in [Invocations -> Phase] /\ carried \in [Invocations -> Credential \cup {None}]
        /\ refused \in [Invocations -> Seq(Nat)] /\ crossed \in [Invocations -> Seq(Nat)]
        /\ acquired \in [Invocations -> Seq(Nat)]
    BY DEF TypeOK
  <2>8. CASE Ask(i)
    BY <2>7, <2>8 DEF Ask, store, shared, own
  <2>9. CASE Reuse(i)
    <3>1. /\ pc'[i] = "claim" /\ carried'[i] = entry
          /\ UNCHANGED << entry, issued, refused, crossed, acquired >>
      BY <2>7, <2>9 DEF Reuse, store
    <3>2. pc[i] = "resolve" /\ entry # None /\ entry \in Credential
      BY <2>9 DEF Reuse, TypeOK
    <3> QED
      BY <3>1, <3>2
  <2>10. CASE Acquire(i)
    <3>1. /\ pc'[i] = "run" /\ issued' = issued + 1 /\ entry' = entry
          /\ acquired'[i] = Append(acquired[i], issued + 1)
          /\ refused'[i] = refused[i] /\ crossed'[i] = crossed[i]
      BY <2>7, <2>10 DEF Acquire, Launch
    <3>2. pc[i] = "resolve"
      BY <2>10 DEF Acquire
    <3>3. RunsAreIssued(i)'
      <4>1. \A n \in 1..Len(acquired[i]) : acquired'[i][n] = acquired[i][n]
        BY <3>1, AppendedNumber
      <4>2. /\ DOMAIN acquired'[i] = 1..(Len(acquired[i]) + 1)
            /\ acquired'[i][Len(acquired[i]) + 1] = issued + 1
        BY <3>1, AppendedNumber
      <4>3. \A n \in 1..Len(acquired[i]) : acquired[i][n] \in Nat /\ acquired[i][n] <= issued
        BY <2>2, ElementOfSeq
      <4>4. ASSUME NEW n \in 1..(Len(acquired[i]) + 1) PROVE acquired'[i][n] <= issued + 1
        <5>1. CASE n \in 1..Len(acquired[i])
          <6>1. acquired'[i][n] = acquired[i][n]
            BY <4>1, <5>1
          <6>2. acquired[i][n] \in Nat /\ acquired[i][n] <= issued
            BY <4>3, <5>1
          <6> QED
            BY <2>2, <6>1, <6>2
        <5>2. CASE n = Len(acquired[i]) + 1
          BY <2>2, <4>2, <5>2
        <5>3. Len(acquired[i]) \in Nat
          BY <2>2
        <5> QED
          BY <5>1, <5>2, <5>3
      <4> QED
        BY <3>1, <4>2, <4>4
    <3>4. Len(acquired'[i]) = Len(acquired[i]) + 1 /\ acquired'[i][Len(acquired[i]) + 1] = issued + 1
      BY <3>1, AppendedNumber
    <3>5. TriedTwice(i)'
      BY <3>1, <3>2, <3>4
    <3>6. Attempted(i)'
      BY <3>1, <3>2, <3>4
    <3>7. EntryIsIssued'
      BY <3>1 DEF TypeOK, Credential
    <3> QED
      BY <3>3, <3>5, <3>6, <3>7
  <2>11. CASE Refresh(i)
    <3>1. /\ pc'[i] = "rerun" /\ issued' = issued + 1 /\ entry' = entry
          /\ acquired'[i] = Append(acquired[i], issued + 1)
          /\ refused'[i] = refused[i] /\ crossed'[i] = crossed[i]
      BY <2>7, <2>11 DEF Refresh, Launch
    <3>2. pc[i] = "refresh"
      BY <2>11 DEF Refresh
    <3>3. RunsAreIssued(i)'
      <4>1. \A n \in 1..Len(acquired[i]) : acquired'[i][n] = acquired[i][n]
        BY <3>1, AppendedNumber
      <4>2. /\ DOMAIN acquired'[i] = 1..(Len(acquired[i]) + 1)
            /\ acquired'[i][Len(acquired[i]) + 1] = issued + 1
        BY <3>1, AppendedNumber
      <4>3. \A n \in 1..Len(acquired[i]) : acquired[i][n] \in Nat /\ acquired[i][n] <= issued
        BY <2>2, ElementOfSeq
      <4>4. ASSUME NEW n \in 1..(Len(acquired[i]) + 1) PROVE acquired'[i][n] <= issued + 1
        <5>1. CASE n \in 1..Len(acquired[i])
          <6>1. acquired'[i][n] = acquired[i][n]
            BY <4>1, <5>1
          <6>2. acquired[i][n] \in Nat /\ acquired[i][n] <= issued
            BY <4>3, <5>1
          <6> QED
            BY <2>2, <6>1, <6>2
        <5>2. CASE n = Len(acquired[i]) + 1
          BY <2>2, <4>2, <5>2
        <5>3. Len(acquired[i]) \in Nat
          BY <2>2
        <5> QED
          BY <5>1, <5>2, <5>3
      <4> QED
        BY <3>1, <4>2, <4>4
    <3>4. Len(acquired'[i]) = Len(acquired[i]) + 1 /\ acquired'[i][Len(acquired[i]) + 1] = issued + 1
      BY <3>1, AppendedNumber
    <3>5. TriedTwice(i)'
      BY <3>1, <3>2, <3>4
    <3>6. Attempted(i)'
      BY <3>1, <3>2, <3>4
    <3>7. EntryIsIssued'
      BY <3>1 DEF TypeOK, Credential
    <3> QED
      BY <3>3, <3>5, <3>6, <3>7
  <2>12. CASE Resolved(i)
    <3>1. /\ pc[i] \in {"run", "rerun"}
          /\ UNCHANGED << issued, refused, crossed, acquired >>
          /\ entry'.number = Last(acquired[i])
      BY <2>12 DEF Resolved
    <3>2. 1 <= Len(acquired[i]) /\ Len(acquired[i]) <= 2
      <4>1. CASE pc[i] = "run"
        <5>1. Len(acquired[i]) = 1
          BY <4>1
        <5> QED
          BY <5>1
      <4>2. CASE pc[i] = "rerun"
        BY <4>2
      <4> QED
        BY <3>1, <4>1, <4>2
    <3>3. /\ Last(acquired[i]) = acquired[i][Len(acquired[i])]
          /\ Len(acquired[i]) \in DOMAIN acquired[i]
      BY <3>2, LastOfNumbers
    <3>4. entry'.number <= issued
      BY <3>1, <3>3
    <3>5. entry' \in Credential
      <4>1. PICK lifetime \in Lifetimes :
              entry' = [number |-> Last(acquired[i]), expires |-> now + lifetime]
        BY <2>12 DEF Resolved
      <4>2. Last(acquired[i]) \in Nat
        BY <3>2, LastOfNumbers
      <4>3. now + lifetime \in Nat
        BY Constants DEF TypeOK
      <4> QED
        BY <4>1, <4>2, <4>3 DEF Credential
    <3>6. CASE pc'[i] = "claim" /\ carried'[i] = entry' /\ pc[i] = "run"
      BY <3>1, <3>2, <3>4, <3>5, <3>6
    <3>7. CASE pc'[i] = "read" /\ carried'[i] = entry' /\ pc[i] = "rerun"
      BY <3>1, <3>2, <3>3, <3>4, <3>5, <3>7
    <3>8. CASE pc'[i] = "failed"
      BY <3>1, <3>4, <3>8
    <3> QED
      BY <2>7, <2>12, <3>6, <3>7, <3>8 DEF Resolved
  <2>13. CASE Unresolved(i)
    BY <2>7, <2>13 DEF Unresolved, store, shared, own
  <2>14. CASE Claim(i)
    BY <2>7, <2>14 DEF Claim, store, shared, own
  <2>15. CASE Discover(i)
    BY <2>7, <2>15 DEF Discover, store, shared, own
  <2>16. CASE DiscoveryRefused(i)
    BY <2>7, <2>16 DEF DiscoveryRefused, Leave, store, shared, own
  <2>17. CASE Answer(i)
    <3>1. /\ pc[i] = "read" /\ pc'[i] = "answered"
          /\ crossed'[i] = Append(crossed[i], Len(refused[i]))
          /\ UNCHANGED << entry, issued, kind, refused, acquired, carried >>
      BY <2>7, <2>17 DEF Answer, Leave, store
    <3>2. Len(refused[i]) \in Nat
      BY <2>2
    <3>3. \A n \in DOMAIN crossed'[i] : crossed'[i][n] = Len(refused[i])
      <4>1. DOMAIN crossed[i] = 1..Len(crossed[i]) /\ Len(crossed[i]) \in Nat
        BY <2>2
      <4>2. DOMAIN crossed'[i] = 1..(Len(crossed[i]) + 1)
        BY <3>1, <3>2, AppendedNumber
      <4>3. crossed'[i][Len(crossed[i]) + 1] = Len(refused[i])
        BY <3>1, <3>2, AppendedNumber
      <4>4. \A n \in 1..Len(crossed[i]) : crossed'[i][n] = crossed[i][n]
        BY <3>1, <3>2, AppendedNumber
      <4> QED
        BY <3>1, <4>1, <4>2, <4>3, <4>4
    <3> QED
      BY <3>1, <3>3
  <2>18. CASE Page(i)
    <3>1. /\ pc[i] = "read" /\ pc'[i] = "read"
          /\ crossed'[i] = Append(crossed[i], Len(refused[i]))
          /\ UNCHANGED << entry, issued, kind, refused, acquired, carried >>
          /\ kind[i] = "list"
      BY <2>7, <2>18 DEF Page, store
    <3>2. Len(refused[i]) \in Nat
      BY <2>2
    <3>3. \A n \in DOMAIN crossed'[i] : crossed'[i][n] = Len(refused[i])
      <4>1. DOMAIN crossed[i] = 1..Len(crossed[i]) /\ Len(crossed[i]) \in Nat
        BY <2>2
      <4>2. DOMAIN crossed'[i] = 1..(Len(crossed[i]) + 1)
        BY <3>1, <3>2, AppendedNumber
      <4>3. crossed'[i][Len(crossed[i]) + 1] = Len(refused[i])
        BY <3>1, <3>2, AppendedNumber
      <4>4. \A n \in 1..Len(crossed[i]) : crossed'[i][n] = crossed[i][n]
        BY <3>1, <3>2, AppendedNumber
      <4> QED
        BY <3>1, <4>1, <4>2, <4>3, <4>4
    <3> QED
      BY <3>1, <3>3
  <2>19. CASE Refused(i)
    <3>1. /\ pc[i] = "read" /\ refused'[i] = Append(refused[i], carried[i].number)
          /\ UNCHANGED << crossed, entry, issued, kind, acquired, carried >>
      BY <2>7, <2>19 DEF Refused, Leave, store
    <3>2. carried[i].number \in Nat /\ carried[i].number <= issued /\ Len(refused[i]) \in Nat
      BY <3>1 DEF Credential
    <3>3. /\ Len(refused'[i]) = Len(refused[i]) + 1
          /\ refused'[i][Len(refused[i]) + 1] = carried[i].number
          /\ \A n \in 1..Len(refused[i]) : refused'[i][n] = refused[i][n]
      BY <3>1, <3>2, AppendedNumber
    <3>4. CASE Worthwhile(i)
      <4>1. pc'[i] = "refresh"
        BY <2>7, <2>19, <3>4 DEF Refused
      <4>2. crossed[i] = << >> /\ refused[i] = << >>
        BY <3>1, <3>4 DEF Worthwhile
      <4>3. Len(refused'[i]) = 1 /\ refused'[i][1] = carried[i].number
        BY <3>3, <4>2
      <4> QED
        BY <3>1, <3>2, <4>1, <4>2, <4>3
    <3>5. CASE ~ Worthwhile(i)
      <4>1. pc'[i] = "failed"
        BY <2>7, <2>19, <3>5 DEF Refused, Leave
      <4>2. Len(refused[i]) \in {0, 1} /\ Len(acquired[i]) <= 2
        BY <3>1
      <4>3. Len(refused[i]) = 1 => refused'[i][1] < refused'[i][2]
        BY <3>1, <3>3
      <4> QED
        BY <3>1, <3>3, <4>1, <4>2, <4>3
    <3> QED
      BY <3>4, <3>5
  <2>20. CASE Panic(i)
    BY <2>7, <2>20 DEF Panic, store, shared, own
  <2> QED
    BY <2>8, <2>9, <2>10, <2>11, <2>12, <2>13, <2>14, <2>15, <2>16, <2>17, <2>18, <2>19, <2>20 DEF Step
<1> QED
  BY <1>2, <1>3 DEF Next

-----------------------------------------------------------------------------
(* The theorems.                                                           *)

(* No helper runs, nobody is inside, and nothing was refused.             *)
LEMMA InitAInv == Init => AInv
<1> SUFFICES ASSUME Init PROVE AInv
  OBVIOUS
<1>1. TypeOK
  BY InitType
<1>2. HelperIsHeld /\ AskedBefore /\ OneRunPerExpiry
  BY DEF Init, HelperIsHeld, AskedBefore, OneRunPerExpiry
<1>3. SessionIsHeld /\ PanicPoisons
  BY Constants DEF Init, SessionIsHeld, PanicPoisons, Holding
<1>4. RetryInv
  BY DEF Init, RetryInv, EntryIsIssued, Tried, RunsAreIssued, TriedTwice, Attempted, Untried
<1> QED
  BY <1>1, <1>2, <1>3, <1>4 DEF AInv

(* Every step keeps every part of it.                                     *)
LEMMA AInvStep == AInv /\ [Next]_vars => AInv'
BY TypeStep, StoreStep, SessionStep, RetryStep DEF AInv, StoreInv, SessionInv

(* The parts of the invariant hold together, always.                       *)
THEOREM AccessInvariant == Spec => []AInv
BY InitAInv, AInvStep, PTL DEF Spec

(* ADR-0055 (`resolve` holds the entry's lock while the helper runs):      *)
(* however many invocations acquire at an expiry, the helper is run for    *)
(* one, and the others find what it returned.  The runs that a refusal     *)
(* forces (`refresh`) are bounded by invocation only (`Retried`).          *)
THEOREM OneRun == Spec => []OneRunPerExpiry
<1>1. AInv => OneRunPerExpiry
  BY DEF AInv
<1> QED
  BY <1>1, AccessInvariant, PTL

(* §8.3, ADR-0055 (`fetch_refreshing`, query.rs): a request is sent at    *)
(* most twice, the second time with a newer credential than it was refused *)
(* with, and no answer is made of two walks.                               *)
THEOREM Retried == Spec => []OneRetry
<1>1. AInv => OneRetry
  BY DEF AInv, RetryInv, Tried, TriedTwice, OneRetry
<1> QED
  BY <1>1, AccessInvariant, PTL

(* §10.4 (`Sessions::with` and the poisoned lock): whoever is inside the   *)
(* session finds nothing there that one who panicked has written.          *)
THEOREM NothingLeft == Spec => []PanicLeavesNothing
<1>1. AInv => PanicLeavesNothing
  BY DEF AInv, SessionIsHeld, PanicPoisons, PanicLeavesNothing
<1> QED
  BY <1>1, AccessInvariant, PTL
==============================================================================
