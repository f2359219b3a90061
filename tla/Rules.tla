-------------------------------- MODULE Rules --------------------------------
(***************************************************************************)
(* The pure rules asked about bounded inputs: a state is one question, and *)
(* each property says what holds of the rules' answer to it.  There is no  *)
(* behaviour here; what the answers are used for is in the other modules.  *)
(***************************************************************************)
EXTENDS Kinship, Integers, Sequences, SequencesExt, FiniteSets

CONSTANTS
  Worlds,    \* what really happened to an object, and what each clock says
  Years,     \* the years whose dates are asked about
  Catalogues,\* what clusters serve, and where they do not answer
  Selectors, \* the words a query names a resource with
  Bodies,    \* the frames of a watch body, and how many bytes of it arrived
  Errors,    \* what went wrong with a request
  Contexts,  \* the texts a kubeconfig calls its contexts
  Clients,   \* how a cluster is reached, and what the host has granted
  Answering, \* clusters, and how they answer a diagnostic
  Stating,   \* objects, what they say, and which things they say it of
  Spaces,    \* the objects of a cluster, and the kinds that could not be read
  Watches    \* a watched collection, as a view is shown it time after time

H == INSTANCE History
C == INSTANCE Catalogue
P == INSTANCE Places
D == INSTANCE Diagnosing
E == INSTANCE Evidence
W == INSTANCE Wire WITH Limit <- 3
S == INSTANCE Screen WITH Capacity <- 1, StaleAfter <- 3, RowsEvery <- 2

AskOrder ==
  /\ question = Nothing
  /\ \E world \in Worlds : question' = [about |-> "order", world |-> world]

IsLeap(y) == y % 4 = 0 /\ (y % 100 # 0 \/ y % 400 = 0)
MonthLength(y, m) ==
  CASE m = 2 -> IF IsLeap(y) THEN 29 ELSE 28
    [] m \in {4, 6, 9, 11} -> 30
    [] OTHER -> 31

AskDate ==
  /\ question = Nothing
  /\ \E y \in Years, m \in 1..12 : \E d \in 1..MonthLength(y, m) :
       question' = [about |-> "date", year |-> y, month |-> m, day |-> d]

AskScreen ==
  /\ question = Nothing
  /\ \E watch \in Watches : question' = [about |-> "screen", watch |-> watch]

AskName ==
  /\ question = Nothing
  /\ \E cluster \in Catalogues, selector \in Selectors :
       question' = [about |-> "name", cluster |-> cluster, selector |-> selector]

(* A body is cut into three reads, anywhere.                               *)
AskBody ==
  /\ question = Nothing
  /\ \E body \in Bodies : \E a \in 0..body.arrived : \E b \in a..body.arrived :
       question' = [about |-> "body", body |-> body, cuts |-> << a, b >>]

AskError ==
  /\ question = Nothing
  /\ \E error \in Errors : question' = [about |-> "error", error |-> error]

AskAddress ==
  /\ question = Nothing
  /\ \E context \in Contexts : question' = [about |-> "address", context |-> context]

AskSpace ==
  /\ question = Nothing
  /\ \E space \in Spaces : question' = [about |-> "space", space |-> space]

(* A cluster is diagnosed by each of two clients, or two clusters are.     *)
AskCluster ==
  /\ question = Nothing
  /\ \E pair \in Answering, one, other \in Clients :
       question' = [about |-> "cluster", worlds |-> pair, clients |-> << one, other >>]

AskEvidence ==
  /\ question = Nothing
  /\ \E objects \in Stating : question' = [about |-> "evidence", objects |-> objects]

Init == question = Nothing
Next ==
  \/ AskKin \/ AskOrder \/ AskDate \/ AskScreen \/ AskName
  \/ AskBody \/ AskError \/ AskAddress \/ AskSpace \/ AskCluster \/ AskEvidence
Spec == Init /\ [][Next]_question

-----------------------------------------------------------------------------
(* §39.2, §63.6: whatever the timeline orders really happened in that      *)
(* order, and so far apart, however far the machines' clocks are from each *)
(* other.                                                                  *)
OrdersAreTrue ==
  question.about = "order" =>
    LET w   == question.world
        t   == H!Assemble(w.subject, w.object, w.events, 0, 0)
        obs == t.observations
        true(n) == w.when[n]
    IN  /\ Len(obs) = Len(w.when)
        /\ \A i, j \in 1..Len(obs) :
             LET order == H!Relate(obs[i].stamp, obs[j].stamp).order IN
             /\ order = "before" => true(i) < true(j)
             /\ order = "simultaneous" => true(i) = true(j)
             /\ order # "unordered" =>
                  H!Apart(obs[i].stamp, obs[j].stamp)
                    = IF true(i) < true(j) THEN true(j) - true(i) ELSE true(i) - true(j)
             /\ (order = "unordered")
                  <=> H!Apart(obs[i].stamp, obs[j].stamp) = H!Unwritten
        /\ \A clock \in H!Clocks(t) :
             LET on == H!OrderedOn(t, clock).sequence IN
             \A i \in 1..Len(on) - 1 :
               H!Relate(on[i].stamp, on[i + 1].stamp).order \in {"before", "simultaneous"}

(* The days from the epoch, counted year by year and month by month.       *)
RECURSIVE DaysBefore(_, _)
DaysBefore(y, m) ==
  IF m > 1 THEN MonthLength(y, m - 1) + DaysBefore(y, m - 1)
  ELSE 365 * (y - 1970) + Cardinality({x \in 1970..y - 1 : IsLeap(x)})

(* RFC 3339 dates are read as the instants they name: over leap years,     *)
(* centuries and the ends of months (temporal.rs `days_from_civil`).       *)
DaysAreCounted ==
  question.about = "date" =>
    H!DaysFromCivil(question.year, question.month, question.day)
      = DaysBefore(question.year, question.month) + question.day - 1

(* Instants are read, counted and ordered as they happened.                *)
TimesAreTrue == OrdersAreTrue /\ DaysAreCounted

(* What a view that is shown a stream at each of these steps ends as, and  *)
(* the steps at which its rows were rebuilt.                               *)
Watching(watch, n) ==
  FoldLeftDomain(
    LAMBDA w, i : [emitter |-> S!EmitterRefresh(w.emitter, watch[i].stream, watch[i].now),
                   rebuilt |-> IF S!IsDue(w.emitter, watch[i].now)
                               THEN Append(w.rebuilt, i) ELSE w.rebuilt],
    [emitter |-> S!NewEmitter, rebuilt |-> << >>], SubSeq(watch, 1, n))

(* Where the stream lost something, and what a neighbourhood that counts   *)
(* its objects says.                                                       *)
BreaksAt(watch, i) ==
  watch[i].stream.gaps # {} /\ (i = 1 \/ watch[i - 1].stream.gaps = {})

Counting(watch) ==
  FoldLeftDomain(
    LAMBDA n, i : S!Observe(IF BreaksAt(watch, i) THEN S!RecordGap(n) ELSE n,
                            "objects", Len(watch[i].stream.objects)),
    S!NewNeighbourhood({"objects"}), watch)

(* §41.2-§41.4 (live.rs, changes.rs): a row is as old as the observation   *)
(* that its object is what it is now, whatever was rebuilt since; the rows *)
(* and what was withheld are together the collection; a view is shown as   *)
(* current only if the stream was live at most a window ago and nothing of *)
(* it was lost or left out; a view that goes stale in silence is announced;*)
(* and no change is told as new that had been shown of the same lifetime.  *)
(* A count is told as having become another only where nothing was lost    *)
(* between the two.                                                        *)
ScreenIsHonest ==
  question.about = "screen" =>
    LET watch  == question.watch
        n      == Len(watch)
        w      == Watching(watch, n)
        view   == S!ViewOf(w.emitter)
        last   == w.rebuilt[Len(w.rebuilt)]
        source == watch[last].stream.objects
        shownAt(i) == S!Fitting(watch[w.rebuilt[i]].stream.objects)
        since(o)   == CHOOSE i \in 1..Len(w.rebuilt) :
                        /\ \A j \in i..Len(w.rebuilt) : shownAt(j) = << o >>
                        /\ i = 1 \/ shownAt(i - 1) # << o >>
        later      == watch[n].now + 4
    IN  /\ [i \in 1..Len(view.rows) |-> view.rows[i].object] = S!Fitting(source)
        /\ Len(view.withheld) = Len(source) - Len(view.rows)
        /\ \A i \in 1..Len(view.withheld) :
             view.withheld[i] = S!IdentityOf(source[i + Len(view.rows)])
        /\ \A i \in 1..Len(view.rows) :
             LET row == view.rows[i]
                 first == since(row.object)
                 prior == IF first = 1 THEN << >> ELSE shownAt(first - 1)
             IN  /\ row.observed_at = watch[w.rebuilt[first]].now
                 /\ (row.change = "modified")
                      <=> \E j \in 1..Len(prior) :
                            prior[j].uid = row.object.uid /\ prior[j].key = row.object.key
        /\ \A now \in {watch[n].now, later} :
             S!Shown(view, now).notice = {} =>
               /\ watch[n].stream.state = "live" /\ watch[n].stream.gaps = {}
               /\ now - watch[n].now <= 3
               /\ Len(source) <= 1
        /\ LET told == S!ObservedState(w.emitter, watch[n].now)
               a    == S!Announcement(w.emitter, told, later)
           IN  watch[n].stream.state = "live" =>
                 a.announced = "stale" /\ \E x \in a.notice : x.stale
        /\ LET told == S!DescribeTally(Counting(watch).tallies["objects"])
               now  == Len(watch[n].stream.objects)
               then == Len(watch[n - 1].stream.objects)
           IN  told = IF BreaksAt(watch, n) \/ now = then THEN << now >> ELSE << then, now >>

(* The resources a query's words could mean in a cluster, whether or not   *)
(* the API servers behind them answer: of the versions its group's server  *)
(* prefers, or of the one it names.                                        *)
Candidates(cluster, selector) ==
  LET groups == {g \in DOMAIN cluster : selector.group = {} \/ g \in selector.group}
      words(g) == {cluster[g][i].version : i \in 1..Len(cluster[g])}
      asked(g) == IF selector.version = {} THEN {cluster[g][1].version}
                  ELSE words(g) \cap selector.version
      of(g, v) == {<< g, v, r >> : r \in C!VersionOf(cluster, << g, v >>).serves}
      all == UNION {UNION {of(g, v) : v \in asked(g)} : g \in groups}
  IN  {t \in all :
         /\ selector.kind # {} => t[3].kind \in selector.kind
         /\ \A name \in selector.resource : name = t[3].plural \/ name \in t[3].short_names}

(* Those a group has of a kind.                                            *)
OfGroup(cluster, g, kind) ==
  Candidates(cluster, [group |-> {g}, version |-> {}, resource |-> {}, kind |-> {kind}])

(* §11.2, §34.2, §35.8 (discovery.rs, dynamic.rs, query.rs): a name is     *)
(* resolved only to the one resource it can mean in the whole of the space *)
(* that was to be searched, of the identity the cluster gives it; it is    *)
(* told to mean several only if it does, and nothing only if every group   *)
(* answered and none has it, in whichever form discovery each root answers,*)
(* which makes no difference to it.  So is a kind this package names, but  *)
(* where a root answers in the aggregated form a group that is stale in it *)
(* is not told from one that serves nothing, as the next property asks.    *)
NamesAreProven ==
  question.about = "name" =>
    LET cluster  == question.cluster
        selector == question.selector
        truth    == Candidates(cluster, selector)
        servedBy(a, b) == C!Served(cluster, [core |-> a, groups |-> b])
        answer(a, b, verb) == C!ResolveIn(servedBy(a, b), cluster, selector, verb)
        is(r, t) == /\ r.gvr = << t[1], t[2], t[3].plural >>
                    /\ << r.group, r.version, r.kind >> = << t[1], t[2], t[3].kind >>
                    /\ r.subresources = t[3].subresources
    IN  \A a, b \in BOOLEAN : \A verb \in {"get", "list"} :
          LET x == answer(a, b, verb) IN
          /\ x = answer(FALSE, FALSE, verb)
          /\ x.is = "found" => \E t \in truth :
               truth = {t} /\ is(x.resource, t) /\ verb \in t[3].verbs
          /\ x.is = "not-offered" => \E t \in truth : is(x.resource, t) /\ verb \notin t[3].verbs
          /\ x.is = "ambiguous" => Cardinality(truth) > 1
          /\ x.is = "not-served" => truth = {}
          /\ \A g \in DOMAIN cluster :
               LET c == C!Curated(servedBy(a, b), cluster, g, "Thing")
                   t == OfGroup(cluster, g, "Thing")
               IN  /\ c.is = "found" => \E u \in t : is(c.resource, u)
                   /\ c.is = "not-served" =>
                        t = {} \/ (cluster[g][1].status # 200 /\ (IF g = C!Core THEN a ELSE b))

(* §11.2, §34.2: "An empty resource list under that mark is nobody having  *)
(* been able to ask" (discovery.rs): a group is told to serve no kind of a *)
(* name only if it serves none.  Not kept: section 6 of the README.        *)
StaleIsNotAnswered ==
  question.about = "name" =>
    LET cluster == question.cluster IN
    \A a, b \in BOOLEAN, g \in DOMAIN cluster :
      C!Curated(C!Served(cluster, [core |-> a, groups |-> b]), cluster, g, "Thing").is = "not-served"
        => OfGroup(cluster, g, "Thing") = {}

(* What those reads of the bytes that arrived of a body have to come to.   *)
ReadIsOf(read, frames, bytes) ==
  LET ends(i) == FoldLeft(LAMBDA n, f : n + f.size + 1, -1, SubSeq(frames, 1, i))
      arrived == {i \in 1..Len(frames) : ends(i) <= Len(bytes)}
      sound   == {i \in arrived : \A j \in 1..i : W!FrameOf(frames[j]).fault = "none"}
      told    == [i \in 1..Cardinality(sound) |-> W!FrameOf(frames[i]).event]
      whole   == Len(bytes) \in {0} \cup {ends(i) : i \in arrived}
                                   \cup {ends(i) + 1 : i \in arrived}
  IN  /\ IsPrefix(read.events, told)
      /\ read.fault = "none" => read.events = told /\ whole /\ sound = arrived
      /\ (whole /\ sound = arrived /\ \A i \in 1..Len(frames) : frames[i].size <= 3)
           => read.fault = "none"

Arrived(body) ==
  SubSeq(FlattenSeq([i \in 1..Len(body.frames) |->
                       Append(W!Bytes(body.frames[i]), W!Newline)]), 1, body.arrived)

CutAt(bytes, cuts) ==
  << SubSeq(bytes, 1, cuts[1]), SubSeq(bytes, cuts[1] + 1, cuts[2]),
     SubSeq(bytes, cuts[2] + 1, Len(bytes)) >>

(* §18.5, §19.3 (watch.rs): the events of a watch are those of its frames, *)
(* in order and once, however the reads cut them; a frame that did not     *)
(* arrive whole is never told as one, and a fault is told only of a body   *)
(* that has one.                                                           *)
FramesAreWhole ==
  question.about = "body" =>
    ReadIsOf(W!ReadBody(CutAt(Arrived(question.body), question.cuts)),
             question.body.frames, Arrived(question.body))

(* §21.4, §48.2 (transport.rs, query.rs): an object is told to be absent   *)
(* only where the server said that of it; only a server that had no time,  *)
(* or broke, is told to be worth asking again, and where an answer was     *)
(* lost or came too late it is told that it may have run; a credential is  *)
(* run again only where it was not accepted; and what coverage says of an  *)
(* error is what its kind says.                                            *)
ErrorsAreTold ==
  question.about = "error" =>
    LET e == question.error.is
        true == question.error.happened
    IN  /\ W!Fetched(e) = "absent" <=> true = "no-object"
        /\ \A operation \in {"get", "list"} :
             LET kind == W!KindOf(e, operation)
                 outcome == W!OutcomeOf(e, operation)
             IN  /\ W!Retryability(kind) = "yes" => true \in {"not-now", "broken"}
                 /\ true \in {"lost", "too-long"} => W!Retryability(kind) = "unknown"
                 /\ W!IsUnauthenticated(e, operation) <=> true = "not-accepted"
                 /\ kind = "watch-expired" <=> true = "gone"
                 /\ outcome \in {"read-denied", "list-denied"} <=> kind = "authorization-denied"
                 /\ kind = W!Absence(operation) /\ true # "no-method"
                      <=> outcome \in {"absent", "namespace-absent", "type-not-served"}

(* "A 500 carrying `ServerTimeout` is a request to try again; the same 500 *)
(* read from its code alone is a generic failure nobody retries"           *)
(* (transport.rs).  Not kept: section 6 of the README.                     *)
BareFailureIsFinal ==
  question.about = "error" =>
    LET e == question.error.is IN
    \A operation \in {"get", "list"} :
      e.is = "failed" /\ e.code = 500 /\ e.status.reason = W!NoStatus.reason =>
        W!Retryability(W!KindOf(e, operation)) # "yes"

(* §35.3, Gate J (place.rs): an address is read back as the place it was   *)
(* written for, with or without the slash a container ends in; so no two   *)
(* places, of two contexts whatever they are called, have one address.     *)
AddressesReturn ==
  question.about = "address" =>
    LET instances == P!Qualify(question.context)
        pod  == [type |-> P!TypeOf(P!Core, "Pod"), name |-> << "x" >>]
        role == [type |-> P!TypeOf("rbac", "ClusterRole"), name |-> << "x" >>]
    IN \A i \in instances :
         /\ P!Normalise(i) = {i}
         /\ \A u \in {P!Uri(i, {}, {}), P!Uri(i, {<< "ns" >>}, {}), P!Uri(i, {}, {pod}),
                      P!Uri(i, {<< "cluster" >>}, {pod}), P!Uri(i, {}, {role})} :
              LET text == P!Render(u) IN
              /\ P!Parse(text) = {u}
              /\ P!Parse(IF Last(text) = "/" THEN Front(text) ELSE text \o << "/" >>) = {u}

(* §35.4-§35.6 (spatial.rs): every exit of an object leads to the lifetime *)
(* the relationship is with, or to the one the object itself states; every *)
(* relationship between two kinds that are declared, of objects that were  *)
(* read, is an exit; and the one exit `up` takes leads to the place above  *)
(* the object's own address.                                               *)
ExitsAreReal ==
  question.about = "space" =>
    LET cluster  == question.space.cluster
        here     == << P!Prefix, "here" >>
        read     == P!InventoryOf(cluster, question.space.unread)
        place(o) == P!OfIdentity(here, o)
        stated(o, e) ==
          \/ \E r \in o.owners : r.kind = e.to /\ r.uid = e.target
          \/ \E t \in UNION {P!Of(x, "targetRef") : x \in P!Field(o, "endpoints")} :
               t.kind = e.to /\ t.uid = e.target
        above(o, e) ==
          \/ e.relation = "in-cluster" /\ e.target = here /\ P!Up(place(o)) = {P!Uri(here, {}, {})}
          \/ /\ e.relation = "in-namespace"
             /\ \E n \in read : n.uid = e.target /\ P!Up(place(o)) = {place(n).uri}
        along(kin, e, p) ==
          \E r \in P!RelationOf(e.relation) :
            e.to = p.kind /\ e.target = p.uid /\ P!Leads(kin, r, p)
    IN \A o \in read :
         LET exits == ToSet(P!Exits(o, read, here))
             kin   == P!Derive(o, read, FALSE).edges
         IN
           /\ \A e \in exits :
                stated(o, e) \/ above(o, e) \/ \E p \in read : along(kin, e, p)
           /\ \A p \in {p \in read : P!Declares(o.kind, p.kind)} : \A e \in kin :
                P!Leads({e}, e.relation, p)
                  => \E x \in exits : x.relation = P!Waypoint(e.relation) /\ x.to = p.kind /\ x.target = p.uid
           /\ Cardinality({e \in exits : above(o, e)})
                = IF \/ P!ParentKind(o.kind) = {P!Cluster}
                     \/ /\ P!ParentKind(o.kind) = {"Namespace"}
                        /\ \E n \in read : n.kind = "Namespace" /\ n.name = o.namespace
                  THEN 1 ELSE 0

(* A place is found again at its address, and by the exits to it.          *)
PlacesAreReal == AddressesReturn /\ ExitsAreReal

(* What diagnostics d say of the worlds they were made of.                 *)
DiagnosesAreOf(d, world) ==
  LET said(n, path, codes) ==
        \E i \in DOMAIN d[n].probes : d[n].probes[i].source = path /\ d[n].probes[i].code \in codes
      lacks(n, what) == d[n].served /\ what \notin world[n].serves
      denied(n) == \E i \in DOMAIN d[n].probes : d[n].probes[i].code \in {401, 403}
      key(n) == d[n].fingerprint["server-public-key"]
      uid(n) == d[n].fingerprint["kube-system-uid"]
      same  == world[1].uid = world[2].uid
      verdict == D!Compare(d[1].fingerprint, d[2].fingerprint).verdict
  IN /\ \A n \in 1..2 :
          /\ D!IsReachable(d[n].probes) <=> \E i \in DOMAIN d[n].probes : d[n].probes[i].code > 0
          /\ uid(n).value \subseteq {world[n].uid}
          /\ d[n].tls = "verified" /\ world[n].connects = "yes" => key(n).value = {world[n].key}
          /\ d[n].tls # "verified" => ~ D!IsObtained(key(n))
          /\ "namespace-absent" \in uid(n).outcome => said(n, "kube-system", {404})
          /\ "type-not-served" \in uid(n).outcome => lacks(n, "namespaces")
          /\ "type-not-served" \in d[n].effective.outcome =>
               lacks(n, "authentication") \/ lacks(n, "review") \/ said(n, "review", {404})
          /\ \A k \in {uid(n), d[n].effective, d[n].version} :
               "read-denied" \in k.outcome => denied(n)
          /\ \A c \in D!Capabilities :
               /\ d[n].capabilities[c] = "denied for current user" =>
                    c = "subject-access-review" /\ said(n, "authorization", {401, 403})
               /\ d[n].capabilities[c] = "not served by cluster" =>
                    \/ c # "subject-access-review" /\ d[n].served
                    \/ lacks(n, "authorization") \/ lacks(n, "access-review")
                    \/ said(n, "authorization", {404})
               /\ c \in D!NotByProvider => d[n].capabilities[c] = "unavailable in any session"
          /\ \A i, j \in DOMAIN d[n].probes :
               /\ i # j => d[n].probes[i].source # d[n].probes[j].source
               /\ i < j /\ d[n].probes[j].answered => d[n].probes[i].answered
          /\ \A i \in DOMAIN d[n].probes :
               ~ d[n].probes[i].answered => << d[n].probes[i].source, "disconnected" >> \in D!Unknowns(d[n])
     /\ same => verdict # "distinct"
     /\ ~ same /\ D!IsObtained(uid(1)) /\ D!IsObtained(uid(2)) => verdict = "distinct"

(* §10.2-§10.4, §21.4, §57.1 (cluster.rs, diagnostics.rs): what a          *)
(* diagnostic states the cluster said, and an absence or a denial is       *)
(* stated only where it was; two fingerprints differ only if the clusters  *)
(* do, whatever an unverified peer was shown to be, and do where both said *)
(* which they are.                                                         *)
DiagnosisIsHonest ==
  question.about = "cluster" =>
    LET observed(n) == D!Observe(question.clients[n].endpoint, question.worlds[n],
                                 question.clients[n].check)
    IN  /\ \A n \in 1..2 : observed(n) = {} <=> question.worlds[n].connects = "not granted"
        /\ \A first \in observed(1), second \in observed(2) :
             DiagnosesAreOf(<< first, second >>, question.worlds)

(* A JSON pointer (RFC 6901): the steps of the path it stands for.         *)
ReadPointer(source) ==
  FoldLeft(LAMBDA s, part :
             IF part = "/" THEN [steps |-> Append(s.steps, << >>), escape |-> FALSE]
             ELSE IF part = "~" /\ ~s.escape THEN [s EXCEPT !.escape = TRUE]
             ELSE [steps  |-> [s.steps EXCEPT ![Len(s.steps)] =
                                 Append(@, IF ~s.escape THEN part
                                           ELSE IF part = "0" THEN "~" ELSE "/")],
                   escape |-> FALSE],
           [steps |-> << >>, escape |-> FALSE], source).steps

Exported(objects) ==
  UNION {{[object |-> object, is |-> answer.is, records |-> Range(answer.records)] :
            answer \in {E!Answer(objects, {object.name}, {object.kind})}} : object \in objects}

ThingOf(object, record) ==
  object.whole[ReadPointer(CHOOSE source \in record.source : TRUE)].thing

(* The drivers a volume is exported with.                                  *)
Drivers(records) == UNION {record.value : record \in {r \in records : r.key = "volume-driver"}}

(* Two answers give one value of a key a lookup may be made by.            *)
Collide(record, twin) ==
  /\ record.lookup_key /\ twin.lookup_key
  /\ record.key = twin.key /\ record.value = twin.value

(* §28.5, §47.2, §47.6 (evidence.rs): what an object states of other       *)
(* systems is exported whole, each fact with a pointer that leads back to  *)
(* it; a key that is called absent is one the cluster's own object does not*)
(* have; no two facts of an object are written alike; and two objects that *)
(* share a value a lookup may be keyed on, and that is not empty, speak of *)
(* the same thing, if the drivers that are exported beside it agree.       *)
EvidenceIsTrue ==
  question.about = "evidence" =>
    \E exported \in {Exported(question.objects)} :
      \A a \in exported :
        /\ a.is = "completed"
        /\ \A record \in a.records :
             /\ \A value \in record.value, source \in record.source :
                  /\ ReadPointer(source) \in DOMAIN a.object.fields
                  /\ a.object.fields[ReadPointer(source)] = value
             /\ "absent" \in record.outcome =>
                  \A fact \in Range(a.object.whole) : fact.key = record.key => fact.value = << >>
             /\ \A shape \in record.shape, value \in record.value :
                  shape.scheme \o << "://" >> \o shape.path = value
             /\ \A twin \in a.records :
                  record.observed /\ twin.observed
                    /\ E!Labelled(record.key, record.qualifier)
                         = E!Labelled(twin.key, twin.qualifier)
                    => record.key = twin.key
             /\ \A b \in exported : \A twin \in b.records :
                  Collide(record, twin) /\ record.value # {<< >>}
                    /\ Drivers(a.records) = Drivers(b.records) =>
                      ThingOf(a.object, record) = ThingOf(b.object, twin)
        /\ \A path \in DOMAIN a.object.fields :
             \/ a.object.whole[path].key = "none"
             \/ a.object.whole[path].value = << >>
             \/ \E record \in a.records : /\ record.key = a.object.whole[path].key
                                         /\ a.object.fields[path] \in record.value

(* "Whether a resolver may key a foreign lookup on this value alone"       *)
(* (`is_lookup_key`, evidence.rs): two objects that share such a value     *)
(* speak of the same thing.  Not kept: section 6 of the README.            *)
KeysStandAlone ==
  question.about = "evidence" =>
    \E exported \in {Exported(question.objects)} :
      \A a, b \in exported : \A record \in a.records, twin \in b.records :
        Collide(record, twin) => ThingOf(a.object, record) = ThingOf(b.object, twin)
=============================================================================
