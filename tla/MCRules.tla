------------------------------- MODULE MCRules -------------------------------
(* Small instances of Rules for TLC.                                       *)
EXTENDS Rules, TLC

Nobody == << >>
X == [app |-> "x"]
Y == [app |-> "y"]

Made(group, kind, namespace, name, uid, labels, owners, spec) ==
  [group |-> group, kind |-> kind, version |-> "v1", namespace |-> namespace, name |-> name,
   uid |-> uid, labels |-> labels, owners |-> owners, spec |-> spec]

OwnerRef(kind, uid, controller) ==
  [kind |-> kind, name |-> "o", uid |-> uid, controller |-> controller]

Pods(owners) ==
  {Made("", "Pod", ns, "p", "up", labels, o, Nobody) :
     ns \in {"a", "b"}, labels \in {Nobody, X, Y}, o \in owners}

Services ==
  {Made("", "Service", "a", "s", "us", Nobody, {}, spec) :
     spec \in {Nobody} \cup {[selector |-> {s}] : s \in {Nobody, X}}}

Plain(labels) == [matchLabels |-> labels, matchExpressions |-> {}]
Labelled == [matchLabels |-> Nobody,
        matchExpressions |-> {[key |-> "app", operator |-> "Exists", values |-> {}]}]

Policies(name) ==
  {Made("networking", "NetworkPolicy", ns, name, "n" \o name, Nobody, {}, spec) :
     ns \in {"a", "b"},
     spec \in {Nobody} \cup {[podSelector |-> {s}] : s \in {Plain(Nobody), Plain(X), Labelled}}}

(* A ReplicaSet adopts only what its selector matches; an earlier one of   *)
(* its name, and a Pod of another namespace, are not its.                  *)
ReplicaSets ==
  {Made("apps", "ReplicaSet", "a", "o", "uo", Nobody, {}, [selector |-> {s}]) :
     s \in {Plain(X), Labelled}}
Adopted == {{OwnerRef("ReplicaSet", uid, c)} : uid \in {"uo", "old"}, c \in BOOLEAN}
IsAdopted(pod, set) ==
  (\E r \in pod.owners : r.uid = set.uid) /\ pod.namespace = set.namespace
    => \A s \in set.spec.selector : K!Matches(s, pod.labels)

Jobs ==
  {Made("batch", "Job", "a", "j", "uj", Nobody, o, Nobody) :
     o \in {{}} \cup {{OwnerRef("CronJob", "uc", c)} : c \in BOOLEAN}}
CronJob == Made("batch", "CronJob", "a", "o", "uc", Nobody, {}, Nobody)

Backend(name) == [name |-> name, port |-> {}]
Ingresses ==
  {Made("networking", "Ingress", ns, "i", "ui", Nobody, {}, spec) :
     ns \in {"a", "b"},
     spec \in {Nobody, [defaultBackend |-> {Backend("s")}],
               [rules |-> {[host |-> {}, paths |-> {[path |-> {}, backend |-> Backend("s")]}]}],
               [rules |-> {[host |-> {}, paths |-> {[path |-> {}, backend |-> Backend("t")]}]}]}}

MCClusters ==
  {{p, s} : p \in Pods({{}}), s \in Services}
  \cup {{p, n, m} : p \in Pods({{}}), n \in Policies("n"), m \in Policies("m")}
  \cup {c \in {{p, r} : p \in Pods(Adopted), r \in ReplicaSets} :
          \A p, r \in c : p.kind = "Pod" /\ r.kind = "ReplicaSet" => IsAdopted(p, r)}
  \cup {{j, CronJob} : j \in Jobs}
  \cup {{i, s} : i \in Ingresses, s \in Services}

(* An object, read once; created, and to be deleted; two conditions, of    *)
(* two controllers; two Events of one controller and one of another.       *)
Subject == [key |-> "k", uid |-> "u", kind |-> "Pod", api |-> "v1", provider |-> "one"]
Recorded(controller, at) ==
  H!FromObject([regarding |-> Subject, provider |-> "one", reportingController |-> controller,
                eventTime |-> at, note |-> "note"])

World(skew, at) ==
  [subject |-> Subject,
   object  |-> [read |-> at[1] + skew["here"],
                created |-> at[2] + skew["server"], deleted |-> at[3] + skew["server"],
                conditions |-> << [millis |-> at[4] + skew["kubelet"], detail |-> "ready"],
                                  [millis |-> at[5] + skew["scheduler"], detail |-> "scheduled"] >>,
                managers |-> << >>],
   events  |-> [gaps |-> {},
                read |-> << Recorded("kubelet", at[4] + skew["kubelet"]),
                            Recorded("kubelet", at[5] + skew["kubelet"]),
                            Recorded("scheduler", at[5] + skew["scheduler"]) >>],
   when    |-> at \o << at[4], at[5], at[5] >>]

MCWorlds ==
  {World(skew, at) : skew \in [{"here", "server", "kubelet", "scheduler"} -> {0, 2}],
                     at \in [1..5 -> {5, 6}]}

MCYears == {1970, 1972, 1999, 2000, 2001, 2023, 2024, 2100, 2101}

(* An object of each of two keys, or none; the first is changed, and made  *)
(* again; the stream is live, is lost for a while, or has lost something.  *)
Row(key, uid, version) == [key |-> key, uid |-> uid, version |-> version]
Firsts  == << << >>, << Row("a", "u", 1) >>, << Row("a", "u", 2) >>, << Row("a", "w", 3) >> >>
Seconds == << << >>, << Row("b", "x", 4) >> >>
Statuses == {<< "live", {} >>, << "reconnecting", {} >>, << "live", {"gap"} >>}
MCWatches ==
  {[i \in 1..3 |-> [now    |-> IF i = 1 THEN 1 ELSE IF i = 2 THEN 1 + t[1] ELSE 1 + t[1] + t[2],
                    stream |-> [state |-> s[i][1], gaps |-> s[i][2],
                                objects |-> Firsts[a[i]] \o Seconds[b[i]]]]] :
     t \in {1, 3} \X {1, 3}, s \in [1..3 -> Statuses], b \in [1..3 -> 1..2],
     a \in {f \in [1..3 -> 1..4] : \A i \in 1..2 : f[i] <= f[i + 1] \/ f[i] = 1 \/ f[i + 1] = 1}}

(* Kinds of one name in several groups, with and without list; a group of  *)
(* two versions; groups that do not answer.                                *)
Serving(kind, plural, verbs, shorts, subs) ==
  [kind |-> kind, plural |-> plural, verbs |-> verbs, short_names |-> shorts,
   subresources |-> subs]
Thing  == Serving("Thing", "things", {"get", "list"}, {"t"}, {"scale"})
Unread == Serving("Thing", "things", {"get"}, {}, {})
Tool   == Serving("Tool", "tools", {"get", "list"}, {"t"}, {})
ServedAs(version, serves, status) == [version |-> version, serves |-> serves, status |-> status]
MCCatalogues ==
  {[g \in {"core", "apps", "ext"} |->
      CASE g = "core" -> << ServedAs("v1", core, 200) >>
        [] g = "apps" -> << ServedAs("v1", apps, status[1]), ServedAs("v1beta1", beta, 200) >>
        [] OTHER -> << ServedAs("v1", ext, status[2]) >>] :
     core \in {{}, {Thing}}, apps \in {{}, {Thing}, {Unread, Tool}, {Tool}},
     beta \in {{}, {Thing}}, ext \in {{}, {Unread}, {Tool}},
     status \in [1..2 -> {200, 503}]}
MCSelectors ==
  [kind : {{}, {"Thing"}, {"Tool"}}, resource : {{}, {"things"}, {"t"}},
   group : {{}, {"core"}, {"apps"}}, version : {{}, {"v1beta1"}}]

(* Three frames, of every class, one of them of any size; and as much of   *)
(* their bytes as arrived.                                                 *)
FrameAt(class, version, size, object) ==
  [class |-> class, version |-> version, size |-> size, object |-> object,
   ends_initial |-> FALSE, status |-> [code |-> 410, reason |-> "Gone"]]
Anyhow == {FrameAt("ADDED", 1, 2, TRUE), FrameAt("ADDED", 1, 4, TRUE),
           FrameAt("MODIFIED", 2, 2, FALSE), FrameAt("BOOKMARK", 3, 1, TRUE),
           FrameAt("BOOKMARK", 0, 1, TRUE), FrameAt("NONE", 4, 1, TRUE),
           FrameAt("ERROR", 5, 2, TRUE)}
BodiesOf(f, g) ==
  {[frames |-> << FrameAt("ADDED", 6, 1, TRUE), f, g >>, arrived |-> n] :
     n \in 0..f.size + g.size + 4}
MCBodies ==
  UNION {BodiesOf(f, g) : f \in Anyhow, g \in {FrameAt("DELETED", 7, 2, TRUE),
                                                FrameAt("DELETED", 7, 4, TRUE)}}

(* What happened to a request, and the code and reason it is answered with;*)
(* a proxy, or an old server, answers with the code alone.                 *)
Answers ==
  {<< "not-accepted", 401, "Unauthorized" >>, << "not-allowed", 403, "Forbidden" >>,
   << "no-object", 404, "NotFound" >>, << "conflict", 409, "Conflict" >>,
   << "conflict", 409, "AlreadyExists" >>, << "gone", 410, "Gone" >>,
   << "gone", 410, "Expired" >>, << "wrong", 422, "Invalid" >>, << "wrong", 400, "BadRequest" >>,
   << "not-now", 429, "TooManyRequests" >>, << "broken", 500, "InternalError" >>,
   << "broken", 503, "ServiceUnavailable" >>, << "too-long", 504, "Timeout" >>,
   << "no-method", 405, "MethodNotAllowed" >>, << "wrong", 406, "NotAcceptable" >>,
   << "wrong", 415, "UnsupportedMediaType" >>, << "wrong", 413, "RequestEntityTooLarge" >>}
Answered(code, reason, details) ==
  W!Classify([code |-> code, retry_after |-> 0,
              body |-> IF reason = "none" THEN {}
                       ELSE {[W!NoStatus EXCEPT !.code = code, !.reason = reason,
                                                !.details = details]}])
MCErrors ==
  {[is |-> Answered(a[2], r, "none"), happened |-> a[1]] :
     a \in Answers, r \in {"none"}}
  \cup {[is |-> Answered(a[2], a[3], "things"), happened |-> a[1]] : a \in Answers}
  \cup {[is |-> Answered(404, "NotFound", "namespaces"), happened |-> "no-namespace"],
        [is |-> Answered(500, "ServerTimeout", "none"), happened |-> "not-now"]}
  \cup {[is |-> [is |-> w], happened |-> "lost"] : w \in W!NeverAnswered}

(* Contexts whose names hold what an address is written with.              *)
MCContexts ==
  UNION {[1..n -> {"x", "/", "%", "2", "F", "kubernetes:"}] : n \in 1..3}
  \cup {<< "%", "2", "F", "%" >>, << "%", "2", "5", "/" >>}

(* Two namespaces with objects of one name; a Pod that names some of them, *)
(* and has an owner, or had one; a Service and a policy that select it; and*)
(* the kinds whose listing is refused.                                     *)
Namespaces == {Made("", "Namespace", P!Nowhere, ns, "n" \o ns, Nobody, {}, Nobody) : ns \in {"a", "b"}}
ConfigMaps == {Made("", "ConfigMap", ns, "c", "c" \o ns, Nobody, {}, Nobody) : ns \in {"a", "b"}}
Machine == Made("", "Node", P!Nowhere, "m", "um", Nobody, {}, Nobody)
Runs == {Nobody, [nodeName |-> {"m"}],
         [volumes |-> {[sources |-> {[kind |-> "ConfigMap", name |-> "c", optional |-> {}]}]}]}
SliceOf(uid) ==
  Made("discovery", "EndpointSlice", "a", "e", "ue", [k \in {K!ServiceName} |-> "s"], {},
       [endpoints |-> {[targetRef |-> {[kind |-> "Pod", namespace |-> "a", name |-> "p", uid |-> uid]}]}])
MCSpaces ==
  {[cluster |-> Namespaces \cup maps \cup {Machine, pod, service, set, policy,
                                        SliceOf(IF pod.namespace = "a" THEN "up" ELSE "gone")},
    unread |-> unread] :
     maps \in SUBSET ConfigMaps,
     pod \in {Made("", "Pod", ns, "p", "up", X, o, spec) :
                ns \in {"a", "b"}, o \in {{}} \cup Adopted, spec \in Runs},
     service \in {Made("", "Service", "a", "s", "us", Nobody, {}, [selector |-> {X}])},
     set \in ReplicaSets, policy \in {q \in Policies("n") : q.namespace = "a"},
     unread \in {{}, {"Pod"}, {"Namespace"}, {"ReplicaSet", "ConfigMap"}}}

(* Certificates of both versions, with lengths written in both forms; a    *)
(* cluster that answers everything, one that refuses or breaks a request   *)
(* or two, serves less, or is lost on the way.                             *)
Short(tag, body) == << tag, Len(body) >> \o body
Long(tag, body)  == << tag, 130, 0, Len(body) >> \o body
Key(n) == Short(D!Sequence, << n >>)
Certificate(key, version) ==
  Long(D!Sequence, Long(D!Sequence,
       (IF version = 1 THEN << >> ELSE Short(D!Explicit, << 2 >>)) \o Short(2, << 7, 7 >>)
       \o Short(D!Sequence, << >>) \o Short(D!Sequence, << 9 >>) \o Long(D!Sequence, << 4 >>)
       \o Short(D!Sequence, << 5 >>) \o key \o Short(3, << >>)) \o Short(D!Sequence, << 1 >>))
Paths == {"/version", "/api", "/apis", "/api/v1", "kube-system", "authentication", "review", "authorization"}
Everything == {"core", "namespaces", "watch", "patch", "log", "authentication", "review",
               "authorization", "access-review"}
Well == [p \in Paths |-> 200]
WorldOf(n, answers, garbled, serves, lasts, connects) ==
  [uid |-> "uid" \o ToString(n), key |-> Key(n), user |-> "me", certificate |-> Certificate(Key(n), n),
   shown |-> Certificate(Key(2), 2), answers |-> answers, garbled |-> garbled, serves |-> serves,
   lasts |-> lasts, connects |-> connects]
Fine(n) == WorldOf(n, Well, {}, Everything, 9, "yes")
Troubled ==
  {WorldOf(1, Well, {}, Everything, n, "yes") : n \in 0..8}
  \cup {WorldOf(1, [Well EXCEPT ![p] = a, ![q] = b], {}, Everything, 9, "yes") :
          p, q \in Paths, a \in {401, 403, 404, 503}, b \in {200, 404}}
  \cup {WorldOf(1, [Well EXCEPT ![p] = a], {}, Everything \ {less}, 9, "yes") :
          p \in Paths, a \in {200, 403, 404}, less \in Everything}
  \cup {WorldOf(1, Well, {p}, Everything \ {less}, n, "yes") : p \in Paths, less \in {"none", "review"}, n \in 5..9}
  \cup {WorldOf(1, Well, {}, Everything, 9, c) : c \in {"not granted", "no", "no handshake"}}
MCAnswering == {<< w, Fine(n) >> : w \in Troubled, n \in 1..2}
Host(name) == [name |-> name, dots |-> 0]
MCClients ==
  {[endpoint |-> [scheme |-> e[1], verifies |-> e[2], host |-> Host(h), port |-> 443], check |-> c] :
     e \in {<< "https", TRUE >>, << "https", FALSE >>, << "http", FALSE >>},
     h \in {"a"}, c \in {"granted"}}
  \cup {[endpoint |-> [scheme |-> "https", verifies |-> TRUE, host |-> Host("b"), port |-> 6443], check |-> "ask"]}

(* Two machines made from one image, whose address and hostname come again;*)
(* Pods whose containers are there or not yet, of one tag and of one or two*)
(* contents; addresses that come back; volumes whose handles come again; a *)
(* firmware that states nothing; and as much of each as was read.          *)
Says(names, value, key, thing) ==
  E!Path(names) :> [value |-> value, key |-> key, thing |-> thing]
Label(label, value, key) ==
  E!LabelPath(label) :> [value |-> << value >>, key |-> key, thing |-> "here"]
SaysNothing == [path \in {} |-> Nothing]

Stater(group, kind, uid, read, whole) ==
  LET back == {path \in DOMAIN whole : path[1][1] \in read \cup {"metadata"}}
  IN  [group |-> group, kind |-> kind, uid |-> uid, name |-> uid, read |-> read, whole |-> whole,
       fields |-> [path \in back |-> whole[path].value]]

Zone == << "topology", "/", "zone" >>
OldZone == << "beta", "/", "zone" >>
Hostname == << "kubernetes", "/", "hostname" >>
MachineOf(uid, read, provider, zones, uuid) ==
  Stater("core", "Node", uid, read,
    (IF provider THEN Says(<< "spec", "providerID" >>, << "any", "://", "/", "z", "/", uid >>,
                           "provider-id", uid) ELSE SaysNothing)
    @@ Says(<< "status", "addresses", "0", "type" >>, << "InternalIP" >>, "none", uid)
    @@ Says(<< "status", "addresses", "0", "address" >>, << "10.0.0.1" >>, "address", uid)
    @@ Says(<< "status", "addresses", "1", "type" >>, << "Hostname" >>, "none", uid)
    @@ Says(<< "status", "addresses", "1", "address" >>, << "m" >>, "address", uid)
    @@ Says(<< "status", "nodeInfo", "systemUUID" >>, uuid, "system-uuid", uid)
    @@ Says(<< "status", "nodeInfo", "machineID" >>, << "image" >>, "machine-id", uid)
    @@ Label(Hostname, "m", "hostname") @@ zones)
StaterMachines(uid) ==
  {MachineOf(uid, read, provider, zones, uuid) :
     read \in SUBSET {"spec", "status"}, provider \in BOOLEAN, uuid \in {<< >>, << uid >>},
     zones \in {SaysNothing, Label(Zone, "z", "zone"), Label(OldZone, "z", "zone"),
               Label(Zone, "z", "zone") @@ Label(OldZone, "y", "none")}}

Container(uid, list, at, started, content) ==
  Says(<< "status", list, at, "name" >>, << "app" \o at >>, "none", uid)
  @@ Says(<< "status", list, at, "containerID" >>,
          IF started THEN << "runtime", "://", uid \o list \o at >> ELSE << >>,
          "container-id", uid \o list \o at)
  @@ Says(<< "status", list, at, "imageID" >>,
          IF started THEN << "sha256", content >> ELSE << >>, "image-id", content)
  @@ Says(<< "status", list, at, "image" >>, << "app:1" >>, "image", content)
StaterPods(uid) ==
  {Stater("core", "Pod", uid, read, first @@ second @@ third) :
     read \in {{}, {"spec", "status"}},
     first \in {SaysNothing} \cup {Container(uid, "containerStatuses", "0", s, c) :
                                    s \in BOOLEAN, c \in {"one", "two"}},
     second \in {SaysNothing, Container(uid, "initContainerStatuses", "0", TRUE, "one")},
     third \in {SaysNothing, Container(uid, "ephemeralContainerStatuses", "0", FALSE, "two")}}

Balanced(group, kind, uid) ==
  {Stater(group, kind, uid, read,
     Says(<< "status", "loadBalancer", "ingress", "0", "ip" >>, ip, "load-balancer-address", uid)
     @@ (IF host THEN Says(<< "status", "loadBalancer", "ingress", "1", "hostname" >>, << "lb" >>,
                           "load-balancer-address", uid) ELSE SaysNothing)) :
     read \in {{"spec"}, {"spec", "status"}}, ip \in {<< >>, << "10.0.0.1" >>}, host \in BOOLEAN}
VolumeOf(driver, handle) ==
  Says(<< "spec", "csi", "driver" >>, << driver >>, "volume-driver", driver)
  @@ Says(<< "spec", "csi", "volumeHandle" >>, << handle >>, "volume-handle", << driver, handle >>)
  @@ Says(<< "spec", "csi", "fsType" >>, << >>, "volume-filesystem", << driver, handle >>)
Volumes(uid) ==
  {Stater("core", "PersistentVolume", uid, read, csi) :
     read \in {{}, {"spec"}},
     csi \in {SaysNothing} \cup {VolumeOf(d, h) : d \in {"d", "e"}, h \in {"h", uid}}}

(* The volumes of two drivers; and machines whose firmware states no UUID. *)
TwoDrivers == {{a, b} : a \in Volumes("v1"), b \in Volumes("v2")}
NoUuid ==
  {{MachineOf(uid, {"spec", "status"}, TRUE, SaysNothing, << >>) : uid \in {"m1", "m2"}}}

MCStating ==
  {{a, b} : a \in StaterMachines("m1"), b \in StaterMachines("m2")}
  \cup {{a, b} : a \in StaterPods("p1"), b \in StaterPods("p2")}
  \cup {{a, b} : a \in Balanced("core", "Service", "s"), b \in Balanced("networking", "Ingress", "i")}
  \cup TwoDrivers
=============================================================================
