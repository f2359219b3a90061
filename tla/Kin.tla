--------------------------------- MODULE Kin ---------------------------------
(***************************************************************************)
(* The relationships between objects (relationship.rs, workload.rs,        *)
(* adapter/, the references of redaction.rs) and how the second object of  *)
(* an edge is looked for (`two_sided`, relations.rs; LabelSelector,        *)
(* index.rs).                                                              *)
(*                                                                         *)
(* An object is its group and kind, its namespace, name, uid, labels,      *)
(* owner references, and the fields a rule reads.  A field is the set of   *)
(* what it states: empty where it is absent, of one member where it holds  *)
(* a name, of its entries where it is a list.  Where in a list an entry    *)
(* stands, and the path an edge cites for it, are left out.                *)
(***************************************************************************)
EXTENDS Naturals, FiniteSets

Nowhere == "no namespace"
Unstated == "unstated"
Core == ""
Blank == ""

Of(fields, f) == IF f \in DOMAIN fields THEN fields[f] ELSE {}
Field(o, f) == Of(o.spec, f)
Is(o, group, kind) == o.group = group /\ o.kind = kind

-----------------------------------------------------------------------------
(* Edges.  What an edge rests on is its class of evidence, and `also` what *)
(* qualifies it.                                                           *)

Relations == {
  "owned-by", "controlled-by", "owns", "controls", "scheduled-on", "selects", "selected-by",
  "selector-matches", "uses-service", "represented-by", "endpoint-for", "routes-to",
  "routed-from", "uses-tls-secret", "uses-ingress-class", "attaches-to", "uses-gateway-class",
  "runs-as", "mounts", "bound-to", "uses-storage-class", "references-config",
  "references-secret", "uses-secret", "uses-image-pull-secret", "binds", "protected-by"}

Target(kind, namespace, name, uid) ==
  [kind |-> kind, namespace |-> namespace, name |-> name, uid |-> uid]
OfObject(o) == Target(o.kind, o.namespace, o.name, o.uid)
ClusterWide(kind, name) == Target(kind, Nowhere, name, Unstated)
Beside(o, kind, name) == Target(kind, o.namespace, name, Unstated)

Edge(o, relation, target, evidence, also) ==
  [source |-> OfObject(o), relation |-> relation, target |-> target,
   evidence |-> evidence, also |-> also]

IsAsserted(edge) == edge.evidence \in {"native-field", "owner-reference"}

(* `reference_edge`: a name, of a namespace's object, in a field.          *)
Reference(o, relation, kind, name, also) ==
  Edge(o, relation, Beside(o, kind, name), "native-field", also)
ToCluster(o, relation, kind, name, also) ==
  Edge(o, relation, ClusterWide(kind, name), "native-field", also)

-----------------------------------------------------------------------------
(* What one object states of itself.                                       *)

OwnerEdges(o) ==
  UNION {{Edge(o, relation, Target(r.kind, o.namespace, r.name, r.uid), "owner-reference", {}) :
             relation \in {"owned-by"} \cup IF r.controller THEN {"controlled-by"} ELSE {}} :
           r \in o.owners}

(* A ConfigMap or a Secret, and whether it is optional where that is said. *)
Read(o, entry) ==
  Reference(o, IF entry.kind = "Secret" THEN "references-secret" ELSE "references-config",
            entry.kind, entry.name, entry.optional)

VolumeEdges(o, volume) ==
  {Reference(o, "mounts", "PersistentVolumeClaim", n, {}) : n \in Of(volume, "claim")}
  \cup {Read(o, e) : e \in Of(volume, "sources")}

ContainerEdges(o, container) ==
  {Read(o, e) : e \in Of(container, "envFrom") \cup Of(container, "env")}

PodSpecEdges(o, spec) ==
  {Reference(o, "runs-as", "ServiceAccount", n, {}) : n \in Of(spec, "serviceAccountName")}
  \cup {Reference(o, "uses-image-pull-secret", "Secret", n, {}) : n \in Of(spec, "imagePullSecrets")}
  \cup (UNION {VolumeEdges(o, v) : v \in Of(spec, "volumes")})
  \cup (UNION {ContainerEdges(o, c) : c \in UNION {Of(spec, list) :
                  list \in {"containers", "initContainers", "ephemeralContainers"}}})

PodEdges(o) ==
  {ToCluster(o, "scheduled-on", "Node", n, {}) : n \in Field(o, "nodeName")}
  \cup PodSpecEdges(o, o.spec)

StorageClassEdge(o) ==
  {ToCluster(o, "uses-storage-class", "StorageClass", n, {}) :
     n \in Field(o, "storageClassName") \ {Blank}}

ClaimEdges(o) ==
  StorageClassEdge(o)
  \cup {ToCluster(o, "bound-to", "PersistentVolume", n, Field(o, "phase")) :
          n \in Field(o, "volumeName") \ {Blank}}

BindingEdges(o) ==
  {Edge(o, "binds", IF r.kind = "Role" THEN Beside(o, "Role", r.name) ELSE ClusterWide(r.kind, r.name),
        "native-field", {r.kind}) :
     r \in {r \in Field(o, "roleRef") : r.kind \in {"Role", "ClusterRole"}}}

EdgesOf(o) ==
  OwnerEdges(o) \cup
    CASE Is(o, Core, "Pod") -> PodEdges(o)
      [] Is(o, Core, "PersistentVolumeClaim") -> ClaimEdges(o)
      [] Is(o, Core, "PersistentVolume") -> StorageClassEdge(o)
      [] Is(o, "rbac", "RoleBinding") \/ Is(o, "rbac", "ClusterRoleBinding") -> BindingEdges(o)
      [] OTHER -> {}

(* `secret_references`, of the two relations `stated_edges` takes of it.   *)
AccountSecrets(o) ==
  IF o.kind # "ServiceAccount" THEN {}
  ELSE {Reference(o, "uses-secret", "Secret", n, {}) : n \in Field(o, "secrets")}
       \cup {Reference(o, "uses-image-pull-secret", "Secret", n, {}) : n \in Field(o, "imagePullSecrets")}

BackendEdge(o, backend, also) ==
  Reference(o, "routes-to", "Service", backend.name, also \cup backend.port)

IngressEdges(o) ==
  {ToCluster(o, "uses-ingress-class", "IngressClass", n, {}) : n \in Field(o, "ingressClassName")}
  \cup {Reference(o, "uses-tls-secret", "Secret", t.secretName, t.hosts) : t \in Field(o, "tls")}
  \cup {BackendEdge(o, b, {}) : b \in Field(o, "defaultBackend")}
  \cup (UNION {{BackendEdge(o, p.backend, r.host \cup p.path) : p \in r.paths} : r \in Field(o, "rules")})

(* The registry (adapter/), whose one member covers the Gateway API in the *)
(* versions it knows; a reference may name a namespace and a kind.         *)
GatewayKinds == {"Gateway", "HTTPRoute", "GRPCRoute"}
Compatibility(o) ==
  IF o.group # "gateway" \/ o.kind \notin GatewayKinds THEN "not covered"
  ELSE IF o.version \in {"v1alpha2", "v1beta1", "v1"} THEN "adapted" ELSE "unknown version"

Named(o, relation, r, kind) ==
  Edge(o, relation,
       Target(IF r.kind = Unstated THEN kind ELSE r.kind,
              IF r.namespace = Unstated THEN o.namespace ELSE r.namespace, r.name, Unstated),
       "native-field", {"adapter"})

GatewayEdges(o) ==
  IF o.kind = "Gateway"
  THEN {ToCluster(o, "uses-gateway-class", "GatewayClass", n, {"adapter"}) :
          n \in Field(o, "gatewayClassName")}
  ELSE {Named(o, "attaches-to", r, "Gateway") : r \in Field(o, "parentRefs")}
       \cup {Named(o, "routes-to", r, "Service") : r \in Field(o, "backendRefs")}

IsCheckable(edge) == edge.evidence # "inference" /\ "inference" \notin edge.also

Adapted(o) ==
  IF Compatibility(o) = "adapted" THEN {e \in GatewayEdges(o) : IsCheckable(e)} ELSE {}

GoverningService(o) ==
  {Reference(o, "uses-service", "Service", n, {}) : n \in Field(o, "serviceName") \ {Blank}}

(* An endpoint without a target stays an endpoint, and gives no edge.      *)
EndpointTargets(o) ==
  {Edge(o, "endpoint-for",
        Target(IF r.kind = Unstated THEN "Pod" ELSE r.kind,
               IF r.namespace = Unstated THEN o.namespace ELSE r.namespace, r.name, r.uid),
        "native-field", {}) :
     r \in UNION {Of(e, "targetRef") : e \in Field(o, "endpoints")}}

PodTemplates == ({"apps"} \X {"Deployment", "ReplicaSet", "StatefulSet", "DaemonSet"})
                \cup ({"batch"} \X {"Job", "CronJob"})

TemplateDependencies(o) ==
  IF <<o.group, o.kind>> \in PodTemplates
  THEN UNION {PodSpecEdges(o, spec) : spec \in Field(o, "template")} ELSE {}

StatedEdges(o) ==
  EdgesOf(o) \cup AccountSecrets(o) \cup Adapted(o) \cup TemplateDependencies(o)
  \cup (IF Is(o, "networking", "Ingress") THEN IngressEdges(o) ELSE {})
  \cup (IF Is(o, "apps", "StatefulSet") THEN GoverningService(o) ELSE {})
  \cup (IF Is(o, "discovery", "EndpointSlice") THEN EndpointTargets(o) ELSE {})

-----------------------------------------------------------------------------
(* Selectors.                                                              *)

Satisfies(labels, equalities) ==
  \A k \in DOMAIN equalities : k \in DOMAIN labels /\ labels[k] = equalities[k]

Holds(labels, r) ==
  CASE r.operator = "In"           -> r.key \in DOMAIN labels /\ labels[r.key] \in r.values
    [] r.operator = "NotIn"        -> r.key \notin DOMAIN labels \/ labels[r.key] \notin r.values
    [] r.operator = "Exists"       -> r.key \in DOMAIN labels
    [] r.operator = "DoesNotExist" -> r.key \notin DOMAIN labels

(* `LabelSelector`: equalities and expressions.                            *)
Equalities(labels) == [matchLabels |-> labels, matchExpressions |-> {}]
Readable(s) ==
  \A r \in s.matchExpressions :
    \/ r.operator \in {"In", "NotIn"} /\ r.values # {}
    \/ r.operator \in {"Exists", "DoesNotExist"} /\ r.values = {}
IsEmpty(s) == DOMAIN s.matchLabels = {} /\ s.matchExpressions = {}
Matches(s, labels) ==
  Satisfies(labels, s.matchLabels) /\ \A r \in s.matchExpressions : Holds(labels, r)

NotEvaluated == [evaluated |-> FALSE, edges |-> {}]
Evaluated(edges) == [evaluated |-> TRUE, edges |-> edges]

(* `selected_labels`.                                                      *)
Reaches(equalities, pod, namespace) ==
  pod.namespace = namespace /\ Satisfies(pod.labels, equalities)

-----------------------------------------------------------------------------
(* The rules that read a second object.                                    *)

Selects(service, candidates) ==
  {Edge(service, "selects", OfObject(p), "selector", {}) :
     p \in {p \in candidates : \E s \in Field(service, "selector") :
               DOMAIN s # {} /\ Reaches(s, p, service.namespace)}}

(* A mutated form of the next: no selector is every Pod.                   *)
SelectedByEmpty(pod, candidates) ==
  {Edge(pod, "selected-by", OfObject(s), "selector", {"reversed"}) :
     s \in {s \in candidates : /\ Is(s, Core, "Service")
                               /\ \E m \in Field(s, "selector") : Reaches(m, pod, s.namespace)}}

SelectedBy(pod, candidates) ==
  {Edge(pod, "selected-by", OfObject(s), "selector", {"reversed"}) :
     s \in {s \in candidates : /\ Is(s, Core, "Service")
                               /\ \E m \in Field(s, "selector") :
                                    DOMAIN m # {} /\ Reaches(m, pod, s.namespace)}}

IsPolicy(o) == Is(o, "networking", "NetworkPolicy")

(* `policy_selector`: the policies whose selector is read at all.          *)
Evaluable(policy) ==
  /\ IsPolicy(policy) /\ policy.namespace # Nowhere
  /\ Field(policy, "podSelector") # {}
  /\ \A s \in Field(policy, "podSelector") : s.matchExpressions = {}
Governs(policy, pod) ==
  \E s \in Field(policy, "podSelector") : Reaches(s.matchLabels, pod, policy.namespace)
PolicyEvidence(policy) ==
  {"namespace", "intent"}
  \cup {"every Pod" : s \in {s \in Field(policy, "podSelector") : DOMAIN s.matchLabels = {}}}

PolicySelects(policy, candidates) ==
  IF ~ Evaluable(policy) THEN NotEvaluated
  ELSE Evaluated({Edge(policy, "selects", OfObject(p), "selector", PolicyEvidence(policy)) :
         p \in {p \in candidates : Is(p, Core, "Pod") /\ Governs(policy, p)}})

ProtectedBy(pod, candidates) ==
  LET policies == {q \in candidates : IsPolicy(q)} IN
  IF ~ Is(pod, Core, "Pod") \/ \E q \in policies : ~ Evaluable(q) THEN NotEvaluated
  ELSE Evaluated({Edge(pod, "protected-by", OfObject(q), "selector", PolicyEvidence(q)) :
         q \in {q \in policies : Governs(q, pod)}})

Owns(owner, candidates) ==
  LET claims(c) == {r \in c.owners : r.uid = owner.uid /\ r.kind = owner.kind}
      nearby    == {c \in candidates : owner.namespace # Nowhere => c.namespace = owner.namespace}
      named(r)  == {"owns"} \cup IF r.controller THEN {"controls"} ELSE {}
  IN  IF owner.uid = Unstated THEN {}
      ELSE UNION {UNION {{Edge(owner, relation, OfObject(c), "owner-reference", {"reversed"}) :
                            relation \in named(r)} : r \in claims(c)} : c \in nearby}

ServiceName == "service-name"

EndpointSlices(service, candidates) ==
  {Edge(service, "represented-by", OfObject(s), "convention", {}) :
     s \in {s \in candidates : Reaches([k \in {ServiceName} |-> service.name], s, service.namespace)}}

RoutedFrom(service, routers) ==
  UNION {{Edge(service, "routed-from", OfObject(r), e.evidence, e.also \cup {"reversed"}) :
     e \in {e \in (IF Is(r, "networking", "Ingress") THEN IngressEdges(r) ELSE {}) \cup Adapted(r) :
              /\ e.relation = "routes-to"
              /\ e.target.kind = "Service"
              /\ e.target.name = service.name
              /\ e.target.namespace = service.namespace}} : r \in routers}

-----------------------------------------------------------------------------
(* `two_sided`: how a collection is asked for, and what is made of it.     *)

Everything == [wants |-> "everything"]
Selected(selector) == [wants |-> "selected", selector |-> selector]
OwnedBy(uid, prefilter) == [wants |-> "owned", uid |-> uid, prefilter |-> prefilter]

(* `answered_by`: an index over a live cache of the scope.                 *)
AnsweredBy(wanted, held) ==
  CASE wanted.wants = "everything" -> held
    [] wanted.wants = "selected"   -> {c \in held : Matches(wanted.selector, c.labels)}
    [] wanted.wants = "owned"      -> {c \in held : \E r \in c.owners : r.uid = wanted.uid}

(* `query`: the selector sent, which the API server evaluates.             *)
Listed(wanted, held) ==
  CASE wanted.wants = "everything" -> held
    [] wanted.wants = "selected"   -> {c \in held : Matches(wanted.selector, c.labels)}
    [] wanted.wants = "owned"      ->
         {c \in held : \A s \in wanted.prefilter : Matches(s, c.labels)}

(* `collection`, read whole: of the source's namespace.                    *)
Collection(o, group, kind, wanted, cluster, live) ==
  LET held == {c \in cluster : Is(c, group, kind) /\ c.namespace = o.namespace} IN
  IF live THEN AnsweredBy(wanted, held) ELSE Listed(wanted, held)

ChildrenOf == {
  <<"apps", "Deployment", "apps", "ReplicaSet">>, <<"apps", "ReplicaSet", Core, "Pod">>,
  <<"apps", "StatefulSet", Core, "Pod">>, <<"apps", "DaemonSet", Core, "Pod">>,
  <<"batch", "Job", Core, "Pod">>, <<"batch", "CronJob", "batch", "Job">>}

Prefilter(o) == {s \in Field(o, "selector") : Readable(s) /\ ~ IsEmpty(s)}

TwoSidedService(o, cluster, live) ==
  LET read(group, kind, wanted) == Collection(o, group, kind, wanted, cluster, live) IN
  (UNION {Selects(o, read(Core, "Pod", Selected(Equalities(s)))) :
            s \in {s \in Field(o, "selector") : DOMAIN s # {}}})
  \cup EndpointSlices(o, read("discovery", "EndpointSlice",
         Selected(Equalities([k \in {ServiceName} |-> o.name]))))
  \cup RoutedFrom(o, read("networking", "Ingress", Everything))

TwoSidedPolicy(o, cluster, live) ==
  IF ~ PolicySelects(o, {}).evaluated THEN NotEvaluated
  ELSE PolicySelects(o, UNION {Collection(o, Core, "Pod", Selected(Equalities(s.matchLabels)),
                                          cluster, live) : s \in Field(o, "podSelector")})

TwoSidedPod(o, cluster, live) ==
  LET by == ProtectedBy(o, Collection(o, "networking", "NetworkPolicy", Everything, cluster, live))
  IN [by EXCEPT !.edges = @ \cup SelectedBy(o, Collection(o, Core, "Service", Everything, cluster, live))]

Children(o, cluster, live) ==
  UNION {Owns(o, Collection(o, row[3], row[4], OwnedBy(o.uid, Prefilter(o)), cluster, live)) :
           row \in {row \in ChildrenOf : Is(o, row[1], row[2]) /\ o.uid # Unstated}}

TwoSided(o, cluster, live) ==
  CASE Is(o, Core, "Service") -> Evaluated(TwoSidedService(o, cluster, live))
    [] IsPolicy(o)            -> TwoSidedPolicy(o, cluster, live)
    [] Is(o, Core, "Pod")     -> TwoSidedPod(o, cluster, live)
    [] OTHER                  -> Evaluated(Children(o, cluster, live))

(* `derive`, of collections that come back whole.                          *)
Derive(o, cluster, live) ==
  LET second == TwoSided(o, cluster, live) IN
  [second EXCEPT !.edges = @ \cup StatedEdges(o)]

-----------------------------------------------------------------------------
(* Properties.                                                             *)

Leads(edges, relation, p) ==
  \E e \in edges : /\ e.relation = relation
                   /\ e.target.kind = p.kind /\ e.target.name = p.name
                   /\ e.target.namespace = p.namespace
                   /\ e.target.uid \in {p.uid, Unstated}

(* What each end calls the relationship, and of which objects both ends    *)
(* look: an owner whose kind has children, and a router that is an Ingress. *)
HasChildren(o, p) == \E row \in ChildrenOf : Is(o, row[1], row[2]) /\ Is(p, row[3], row[4])
Pairs(o, p) ==
  (IF HasChildren(o, p) THEN {<<"owns", "owned-by">>, <<"controls", "controlled-by">>} ELSE {})
  \cup (IF Is(p, Core, "Pod") /\ Is(o, Core, "Service") THEN {<<"selects", "selected-by">>} ELSE {})
  \cup (IF Is(p, Core, "Pod") /\ IsPolicy(o) THEN {<<"selects", "protected-by">>} ELSE {})
  \cup (IF Is(o, "networking", "Ingress") /\ Is(p, Core, "Service")
        THEN {<<"routes-to", "routed-from">>} ELSE {})

(* An end that is not evaluated says so, and claims nothing.               *)
Claims(answer, relation) ==
  answer.evaluated \/ relation \notin {"selects", "protected-by"}

(* What a cluster is: it has one object of a group, kind, namespace and    *)
(* name; an owner reference states a uid, and the name of the object of    *)
(* that uid and kind; and a controller adopts only what it selects.        *)
IsCluster(cluster) ==
  /\ \A c, d \in cluster :
       c.group = d.group /\ c.kind = d.kind /\ c.namespace = d.namespace /\ c.name = d.name => c = d
  /\ \A c \in cluster : \A r \in c.owners :
       /\ r.uid # Unstated
       /\ \A o \in cluster : r.uid = o.uid /\ r.kind = o.kind => r.name = o.name
  /\ \A c, o \in cluster :
       HasChildren(o, c) /\ c.namespace = o.namespace /\ (\E r \in c.owners : r.uid = o.uid)
         => \A s \in Prefilter(o) : Matches(s, c.labels)

(* A relationship is the same one from both of its ends, whether a         *)
(* collection is read from an index or from the API server (relations.rs   *)
(* and relationship.rs: "so that the two directions cannot disagree").     *)
EndsAgree(cluster, live) ==
  \A o, p \in cluster : \A pair \in Pairs(o, p) :
    LET here == Derive(o, cluster, live) there == Derive(p, cluster, live) IN
    Claims(here, pair[1]) /\ Claims(there, pair[2])
      => (Leads(here.edges, pair[1], p) <=> Leads(there.edges, pair[2], o))

=============================================================================
