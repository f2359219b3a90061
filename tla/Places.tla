-------------------------------- MODULE Places --------------------------------
(***************************************************************************)
(* Where an object is: the address of its place (place.rs), what is near   *)
(* it, and the edges the plugin asserts between places, among them the one *)
(* `up` climbs (spatial.rs).                                               *)
(*                                                                         *)
(* A text is a sequence of characters.  The prefix of an instance, a name, *)
(* a kind, a group and the two words of an address hold neither `/` nor    *)
(* `%`, and are one character each; the case of a kind is left out.        *)
(***************************************************************************)
EXTENDS Kin, Sequences, SequencesExt

Prefix == "kubernetes:"
Malformed == {}          \* what a text that is no address is read as

Qualify(context) == IF context = << >> THEN Malformed ELSE {<< Prefix >> \o context}
Bare(instance) ==
  IF instance # << >> /\ Head(instance) = Prefix THEN Tail(instance) ELSE instance
Normalise(instance) == Qualify(Bare(instance))

TypeSegment(kind, group) == [kind |-> kind, group |-> group]
Uri(instance, namespace, resource) ==
  [instance |-> instance, namespace |-> namespace, resource |-> resource]

ParentOf(uri) ==
  IF uri.resource # {} THEN {[uri EXCEPT !.resource = {}]}
  ELSE IF uri.namespace # {} THEN {[uri EXCEPT !.namespace = {}]}
  ELSE {}

Encode(text) ==
  FlattenSeq([i \in DOMAIN text |-> CASE text[i] = "%" -> << "%", "2", "5" >>
                                      [] text[i] = "/" -> << "%", "2", "F" >>
                                      [] OTHER         -> << text[i] >>])

HexDigits == {"2", "5", "F"}
Character(high, low) ==
  CASE high \o low = "25" -> "%" [] high \o low = "2F" -> "/" [] OTHER -> "\\" \o high \o low

DecodeOne(read, c) ==
  CASE read.escape = << >> /\ c # "%" -> [read EXCEPT !.text = Append(@, c)]
    [] read.escape = << >>            -> [read EXCEPT !.escape = << c >>]
    [] c \notin HexDigits             -> [read EXCEPT !.malformed = TRUE]
    [] Len(read.escape) = 1           -> [read EXCEPT !.escape = Append(@, c)]
    [] OTHER -> [read EXCEPT !.escape = << >>, !.text = Append(@, Character(read.escape[2], c))]
Decode(segment) ==
  LET read == FoldLeft(DecodeOne, [text |-> << >>, escape |-> << >>, malformed |-> FALSE], segment)
  IN IF read.malformed \/ read.escape # << >> THEN Malformed ELSE {read.text}

WriteType(type) ==
  IF type.group = << >> THEN type.kind ELSE type.kind \o << "." >> \o type.group
ReadType(segment) ==
  LET dots == {i \in DOMAIN segment : segment[i] = "."}
      cut  == IF dots = {} THEN Len(segment) + 1 ELSE CHOOSE i \in dots : \A j \in dots : i <= j
      kind == SubSeq(segment, 1, cut - 1)
  IN IF kind = << >> THEN Malformed ELSE {TypeSegment(kind, SubSeq(segment, cut + 1, Len(segment)))}

(* `Display`, without the scheme.                                          *)
Render(uri) ==
  LET context == Encode(Bare(uri.instance))
      within  == UNION {{<< "/", "ns", "/" >> \o Encode(n)} : n \in uri.namespace}
      holder  == IF within = {} THEN << "/", "cluster" >> ELSE CHOOSE w \in within : TRUE
      named   == {holder \o << "/" >> \o WriteType(r.type) \o << "/" >> \o Encode(r.name) :
                    r \in uri.resource}
  IN context \o CASE uri.resource # {}  -> (CHOOSE n \in named : TRUE)
                  [] uri.namespace # {} -> holder \o << "/" >>
                  [] OTHER              -> << "/" >>

Segments(text) ==
  LET all == FoldLeft(LAMBDA acc, c : IF c = "/" THEN Append(acc, << >>)
                                      ELSE [acc EXCEPT ![Len(acc)] = Append(@, c)],
                      << << >> >>, text)
  IN IF Last(all) = << >> THEN Front(all) ELSE all

(* A mutated form of what the next does of the authority.                  *)
NormalisedAuthority(text) == Normalise(text)
Authority(text) == Qualify(text)

NonEmpty(text) == IF text = << >> THEN Malformed ELSE {text}

Parse(text) ==
  LET segments == Segments(text)
      read == [i \in DOMAIN segments |-> Decode(segments[i])]
      At(i) == CHOOSE t \in read[i] : TRUE
      n == Len(segments)
      instances == IF n = 0 THEN Malformed ELSE Authority(At(1))
      Resource(type, name) == {[type |-> t, name |-> m] : t \in ReadType(type), m \in NonEmpty(name)}
  IN IF \E i \in DOMAIN read : read[i] = Malformed THEN Malformed
     ELSE CASE n = 1 -> {Uri(a, {}, {}) : a \in instances}
            [] n = 3 /\ At(2) = << "ns" >> -> {Uri(a, {m}, {}) : a \in instances, m \in NonEmpty(At(3))}
            [] n = 4 /\ At(2) = << "cluster" >> ->
                 {Uri(a, {}, {r}) : a \in instances, r \in Resource(At(3), At(4))}
            [] n = 5 /\ At(2) = << "ns" >> ->
                 {Uri(a, {m}, {r}) : a \in instances, m \in NonEmpty(At(3)), r \in Resource(At(4), At(5))}
            [] OTHER -> Malformed

-----------------------------------------------------------------------------
(* Places, and the roles a kind also answers to.                           *)

GroupOf(kind) ==
  CASE kind \in {"Deployment", "ReplicaSet", "StatefulSet", "DaemonSet"} -> "apps"
    [] kind \in {"Job", "CronJob"} -> "batch"
    [] kind \in {"Ingress", "NetworkPolicy"} -> "networking"
    [] kind = "EndpointSlice" -> "discovery"
    [] kind = "StorageClass" -> "storage"
    [] kind \in {"Role", "ClusterRole", "RoleBinding", "ClusterRoleBinding"} -> "rbac"
    [] kind = "PodDisruptionBudget" -> "policy"
    [] kind \in GatewayKinds \cup {"GatewayClass"} -> "gateway"
    [] OTHER -> Core

RoleOverlay == [
  workload           |-> {"Pod", "Deployment", "ReplicaSet", "StatefulSet", "DaemonSet", "Job", "CronJob"},
  compute_node       |-> {"Node"},
  network_endpoint   |-> {"Service", "Ingress", "Gateway", "HTTPRoute"},
  service_endpoint   |-> {"Endpoints", "EndpointSlice"},
  configuration      |-> {"ConfigMap"},
  secret             |-> {"Secret"},
  identity           |-> {"ServiceAccount", "Role", "ClusterRole", "RoleBinding", "ClusterRoleBinding"},
  storage            |-> {"PersistentVolumeClaim", "PersistentVolume", "StorageClass"},
  policy             |-> {"NetworkPolicy", "PodDisruptionBudget", "ResourceQuota", "LimitRange"}]
RolesOf(group, kind) ==
  {role \in DOMAIN RoleOverlay : kind \in RoleOverlay[role] /\ group = GroupOf(kind)}

Text(name) == << name >>
TypeOf(group, kind) == TypeSegment(Text(kind), IF group = Core THEN << >> ELSE Text(group))
InScope(namespace) == IF namespace = Nowhere THEN {} ELSE {Text(namespace)}

OfIdentity(instance, o) ==
  [uri |-> IF Is(o, Core, "Namespace") /\ o.namespace = Nowhere
           THEN Uri(instance, {Text(o.name)}, {})
           ELSE Uri(instance, InScope(o.namespace),
                    {[type |-> TypeOf(o.group, o.kind), name |-> Text(o.name)]}),
   kind |-> o.kind, identity |-> {OfObject(o)}, roles |-> RolesOf(o.group, o.kind)]

OfTarget(instance, target) ==
  [uri |-> Uri(instance, InScope(target.namespace),
               {[type |-> TypeOf(GroupOf(target.kind), target.kind), name |-> Text(target.name)]}),
   kind |-> target.kind,
   identity |-> IF target.uid = Unstated THEN {} ELSE {target},
   roles |-> RolesOf(GroupOf(target.kind), target.kind)]

Up(place) == ParentOf(place.uri)
IsSameAddress(p, q) == p.uri = q.uri

-----------------------------------------------------------------------------
(* What is near.                                                           *)

Waypoint(relation) == IF relation = "represented-by" THEN "has-endpoints" ELSE relation
RelationOf(waypoint) ==
  CASE waypoint = "has-endpoints"    -> {"represented-by"}
    [] waypoint = "shares-namespace" -> {}
    [] OTHER                         -> {waypoint}
Waypoints == {Waypoint(r) : r \in Relations} \cup {"shares-namespace"}

Proximity(waypoint) ==
  CASE waypoint \in {"selects", "selected-by", "selector-matches", "endpoint-for"} -> 1
    [] waypoint = "has-endpoints" -> 2
    [] waypoint \in {"routes-to", "routed-from", "attaches-to"} -> 3
    [] waypoint = "protected-by" -> 4
    [] waypoint = "scheduled-on" -> 5
    [] waypoint \in {"controlled-by", "owned-by", "owns", "controls"} -> 6
    [] waypoint = "shares-namespace" -> 8
    [] OTHER -> 7

Neighbour(place, edge, inbound) ==
  [place |-> place, via |-> Waypoint(edge.relation), asserted |-> IsAsserted(edge),
   inbound |-> inbound]

Outbound(focus, edge) == focus.identity = {} \/ focus.identity = {edge.source}

(* The source of an edge is an identity, of an object of `held`.           *)
SourceOf(instance, edge, held) ==
  OfIdentity(instance, CHOOSE o \in held : OfObject(o) = edge.source)

Reached(instance, focus, edges, held) ==
  {Neighbour(OfTarget(instance, e.target), e, FALSE) : e \in {e \in edges : Outbound(focus, e)}}
  \cup {Neighbour(SourceOf(instance, e, held), e, TRUE) :
          e \in {e \in edges : /\ ~ Outbound(focus, e)
                               /\ IsSameAddress(OfTarget(instance, e.target), focus)}}

(* Of one rank, they are in the order of their addresses, which is left    *)
(* to TLC.                                                                 *)
Nearer(m, n) ==
  \/ Proximity(m.via) < Proximity(n.via)
  \/ Proximity(m.via) = Proximity(n.via) /\ m.asserted /\ ~ n.asserted
Ranked(neighbours) == SortSeq(SetToSeq(neighbours), Nearer)

Follow(neighbours, word) ==
  IF word \notin Waypoints THEN Malformed
  ELSE {SelectSeq(Ranked(neighbours), LAMBDA n : n.via = word)}

-----------------------------------------------------------------------------
(* The edges the plugin asserts (spatial.rs).                              *)

Cluster == "cluster"
Templated == {"Deployment", "ReplicaSet", "StatefulSet", "DaemonSet", "Job", "CronJob"}
Related ==
  {<< "Service", "Pod" >>, << "Service", "EndpointSlice" >>, << "EndpointSlice", "Pod" >>,
   << "Ingress", "Service" >>, << "NetworkPolicy", "Pod" >>, << "Pod", "Node" >>,
   << "ReplicaSet", "Deployment" >>, << "Job", "CronJob" >>, << "StatefulSet", "Service" >>,
   << "PersistentVolumeClaim", "PersistentVolume" >>,
   << "Ingress", "Secret" >>, << "ServiceAccount", "Secret" >>}
  \cup {"PersistentVolumeClaim", "PersistentVolume"} \X {"StorageClass"}
  \cup {"Pod"} \X {"ReplicaSet", "StatefulSet", "DaemonSet", "Job"}
  \cup (Templated \cup {"Pod"})
         \X {"ServiceAccount", "ConfigMap", "Secret", "PersistentVolumeClaim"}
InNamespaceShapes ==
  (Templated \cup {"Pod", "Service", "EndpointSlice", "Ingress", "ServiceAccount", "ConfigMap",
                   "Secret", "PersistentVolumeClaim"}) \X {"Namespace"}
InClusterShapes == {"Namespace", "Node", "PersistentVolume", "StorageClass"} \X {Cluster}
Shapes == Related \cup InNamespaceShapes \cup InClusterShapes

(* `parent_of`: what `up` of a kind reaches.                               *)
ParentKind(kind) == {s[2] : s \in {s \in InNamespaceShapes \cup InClusterShapes : s[1] = kind}}
KindsRead == UNION {{s[1], s[2]} : s \in Shapes} \ {Cluster}
Declares(from, to) == << from, to >> \in Shapes

InventoryOf(cluster, unread) == {o \in cluster : o.kind \in KindsRead \ unread}
Listing(inventory, group, kind) == {o \in inventory : Is(o, group, kind)}

Resolve(inventory, kind, group, namespace, name) ==
  {o \in Listing(inventory, group, kind) : o.name = name /\ o.namespace = namespace}

DerivedOf(o, inventory) ==
  StatedEdges(o)
  \cup (IF IsPolicy(o) THEN PolicySelects(o, Listing(inventory, Core, "Pod")).edges ELSE {})
  \cup (IF Is(o, Core, "Service")
        THEN Selects(o, Listing(inventory, Core, "Pod"))
             \cup EndpointSlices(o, Listing(inventory, "discovery", "EndpointSlice"))
        ELSE {})

ResolveFarEnd(edge, inventory) ==
  LET t == edge.target
      found == Resolve(inventory, t.kind, GroupOf(t.kind), t.namespace, t.name)
  IN IF t.uid # Unstated \/ found = {} THEN edge
     ELSE [edge EXCEPT !.target = OfObject(CHOOSE o \in found : TRUE)]

Asserted(o, relation, to, key) ==
  [relation |-> relation, from |-> o.kind, source |-> o.uid, to |-> to, target |-> key]

InNamespace(o, inventory) ==
  IF ~ Declares(o.kind, "Namespace") \/ o.namespace = Nowhere THEN << >>
  ELSE SetToSeq({Asserted(o, "in-namespace", "Namespace", n.uid) :
         n \in {n \in Resolve(inventory, "Namespace", Core, Nowhere, o.namespace) : n.uid # Unstated}})

InCluster(o, instance) ==
  IF ~ Declares(o.kind, Cluster) \/ o.namespace # Nowhere THEN << >>
  ELSE << Asserted(o, "in-cluster", Cluster, instance) >>

(* `edges_of`.                                                             *)
Exits(o, inventory, instance) ==
  LET edges == {ResolveFarEnd(e, inventory) : e \in DerivedOf(o, inventory)}
      near  == Reached(instance, OfIdentity(instance, o), edges, inventory)
      exits == SelectSeq(Ranked(near), LAMBDA n :
                 Declares(o.kind, n.place.kind) /\ n.place.identity # {})
      Exit(n) == Asserted(o, n.via, n.place.kind, (CHOOSE t \in n.place.identity : TRUE).uid)
  IN IF o.uid = Unstated THEN << >>
     ELSE [i \in DOMAIN exits |-> Exit(exits[i])]
          \o InNamespace(o, inventory) \o InCluster(o, instance)
=============================================================================
