-------------------------------- MODULE Evidence -------------------------------
(***************************************************************************)
(* What an object states about the systems around Kubernetes (evidence.rs  *)
(* of both crates): the identifiers of machines, containers, images,       *)
(* addresses and volumes, how far each of them goes, and which of them     *)
(* could not be read.                                                      *)
(*                                                                         *)
(* A text is a sequence of its parts, so that what separates them ("/",    *)
(* "~", "://") can be told.  An object is its kind, the stanzas that came  *)
(* back, and the text at each path; an entry of a list is a step of a path.*)
(***************************************************************************)
EXTENDS Naturals, Sequences, SequencesExt, FiniteSets, TLC

Path(names) == [i \in 1..Len(names) |-> << names[i] >>]
FieldAt(object, path) == IF path \in DOMAIN object.fields THEN {object.fields[path]} ELSE {}
Filled(object, path)  == FieldAt(object, path) \ {<< >>}

(* The entries of a list, numbered from 0.                                 *)
Entries(object, list) ==
  LET at == {path[Len(list) + 1] : path \in {p \in DOMAIN object.fields : IsStrictPrefix(list, p)}}
  IN  [i \in 1..Cardinality(at) |-> list \o << << ToString(i - 1) >> >>]

-----------------------------------------------------------------------------
(* One fact.                                                               *)

IsDistinguishing(strength) == strength = "distinguishing"

(* An identifier is cut at its first "://" and no further.                 *)
Shape(raw) ==
  LET at == SelectInSeq(raw, LAMBDA part : part = "://")
  IN  IF at = 0 THEN {}
      ELSE {[scheme |-> SubSeq(raw, 1, at - 1), path |-> SubSeq(raw, at + 1, Len(raw))]}

Schemed == {"provider-id", "container-id", "image-id"}

(* The pointer a value is cited at; a label holds "/" of its own.          *)
Pointer(path) == FlattenSeq([i \in 1..Len(path) |-> << "/" >> \o path[i]])

(* A mutated form of the next: the key of a label as it is.                *)
LabelPointerUnescaped(label) == Pointer(Path(<< "metadata", "labels" >>) \o << label >>)

LabelPointer(label) ==
  LET escaped == [i \in 1..Len(label) |->
                    CASE label[i] = "~" -> << "~", "0" >>
                      [] label[i] = "/" -> << "~", "1" >>
                      [] OTHER -> << label[i] >>]
  IN  Pointer(Path(<< "metadata", "labels" >>) \o << FlattenSeq(escaped) >>)

Stated(object, key, qualifier, value, source, strength) ==
  [subject |-> object.uid, key |-> key, qualifier |-> qualifier, value |-> value,
   source |-> source, strength |-> strength, class |-> "native_field",
   shape |-> IF key \in Schemed THEN Shape(value) ELSE {}]

IsLookupKey(item) == IsDistinguishing(item.strength)

(* A stanza that did not come back says nothing of what is in it.          *)
ReadOutcome(object, stanza) == IF stanza \in object.read THEN "absent" ELSE "not_queried"

Unobserved(object, key, stanza) == [key |-> key, outcome |-> ReadOutcome(object, stanza)]

(* The item a field becomes, or the gap it leaves.                         *)
ItemOf(object, key, values, path, strength) ==
  IF values = {} THEN << >>
  ELSE << Stated(object, key, {}, CHOOSE v \in values : TRUE, Pointer(path), strength) >>

GapOf(items, object, key, stanza) ==
  IF \E i \in 1..Len(items) : items[i].key = key THEN << >>
  ELSE << Unobserved(object, key, stanza) >>

-----------------------------------------------------------------------------
(* The rules, each one kind's own fields.                                  *)

NodeInfo(object, key, field, strength) ==
  LET path == Path(<< "status", "nodeInfo", field >>)
  IN  ItemOf(object, key, FieldAt(object, path), path, strength)

(* The labels a key is read from, the current one first.                   *)
Placement ==
  << [key |-> "zone",     labels |-> << << "topology", "/", "zone" >>, << "beta", "/", "zone" >> >>,
      strength |-> "placement"],
     [key |-> "hostname", labels |-> << << "kubernetes", "/", "hostname" >> >>,
      strength |-> "correlating"] >>

LabelPath(label) == Path(<< "metadata", "labels" >>) \o << label >>

Placed(object, rule) ==
  LET there == SelectSeq(rule.labels, LAMBDA label : FieldAt(object, LabelPath(label)) # {})
  IN  IF there = << >> THEN << >>
      ELSE << [Stated(object, rule.key, {}, object.fields[LabelPath(there[1])],
                      LabelPointer(there[1]), rule.strength) EXCEPT !.class = "convention"] >>

Addresses(object) ==
  LET entries == Entries(object, Path(<< "status", "addresses" >>))
      item(entry) ==
        LET type    == FieldAt(object, entry \o << << "type" >> >>)
            address == FieldAt(object, entry \o << << "address" >> >>)
        IN  IF type = {} \/ address = {} THEN << >>
            ELSE << Stated(object, "address", type, CHOOSE v \in address : TRUE,
                           Pointer(entry \o << << "address" >> >>), "correlating") >>
  IN  FlattenSeq([i \in 1..Len(entries) |-> item(entries[i])])

OfNode(object) ==
  LET path      == Path(<< "spec", "providerID" >>)
      provider  == ItemOf(object, "provider-id", FieldAt(object, path), path, "distinguishing")
      addresses == Addresses(object)
      uuid      == NodeInfo(object, "system-uuid", "systemUUID", "distinguishing")
      machine   == NodeInfo(object, "machine-id", "machineID", "correlating")
      items     == provider \o addresses \o uuid \o machine
  IN  [items |-> items \o FlattenSeq([i \in 1..Len(Placement) |-> Placed(object, Placement[i])]),
       unobserved |-> GapOf(provider, object, "provider-id", "spec")
                        \o GapOf(items, object, "address", "status")
                        \o GapOf(items, object, "system-uuid", "status")
                        \o GapOf(items, object, "machine-id", "status")]

ContainerLists == << "containerStatuses", "initContainerStatuses", "ephemeralContainerStatuses" >>
ContainerFields ==
  << [field |-> "containerID", key |-> "container-id", strength |-> "distinguishing"],
     [field |-> "imageID",     key |-> "image-id",     strength |-> "distinguishing"],
     [field |-> "image",       key |-> "image",        strength |-> "correlating"] >>

(* The facts of the fields of one entry of a list that are filled in, each *)
(* qualified by `qualifier` of its rule.                                   *)
Facts(object, entry, rules, qualifier(_)) ==
  LET fact(rule) ==
        LET path == entry \o << << rule.field >> >>
            v    == Filled(object, path)
        IN  IF v = {} THEN << >>
            ELSE << Stated(object, rule.key, qualifier(rule), CHOOSE x \in v : TRUE,
                           Pointer(path), rule.strength) >>
  IN  FlattenSeq([i \in 1..Len(rules) |-> fact(rules[i])])

OfContainer(object, entry) ==
  LET name == FieldAt(object, entry \o << << "name" >> >>)
  IN  IF name = {} THEN << >> ELSE Facts(object, entry, ContainerFields, LAMBDA rule : name)

OfPod(object) ==
  LET entries == FlattenSeq([i \in 1..Len(ContainerLists) |->
                               Entries(object, Path(<< "status", ContainerLists[i] >>))])
      items   == FlattenSeq([i \in 1..Len(entries) |-> OfContainer(object, entries[i])])
  IN  [items |-> items,
       unobserved |-> FlattenSeq([i \in 1..Len(ContainerFields) |->
                                    GapOf(items, object, ContainerFields[i].key, "status")])]

LoadBalancerFields ==
  << [field |-> "ip", key |-> "load-balancer-address", type |-> "IP", strength |-> "correlating"],
     [field |-> "hostname", key |-> "load-balancer-address", type |-> "Hostname",
      strength |-> "correlating"] >>

OfLoadBalancer(object) ==
  LET entries == Entries(object, Path(<< "status", "loadBalancer", "ingress" >>))
      items   == FlattenSeq([i \in 1..Len(entries) |->
                   Facts(object, entries[i], LoadBalancerFields, LAMBDA rule : {<< rule.type >>})])
  IN  [items |-> items, unobserved |-> GapOf(items, object, "load-balancer-address", "status")]

StorageFields ==
  << [field |-> "volumeHandle", key |-> "volume-handle",     strength |-> "distinguishing"],
     [field |-> "driver",       key |-> "volume-driver",     strength |-> "correlating"],
     [field |-> "fsType",       key |-> "volume-filesystem", strength |-> "placement"] >>

OfStorage(object) ==
  LET items == Facts(object, Path(<< "spec", "csi" >>), StorageFields, LAMBDA rule : {})
  IN  [items |-> items,
       unobserved |-> FlattenSeq([i \in 1..Len(StorageFields) |->
                                    GapOf(items, object, StorageFields[i].key, "spec")])]

(* `SubjectEvidence::of`: the evidence of a kind that has a rule.          *)
Of(object) ==
  CASE << object.group, object.kind >> = << "core", "Node" >> -> {OfNode(object)}
    [] << object.group, object.kind >> = << "core", "Pod" >>  -> {OfPod(object)}
    [] << object.group, object.kind >> \in {<< "core", "Service" >>, << "networking", "Ingress" >>} ->
         {OfLoadBalancer(object)}
    [] << object.group, object.kind >> = << "core", "PersistentVolume" >> -> {OfStorage(object)}
    [] OTHER -> {}

-----------------------------------------------------------------------------
(* How a fact is written.                                                  *)

TypedByQualifier == {"address", "load-balancer-address"}

LabelOf(key) ==
  CASE key = "provider-id"           -> << "providerID" >>
    [] key = "system-uuid"           -> << "systemUUID" >>
    [] key = "machine-id"            -> << "machineID" >>
    [] key = "container-id"          -> << "containerID" >>
    [] key = "image-id"              -> << "imageID" >>
    [] key = "load-balancer-address" -> << "address" >>
    [] OTHER                         -> << key >>

Labelled(key, qualifier) ==
  IF qualifier = {} THEN LabelOf(key)
  ELSE LET q == CHOOSE q \in qualifier : TRUE
       IN  IF key \in TypedByQualifier THEN q ELSE LabelOf(key) \o << "(" >> \o q \o << ")" >>

-----------------------------------------------------------------------------
(* The answer to a query.                                                  *)

Subjects == {<< "core", "Node" >>, << "core", "Pod" >>, << "core", "Service" >>,
             << "networking", "Ingress" >>, << "core", "PersistentVolume" >>}

SubjectKind(asked) ==
  {s \in Subjects : s[2] = IF asked = {} THEN "Node" ELSE CHOOSE kind \in asked : TRUE}

Observed(item) ==
  [observed |-> TRUE, key |-> item.key, qualifier |-> item.qualifier, value |-> {item.value},
   source |-> {item.source}, strength |-> {item.strength}, asserted |-> item.class = "native_field",
   lookup_key |-> IsLookupKey(item), shape |-> item.shape, outcome |-> {}]

Missing(gap) ==
  [observed |-> FALSE, key |-> gap.key, qualifier |-> {}, value |-> {}, source |-> {},
   strength |-> {}, asserted |-> FALSE, lookup_key |-> FALSE, shape |-> {},
   outcome |-> {gap.outcome}]

(* The facts first, then what could not be read.                           *)
Emit(evidence) ==
  [i \in 1..Len(evidence.items) |-> Observed(evidence.items[i])]
    \o [i \in 1..Len(evidence.unobserved) |-> Missing(evidence.unobserved[i])]

Completed(records) == [is |-> "completed", records |-> records]
Failed(why)        == [is |-> "failed", why |-> why]

(* `cluster` is the objects there are, as a read of one would return it.   *)
Answer(cluster, name, asked) ==
  IF name = {} THEN Failed("unnamed")
  ELSE IF SubjectKind(asked) = {} THEN Failed("unsupported")
  ELSE LET found == {o \in cluster : << o.group, o.kind >> \in SubjectKind(asked) /\ o.name \in name}
       IN  IF found = {} THEN Completed(<< >>)
           ELSE LET evidence == Of(CHOOSE o \in found : TRUE)
                IN  IF evidence = {} THEN Failed("unsupported")
                    ELSE Completed(Emit(CHOOSE e \in evidence : TRUE))
===============================================================================
