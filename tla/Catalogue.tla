------------------------------ MODULE Catalogue ------------------------------
(***************************************************************************)
(* What a cluster serves, put together from its discovery documents        *)
(* (discovery.rs), and the one resource a query's words name in it         *)
(* (dynamic.rs, query.rs).                                                 *)
(*                                                                         *)
(* A cluster is, for each API group, its versions in the order of the      *)
(* server's preference, each with the resources it serves and whether the  *)
(* API server behind it answers.  An option that was not given is {}.      *)
(***************************************************************************)
EXTENDS Integers, Sequences, SequencesExt, FiniteSets, TLC

Core == "core"      \* the group whose name is empty

-----------------------------------------------------------------------------
(* The documents a server answers with: one aggregated for the core and    *)
(* one for the other groups, or lists of versions and a list per version.  *)

NamesOf(cluster, core) == {g \in DOMAIN cluster : (g = Core) = core}

(* An aggregated entry leaves the group and version of its kind empty for  *)
(* the ones it is listed under.                                            *)
RawEntry(r) ==
  [name |-> r.plural, response_kind |-> [group |-> {}, version |-> {}, kind |-> r.kind],
   verbs |-> r.verbs, short_names |-> r.short_names, subresources |-> r.subresources]

AggregatedDocument(cluster, core) ==
  [g \in NamesOf(cluster, core) |->
     [i \in 1..Len(cluster[g]) |->
        [version   |-> cluster[g][i].version,
         stale     |-> cluster[g][i].status # 200,
         resources |-> IF cluster[g][i].status # 200 THEN {}
                       ELSE {RawEntry(r) : r \in cluster[g][i].serves}]]]

LegacyVersions(cluster, core) ==
  [g \in NamesOf(cluster, core) |->
     [i \in 1..Len(cluster[g]) |-> cluster[g][i].version]]

(* A resource list names a subresource beside the resource it hangs off.   *)
ResourceList(version) ==
  {[name |-> r.plural, sub |-> {}, kind |-> r.kind, verbs |-> r.verbs,
    short_names |-> r.short_names] : r \in version.serves}
  \cup UNION {{[name |-> r.plural, sub |-> {s}, kind |-> "Scale", verbs |-> {"get"},
                short_names |-> {}] : s \in r.subresources} : r \in version.serves}

-----------------------------------------------------------------------------
(* The builder of a snapshot.                                              *)

Function == [x \in {} |-> x]
Empty == [resources |-> Function, versions |-> Function, preferred |-> Function, stale |-> {}]

Resource(group, version, identity, raw, subresources) ==
  [group |-> identity.group, version |-> identity.version, kind |-> raw.kind,
   gvr |-> << group, version, raw.name >>, verbs |-> raw.verbs,
   short_names |-> raw.short_names, subresources |-> subresources]

(* `/api`: the versions of the core, of which the first is preferred;      *)
(* `/apis`: those of the other groups, each with the preferred one.        *)
CoreVersions(d, lists) ==
  [d EXCEPT !.versions = lists @@ @,
            !.preferred = @ @@ [g \in {g \in DOMAIN lists : lists[g] # << >>} |-> lists[g][1]]]

Groups(d, lists) ==
  [d EXCEPT !.versions = lists @@ @,
            !.preferred = [g \in {g \in DOMAIN lists : lists[g] # << >>} |-> lists[g][1]] @@ @]

AddResources(d, group, version, list) ==
  LET parents == {raw \in list : raw.sub = {}}
      subs(raw) == UNION {x.sub : x \in {x \in list : x.name = raw.name}}
  IN  [d EXCEPT !.resources =
         (<< group, version >> :>
            {Resource(group, version, [group |-> group, version |-> version], raw, subs(raw)) :
               raw \in parents}) @@ @]

(* Empty means the group-version that encloses it.                         *)
Identity(response_kind, group, version) ==
  [group   |-> IF response_kind.group = {} THEN group ELSE CHOOSE g \in response_kind.group : TRUE,
   version |-> IF response_kind.version = {} THEN version
               ELSE CHOOSE v \in response_kind.version : TRUE]

(* The order in which a group's versions are listed is the preference.     *)
AddAggregated(d, document) ==
  LET listed == {<< g, i >> \in (DOMAIN document) \X (1..2) : i <= Len(document[g])}
      at(e)  == document[e[1]][e[2]]
      gv(e)  == << e[1], at(e).version >>
      words(g) == [i \in 1..Len(document[g]) |-> document[g][i].version]
      held(g)  == IF g \in DOMAIN d.versions THEN d.versions[g] ELSE << >>
      read(e)  == {Resource(e[1], at(e).version,
                            Identity(raw.response_kind, e[1], at(e).version),
                            [raw EXCEPT !.response_kind = ""] @@
                              [kind |-> raw.response_kind.kind],
                            raw.subresources) : raw \in at(e).resources}
      entry(x) == CHOOSE e \in listed : gv(e) = x
  IN  [resources |-> [x \in {gv(e) : e \in listed} |-> read(entry(x))] @@ d.resources,
       versions  |-> [g \in DOMAIN document |-> held(g) \o words(g)] @@ d.versions,
       preferred |-> [g \in {g \in DOMAIN document : document[g] # << >>} |->
                        document[g][1].version] @@ d.preferred,
       stale     |-> d.stale \cup {gv(e) : e \in {e \in listed : at(e).stale}}]

(* A group-version the snapshot already answered for, copied; what is held *)
(* stays.                                                                  *)
Adopt(d, snapshot, gv) ==
  IF gv \notin DOMAIN snapshot.resources THEN d
  ELSE LET g    == gv[1]
           held == IF g \in DOMAIN d.versions THEN d.versions[g] ELSE << >>
       IN  [d EXCEPT
             !.resources = @ @@ (gv :> snapshot.resources[gv]),
             !.versions  = (g :> IF Contains(held, gv[2]) THEN held ELSE Append(held, gv[2])) @@ @,
             !.preferred = IF g \in DOMAIN snapshot.preferred
                           THEN @ @@ (g :> snapshot.preferred[g]) ELSE @]

(* The two root documents, each in the form the server answered it in.     *)
Assemble(core, groups) ==
  LET read == IF core.aggregated THEN AddAggregated(Empty, core.document)
              ELSE CoreVersions(Empty, core.document)
  IN  IF groups.aggregated THEN AddAggregated(read, groups.document)
      ELSE Groups(read, groups.document)

RootDocument(cluster, core, aggregated) ==
  [aggregated |-> aggregated,
   document   |-> IF aggregated THEN AggregatedDocument(cluster, core)
                  ELSE LegacyVersions(cluster, core)]

Served(cluster, mechanism) ==
  Assemble(RootDocument(cluster, TRUE, mechanism.core),
           RootDocument(cluster, FALSE, mechanism.groups))

ServesGroupVersion(d, gv) == gv \in DOMAIN d.resources
IsStale(d, gv) == gv \in d.stale
AllOf(d) == UNION {d.resources[gv] : gv \in DOMAIN d.resources}

-----------------------------------------------------------------------------
(* A query's words: a kind or a resource, a group, a version.              *)

NamesSomething(selector) == selector.kind # {} \/ selector.resource # {}

Matches(selector, r) ==
  /\ selector.group # {} => r.group \in selector.group
  /\ selector.version # {} => r.version \in selector.version
  /\ selector.kind # {} => r.kind \in selector.kind
  /\ \A name \in selector.resource : name = r.gvr[3] \/ name \in r.short_names

(* More than one type of a name is never decided by a priority.            *)
ResolveFor(selector, d, verb) ==
  LET matched == {r \in AllOf(d) : Matches(selector, r)} IN
  IF ~ NamesSomething(selector) THEN [is |-> "unasked"]
  ELSE IF matched = {} THEN [is |-> "not-served"]
  ELSE IF Cardinality(matched) > 1 THEN [is |-> "ambiguous", candidates |-> matched]
  ELSE LET only == CHOOSE r \in matched : TRUE IN
       IF verb \in only.verbs THEN [is |-> "found", resource |-> only]
       ELSE [is |-> "not-offered", resource |-> only]

(* The group-versions a search covers: one of each group, or the one named.*)
SearchSpace(served, selector) ==
  LET group == CHOOSE g \in selector.group : TRUE
      known == group \in DOMAIN served.versions
      preferred == group \in DOMAIN served.preferred
      named == CHOOSE v \in selector.version : TRUE
  IN  CASE selector.group = {} /\ selector.version # {} ->
             [is |-> "refused", space |-> {}]
        [] selector.group = {} /\ selector.version = {} ->
             [is |-> "space", space |-> {<< g, served.preferred[g] >> :
                g \in DOMAIN served.versions \cap DOMAIN served.preferred}]
        [] selector.group # {} /\ selector.version # {} ->
             IF known /\ Contains(served.versions[group], named)
             THEN [is |-> "space", space |-> {<< group, named >>}]
             ELSE [is |-> "refused", space |-> {}]
        [] OTHER ->
             IF preferred THEN [is |-> "space", space |-> {<< group, served.preferred[group] >>}]
             ELSE [is |-> "refused", space |-> {}]

UnreadOutcome(status) ==
  CASE status = 403 -> "read-denied"
    [] status \in {404, 410} -> "type-not-served"
    [] status \in 502..504 -> "unavailable"
    [] OTHER -> "request-failed"

(* One group-version's resource list, or why it could not be read.         *)
VersionOf(cluster, gv) ==
  cluster[gv[1]][CHOOSE i \in 1..Len(cluster[gv[1]]) : cluster[gv[1]][i].version = gv[2]]

GroupDocument(cluster, gv) ==
  LET v == VersionOf(cluster, gv) IN
  IF v.status = 200 THEN [unread |-> {}, list |-> ResourceList(v)]
  ELSE [unread |-> {UnreadOutcome(v.status)}, list |-> {}]

(* A group that does not answer is a gap, and the others are searched.     *)
ReadInto(searched, served, cluster, gv) ==
  LET read == GroupDocument(cluster, gv)
      gap(outcome) == [searched EXCEPT !.unread = @ \cup {<< gv, outcome >>}]
  IN  CASE ServesGroupVersion(served, gv) /\ IsStale(served, gv) -> gap("unavailable")
        [] ServesGroupVersion(served, gv) /\ ~ IsStale(served, gv) ->
             [searched EXCEPT !.discovery = Adopt(@, served, gv)]
        [] OTHER ->
             IF read.unread # {} THEN gap(CHOOSE o \in read.unread : TRUE)
             ELSE [searched EXCEPT !.discovery = AddResources(@, gv[1], gv[2], read.list)]

Search(served, cluster, space) ==
  FoldLeft(LAMBDA s, gv : ReadInto(s, served, cluster, gv),
           [discovery |-> Empty, unread |-> {}], SetToSeq(space))

(* What was not found in an incomplete search is not known to be unserved. *)
UnresolvedOver(answer, unread) ==
  IF answer.is = "not-served" /\ unread # {} THEN [is |-> "unproven", unread |-> unread]
  ELSE answer

(* A caller with nowhere to put a gap is refused.                          *)
UnprovenWhenMissing(answer, unread) == UnresolvedOver(answer, unread)

Unproven(answer, unread) ==
  IF answer.is = "found" /\ unread # {} THEN [is |-> "unproven", unread |-> unread]
  ELSE UnresolvedOver(answer, unread)

ResolveIn(served, cluster, selector, verb) ==
  LET space    == SearchSpace(served, selector)
      searched == Search(served, cluster, space.space)
  IN  IF space.is = "refused" THEN [is |-> "refused"]
      ELSE Unproven(ResolveFor(selector, searched.discovery, verb), searched.unread)

(* A kind this package names: its group's preferred version serves it.     *)
Curated(served, cluster, group, kind) ==
  LET gv   == << group, served.preferred[group] >>
      d    == IF ServesGroupVersion(served, gv) THEN served
              ELSE AddResources(Empty, gv[1], gv[2], GroupDocument(cluster, gv).list)
      of   == {r \in d.resources[gv] : r.kind = kind}
  IN  IF group \notin DOMAIN served.preferred THEN [is |-> "not-served"]
      ELSE IF ~ ServesGroupVersion(served, gv) /\ GroupDocument(cluster, gv).unread # {}
      THEN [is |-> "failed"]
      ELSE IF of = {} THEN [is |-> "not-served"]
      ELSE [is |-> "found", resource |-> CHOOSE r \in of : TRUE]
=============================================================================
