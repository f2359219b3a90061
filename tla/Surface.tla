------------------------------- MODULE Surface -------------------------------
(***************************************************************************)
(* What a session knows of what its cluster serves (session.rs): the       *)
(* discovery documents it has read, the schemas it has loaded, and the     *)
(* fingerprint by which it would notice that the cluster is another one.   *)
(* Each is an observation with an age, and each says something about the   *)
(* others; the methods of the session keep them from contradicting.        *)
(*                                                                         *)
(* The cluster serves one kind of one API group at some of `Versions`.     *)
(* A description (of a version, in a resource list) and a schema are       *)
(* numbers, 0 for none; no two different ones share a number, and what was *)
(* changed is not changed back.  The cluster changes between any two       *)
(* methods; a request is taken to last no time.                            *)
(***************************************************************************)
EXTENDS Naturals, FiniteSets

CONSTANTS
  Versions,     \* the versions of the group
  Clusters,     \* the clusters that may answer to the configured name
  Signals,      \* the decisive signals of a fingerprint
  Obtainable,   \* which of them a diagnostic may obtain together
  Aggregates,   \* whether the server may offer aggregated discovery
  None,
  Validity,     \* DISCOVERY_VALIDITY = SCHEMA_VALIDITY, in ticks
  MaxTime,      \* bound on the clock of a behaviour
  MaxChanges    \* bound on the changes of the cluster

Root  == "root"
Paths == {Root} \cup Versions

ASSUME SurfaceAssumption ==
  /\ Obtainable \subseteq SUBSET Signals
  /\ Aggregates \subseteq BOOLEAN
  /\ Validity \in Nat \ {0}
  /\ MaxTime \in Nat /\ MaxChanges \in Nat
  /\ Root \notin Versions
  /\ None \notin Nat /\ None \notin Clusters

VARIABLES
  served,       \* what the cluster serves
  was,          \* what it served in each tick so far
  now,          \* the session's clock
  changes,      \* how often the cluster has changed
  aggregated,   \* whether its root document is the aggregated one
  documents,    \* the session's discovery documents, by path
  schemas,      \* its schema cache
  root,         \* the hashes of the schema root document, or None
  fingerprint,  \* the decisive signals of the session's fingerprint
  digest,       \* the fingerprint the schema cache was filled under
  gathered,     \* a diagnostic's fingerprint, not yet told to the session
  identified,   \* whether it has a fingerprint, of the origin at least
  shown         \* the cluster a diagnostic last showed the session, or None

cluster == << served, was, now, changes, aggregated >>
held    == << documents, schemas, root >>
known   == << fingerprint, digest, identified, shown >>
vars    == << cluster, held, known, gathered >>

Number  == 0..(MaxChanges + 1)
Surface == [cluster : Clusters, listed : [Versions -> Number], schema : [Versions -> Number]]

Fingerprint == [Signals -> Clusters \cup {None}]
Unknown     == [s \in Signals |-> None]

(* `shown` is not the session's: the cluster a diagnostic had last shown   *)
(* when an entry was read, or the first it showed since.                   *)
Document == [text : [Versions -> Number], at : 0..MaxTime, stale : BOOLEAN,
             shown : Clusters \cup {None}]
Schema   == [schema : Number, hash : Number \cup {None}, at : 0..MaxTime,
             under : Number, shown : Clusters \cup {None}]

SchemaRoot == [at : 0..MaxTime, hashes : [Versions -> Number]]

ASSUME NoneAssumption == None \notin Document \cup Schema \cup SchemaRoot

TypeOK ==
  /\ served \in Surface
  /\ now \in 0..MaxTime
  /\ was \in [0..now -> SUBSET Surface]
  /\ changes \in 0..MaxChanges
  /\ aggregated \in BOOLEAN
  /\ documents \in [Paths -> Document \cup {None}]
  /\ schemas \in [Versions -> Schema \cup {None}]
  /\ root \in SchemaRoot \cup {None}
  /\ fingerprint \in Fingerprint
  /\ digest \in Fingerprint \cup {None}
  /\ identified \in BOOLEAN
  /\ gathered \in Fingerprint \cup {None}
  /\ shown \in Clusters \cup {None}

Init ==
  /\ served \in {[cluster |-> c, listed |-> [v \in Versions |-> 1],
                  schema |-> [v \in Versions |-> 1]] : c \in Clusters}
  /\ was = [t \in 0..0 |-> {served}]
  /\ now = 0
  /\ changes = 0
  /\ aggregated \in Aggregates
  /\ documents = [p \in Paths |-> None]
  /\ schemas = [v \in Versions |-> None]
  /\ root = None
  /\ fingerprint = Unknown
  /\ digest = None
  /\ identified = FALSE
  /\ gathered = None
  /\ shown = None

-----------------------------------------------------------------------------
(* The cluster and the clock.                                              *)

Changed(surface) ==
  /\ changes < MaxChanges
  /\ changes' = changes + 1
  /\ served' = surface
  /\ was' = [was EXCEPT ![now] = @ \cup {surface}]
  /\ UNCHANGED << now, aggregated, held, known, gathered >>

Fresh == changes + 2

(* A definition is installed or changed, its schema alone is edited, or a  *)
(* version of it is withdrawn.                                             *)
Define(v)   == Changed([served EXCEPT !.listed[v] = Fresh, !.schema[v] = Fresh])
Edit(v)     == served.listed[v] # 0 /\ Changed([served EXCEPT !.schema[v] = Fresh])
Withdraw(v) == served.listed[v] # 0 /\ Changed([served EXCEPT !.listed[v] = 0, !.schema[v] = 0])

(* Another cluster answers to the name, and serves the same.               *)
Replace == \E c \in Clusters \ {served.cluster} : Changed([served EXCEPT !.cluster = c])

Tick ==
  /\ now < MaxTime
  /\ now' = now + 1
  /\ was' = [t \in 0..(now + 1) |-> IF t = now + 1 THEN {served} ELSE was[t]]
  /\ UNCHANGED << served, changes, aggregated, held, known, gathered >>

-----------------------------------------------------------------------------
(* Discovery documents.                                                    *)

Expired(at) == now - at >= Validity

(* `discovery_document`.                                                   *)
Answers(p) == documents[p] # None /\ ~ documents[p].stale /\ ~ Expired(documents[p].at)

(* What a document says of the kind at v.                                  *)
Listed(v) ==
  CASE aggregated /\ Answers(Root) -> documents[Root].text[v]
    [] ~ aggregated /\ Answers(v)  -> documents[v].text[v]
    [] OTHER -> 0

(* The document at p: of each version whether it is served, or how it is   *)
(* described.                                                              *)
TextOf(surface, p) ==
  [v \in Versions |->
     CASE p = Root /\ ~ aggregated /\ surface.listed[v] # 0 -> 1
       [] p = Root /\ aggregated                           -> surface.listed[v]
       [] p = v                                            -> surface.listed[v]
       [] OTHER                                            -> 0]

Forget(vs) == [v \in Versions |-> IF v \in vs THEN None ELSE schemas[v]]

MarkedStale(docs) ==
  [p \in Paths |-> IF docs[p] = None THEN None ELSE [docs[p] EXCEPT !.stale = TRUE]]

(* What a refreshed document says is gone: a version its group no longer   *)
(* has, or the group with all of them; a kind that is described anew.  An  *)
(* aggregated document is of no kind the comparison knows.                 *)
DroppedVersions(before, after) ==
  IF \A v \in Versions : after[v] = 0
  THEN {v \in Versions : \E w \in Versions : before[w] # 0}
  ELSE {v \in Versions : before[v] # 0 /\ after[v] = 0}

(* Mutated forms of the next: a refreshed resource list is not compared; a *)
(* document is compared only with one that still answers.                  *)
WithdrawnByRoots(p, text) ==
  CASE documents[p] = None \/ aggregated -> {}
    [] ~ aggregated /\ documents[p] # None /\ p = Root ->
         DroppedVersions(documents[p].text, text)
    [] OTHER -> {}

Withdrawn(p, text) ==
  CASE documents[p] = None \/ aggregated -> {}
    [] ~ aggregated /\ documents[p] # None /\ p = Root ->
         DroppedVersions(documents[p].text, text)
    [] OTHER -> IF documents[p].text # text THEN {p} ELSE {}

(* A mutated form of the next: a version that is gone keeps its list.      *)
DisownedNone(p, gone) == documents

(* A root document by which something is gone leaves no document standing. *)
Disowned(p, gone) == IF p = Root /\ gone # {} THEN MarkedStale(documents) ELSE documents

(* `cache_discovery_document`, of what the server has just answered.  A    *)
(* document that is stale, or too old to answer, is still what the next is *)
(* compared with.                                                          *)
Cache(p) ==
  LET text == TextOf(served, p)
      docs == Disowned(p, Withdrawn(p, text))
  IN  /\ documents' = [docs EXCEPT ![p] =
           [text |-> text, at |-> now, stale |-> FALSE, shown |-> shown]]
      /\ schemas' = Forget(Withdrawn(p, text))
      /\ UNCHANGED << cluster, root, known, gathered >>

(* `root_document`: the aggregated document is held under a path of its    *)
(* own, which here is the same one, as the server does not change sides.   *)
ReadRoot == ~ Answers(Root) /\ Cache(Root)

(* `group_document` and `resource_list`: only of a version the root names, *)
(* and only where the root is not the whole inventory.                     *)
ReadList(v) ==
  /\ ~ aggregated
  /\ Answers(Root)
  /\ documents[Root].text[v] # 0
  /\ ~ Answers(v)
  /\ served.listed[v] # 0
  /\ Cache(v)

-----------------------------------------------------------------------------
(* Schemas.                                                                *)

(* `Session::schema`.                                                      *)
Projects(v) == schemas[v] # None /\ ~ Expired(schemas[v].at)

(* `typing_of`: a kind that was resolved is loaded unless its schema still *)
(* answers.  Whatever is not a document is held as no schema at all.       *)
LoadSchema(v) ==
  /\ Listed(v) # 0
  /\ ~ Projects(v)
  /\ \E loaded \in {served.schema[v], 0} :
       schemas' = [schemas EXCEPT ![v] =
         [schema |-> loaded,
          hash   |-> IF root = None \/ root.hashes[v] = 0 THEN None ELSE root.hashes[v],
          at     |-> now,
          under  |-> Listed(v),
          shown  |-> shown]]
  /\ UNCHANGED << cluster, documents, root, known, gathered >>

(* A mutated form of the next: an entry loaded blind is vouched for too.   *)
VouchedBlind(entry, hash) == hash # 0 /\ entry.hash \in {hash, None}

Vouched(entry, hash) == hash # 0 /\ entry.hash = hash

(* `cache_schema_root`: what the root still vouches for is current again.  *)
CacheSchemaRoot ==
  /\ root # None => Expired(root.at)
  /\ root' = [at |-> now, hashes |-> served.schema]
  /\ schemas' = [v \in Versions |->
       IF schemas[v] # None /\ Vouched(schemas[v], served.schema[v])
       THEN [schemas[v] EXCEPT !.at = now] ELSE None]
  /\ UNCHANGED << cluster, documents, known, gathered >>

(* A definition is changed through this provider (`mutated`), or its       *)
(* change is seen on a watch (`observe_event`), which names the versions   *)
(* it has now.                                                             *)
DefinitionChanged ==
  /\ \E vs \in {Versions, {v \in Versions : served.listed[v] # 0}} : schemas' = Forget(vs)
  /\ documents' = MarkedStale(documents)
  /\ UNCHANGED << cluster, root, known, gathered >>

-----------------------------------------------------------------------------
(* The cluster behind the configuration name.                              *)

(* A diagnostic asks the cluster, without the session's lock.              *)
Gather ==
  /\ gathered = None
  /\ \E obtained \in Obtainable :
       gathered' = [s \in Signals |-> IF s \in obtained THEN served.cluster ELSE None]
  /\ UNCHANGED << cluster, held, known >>

(* A mutated form of the next: any fingerprint is of the same cluster.     *)
DistinctNever(before, after) == FALSE

(* `compare`: a decisive signal that both have and that disagrees.  The    *)
(* origin, which both always have, agrees, and decides nothing.            *)
Distinct(before, after) ==
  \E s \in Signals : before[s] # None /\ after[s] # None /\ before[s] # after[s]

Cleared == [v \in Versions |-> None]

(* The cluster a fingerprint shows, if any of its signals does.            *)
ShownBy(print) ==
  IF \E s \in Signals : print[s] # None
  THEN print[CHOOSE s \in Signals : print[s] # None] ELSE shown

(* What was read before any diagnostic showed a cluster.                   *)
Ascribed(entries, to) ==
  [x \in DOMAIN entries |->
     IF entries[x] # None /\ entries[x].shown = None
     THEN [entries[x] EXCEPT !.shown = to] ELSE entries[x]]

(* `observed_fingerprint` of what a diagnostic gathered, which becomes the *)
(* session's whatever it has less of.  The schema cache compares the       *)
(* fingerprint it was filled under itself.                                 *)
Observe ==
  /\ gathered # None
  /\ LET replaced  == identified /\ Distinct(fingerprint, gathered)
         reconnect == ~ identified \/ replaced
         elsewhere == reconnect /\ digest # gathered
     IN  /\ documents' = IF replaced THEN [p \in Paths |-> None]
                         ELSE Ascribed(documents, ShownBy(gathered))
         /\ schemas'   = IF elsewhere THEN Cleared
                         ELSE Ascribed(schemas, ShownBy(gathered))
         /\ root'      = IF elsewhere THEN None ELSE root
         /\ digest'    = IF reconnect THEN gathered ELSE digest
  /\ identified'  = TRUE
  /\ fingerprint' = gathered
  /\ shown'       = ShownBy(gathered)
  /\ gathered'    = None
  /\ UNCHANGED cluster

-----------------------------------------------------------------------------
ClusterStep ==
  \/ \E v \in Versions : Define(v) \/ Edit(v) \/ Withdraw(v)
  \/ Replace \/ Tick

Next ==
  \/ ClusterStep
  \/ ReadRoot \/ CacheSchemaRoot \/ DefinitionChanged \/ Gather \/ Observe
  \/ \E v \in Versions : ReadList(v) \/ LoadSchema(v)

Spec == Init /\ [][Next]_vars

-----------------------------------------------------------------------------
(* Properties.                                                             *)

(* The surfaces that were served within the last Validity.                 *)
Recent == UNION {was[t] : t \in {u \in 0..now : now - u < Validity}}

(* §11.4, §12.4, ADR-0061: what a session answers of the surface without   *)
(* asking was true of its cluster within the last Validity, also where a   *)
(* hash has vouched for it since it was read.                              *)
AnswersAreRecent ==
  /\ \A p \in Paths : Answers(p) =>
       \E surface \in Recent : documents[p].text = TextOf(surface, p)
  /\ \A v \in Versions : Projects(v) /\ schemas[v].schema # 0 =>
       \E surface \in Recent : schemas[v].schema = surface.schema[v]

(* §33.2, §12.4: a kind is not projected through a schema of a version its *)
(* own documents say is withdrawn, or of a description they have replaced. *)
(* An aggregated document is compared with none, and withdraws nothing.    *)
SchemasAreOfTheListing ==
  ~ aggregated => \A v \in Versions : Projects(v) =>
    /\ Answers(Root) => documents[Root].text[v] # 0
    /\ Listed(v) # 0 => schemas[v].under = Listed(v)

(* §11.4: no resource list answers for a version the root document, read   *)
(* after it, does not name.                                                *)
ListsAreOfTheRoot ==
  Answers(Root) => \A v \in Versions : Answers(v) => documents[Root].text[v] # 0

(* §10.4: whatever the session answers, it has been shown no cluster since *)
(* it was read but the one it was shown before.                            *)
ReplacedIsForgotten ==
  /\ \A p \in Paths : Answers(p) => documents[p].shown = shown
  /\ \A v \in Versions : Projects(v) => schemas[v].shown = shown
=============================================================================
