---------------------------- MODULE SurfaceProofs ----------------------------
(***************************************************************************)
(* Proofs about Surface, for every set of versions, of clusters and of     *)
(* signals, every validity and any number of changes.                      *)
(***************************************************************************)
EXTENDS Surface, TLAPS

-----------------------------------------------------------------------------
(* The inductive invariant, in its parts.                                  *)

(* What is served now is among what was served in this tick.               *)
ServedIsRecorded == served \in was[now]

(* A document says what the surface was when it was read.                  *)
DocumentsWere ==
  \A p \in Paths : documents[p] # None =>
    /\ documents[p].at \in 0..now
    /\ \E surface \in was[documents[p].at] : documents[p].text = TextOf(surface, p)

(* A schema is what it was when it was read, or was last vouched for.      *)
SchemasWere ==
  \A v \in Versions : schemas[v] # None =>
    /\ schemas[v].at \in 0..now
    /\ schemas[v].schema # 0 =>
         \E surface \in was[schemas[v].at] : schemas[v].schema = surface.schema[v]

(* Numbers are not used again, so that a hash which is still served was    *)
(* served all along.                                                       *)
NumbersGrow ==
  \A v \in Versions :
    /\ served.schema[v] <= changes + 1
    /\ root # None =>
         /\ root.hashes[v] <= changes + 1
         /\ \/ root.hashes[v] = 0
            \/ served.schema[v] = 0
            \/ root.hashes[v] <= served.schema[v]

HashesAreOfSchemas ==
  \A v \in Versions :
    schemas[v] # None /\ schemas[v].hash # None /\ schemas[v].schema # 0 =>
      /\ schemas[v].hash <= changes + 1
      /\ \/ schemas[v].schema = schemas[v].hash
         \/ served.schema[v] = 0
         \/ schemas[v].hash < served.schema[v]

(* Whatever list stands was of a version the root document names, and      *)
(* there is none beside an aggregated one.                                 *)
Standing(v) == documents[v] # None /\ ~ documents[v].stale

RootNames ==
  \A v \in Versions : Standing(v) =>
    ~ aggregated /\ documents[Root] # None /\ documents[Root].text[v] # 0

SInv ==
  /\ TypeOK
  /\ ServedIsRecorded /\ DocumentsWere /\ SchemasWere
  /\ NumbersGrow /\ HashesAreOfSchemas
  /\ RootNames

-----------------------------------------------------------------------------
(* Types.                                                                  *)

(* What the assumptions say of each constant.                              *)
LEMMA Constants ==
  /\ Validity \in Nat \ {0} /\ MaxTime \in Nat /\ MaxChanges \in Nat
  /\ Root \in Paths /\ Versions \subseteq Paths /\ Root \notin Versions
  /\ None \notin Nat /\ None \notin Clusters
  /\ None \notin Document /\ None \notin Schema /\ None \notin SchemaRoot
  /\ Aggregates \subseteq BOOLEAN
BY SurfaceAssumption, NoneAssumption DEF Paths

(* A surface says of each version whether it is served.                    *)
LEMMA TextType ==
  ASSUME NEW surface \in Surface, NEW p \in Paths
  PROVE  TextOf(surface, p) \in [Versions -> Number]
<1>1. 0 \in Number /\ 1 \in Number
  BY Constants DEF Number
<1>2. surface.listed \in [Versions -> Number]
  BY DEF Surface
<1> QED
  BY <1>1, <1>2 DEF TextOf

(* Marking, ascribing and forgetting leave documents documents, and what they *)
(* say and how old it is as it was.                                        *)
LEMMA MarkedKeeps ==
  ASSUME TypeOK
  PROVE  /\ MarkedStale(documents) \in [Paths -> Document \cup {None}]
         /\ \A p \in Paths :
              /\ documents[p] = None => MarkedStale(documents)[p] = None
              /\ documents[p] # None =>
                   /\ MarkedStale(documents)[p] \in Document
                   /\ MarkedStale(documents)[p].text = documents[p].text
                   /\ MarkedStale(documents)[p].at = documents[p].at
                   /\ MarkedStale(documents)[p].stale
<1>1. ASSUME NEW p \in Paths, documents[p] # None
      PROVE  /\ MarkedStale(documents)[p] \in Document
             /\ MarkedStale(documents)[p].text = documents[p].text
             /\ MarkedStale(documents)[p].at = documents[p].at
             /\ MarkedStale(documents)[p].stale
  <2>1. documents[p] \in Document
    BY <1>1 DEF TypeOK
  <2>2. MarkedStale(documents)[p] = [documents[p] EXCEPT !.stale = TRUE]
    BY <1>1 DEF MarkedStale
  <2> QED
    BY <2>1, <2>2 DEF Document
<1>2. ASSUME NEW p \in Paths, documents[p] = None PROVE MarkedStale(documents)[p] = None
  BY <1>2 DEF MarkedStale
<1>3. MarkedStale(documents) \in [Paths -> Document \cup {None}]
  <2>1. \A p \in Paths : MarkedStale(documents)[p] \in Document \cup {None}
    BY <1>1, <1>2
  <2>2. MarkedStale(documents) = [p \in Paths |-> MarkedStale(documents)[p]]
    BY DEF MarkedStale
  <2> QED
    BY <2>1, <2>2
<1> QED
  BY <1>1, <1>2, <1>3

(* The documents that are ascribed to the cluster a diagnostic showed.     *)
LEMMA AscribedDocuments ==
  ASSUME TypeOK, NEW to \in Clusters \cup {None}
  PROVE  /\ Ascribed(documents, to) \in [Paths -> Document \cup {None}]
         /\ \A p \in Paths :
              /\ documents[p] = None => Ascribed(documents, to)[p] = None
              /\ documents[p] # None =>
                   /\ Ascribed(documents, to)[p] \in Document
                   /\ Ascribed(documents, to)[p].text = documents[p].text
                   /\ Ascribed(documents, to)[p].at = documents[p].at
                   /\ Ascribed(documents, to)[p].stale = documents[p].stale
                   /\ Ascribed(documents, to)[p].shown \in {documents[p].shown, to}
                   /\ documents[p].shown = None => Ascribed(documents, to)[p].shown = to
<1> DEFINE m == Ascribed(documents, to)
<1>0. DOMAIN documents = Paths
  BY DEF TypeOK
<1>1. ASSUME NEW p \in Paths, documents[p] # None
      PROVE  /\ m[p] \in Document
             /\ m[p].text = documents[p].text /\ m[p].at = documents[p].at
             /\ m[p].stale = documents[p].stale
             /\ m[p].shown \in {documents[p].shown, to}
             /\ documents[p].shown = None => m[p].shown = to
  <2>1. documents[p] \in Document
    BY <1>1 DEF TypeOK
  <2>2. m[p] = IF documents[p].shown = None
               THEN [documents[p] EXCEPT !.shown = to] ELSE documents[p]
    BY <1>0, <1>1 DEF Ascribed
  <2> HIDE DEF m
  <2> QED
    BY <2>1, <2>2 DEF Document
<1>2. ASSUME NEW p \in Paths, documents[p] = None PROVE m[p] = None
  BY <1>0, <1>2 DEF Ascribed
<1>3. m \in [Paths -> Document \cup {None}]
  <2>1. \A p \in Paths : m[p] \in Document \cup {None}
    BY <1>1, <1>2
  <2>2. m = [p \in Paths |-> m[p]]
    BY <1>0 DEF Ascribed
  <2> HIDE DEF m
  <2> QED
    BY <2>1, <2>2
<1> QED
  BY <1>1, <1>2, <1>3

(* And the schemas.                                                        *)
LEMMA AscribedSchemas ==
  ASSUME TypeOK, NEW to \in Clusters \cup {None}
  PROVE  /\ Ascribed(schemas, to) \in [Versions -> Schema \cup {None}]
         /\ \A v \in Versions :
              /\ schemas[v] = None => Ascribed(schemas, to)[v] = None
              /\ schemas[v] # None =>
                   /\ Ascribed(schemas, to)[v].schema = schemas[v].schema
                   /\ Ascribed(schemas, to)[v].at = schemas[v].at
                   /\ Ascribed(schemas, to)[v].hash = schemas[v].hash
                   /\ Ascribed(schemas, to)[v].under = schemas[v].under
                   /\ Ascribed(schemas, to)[v].shown \in {schemas[v].shown, to}
                   /\ schemas[v].shown = None => Ascribed(schemas, to)[v].shown = to
<1> DEFINE m == Ascribed(schemas, to)
<1>0. DOMAIN schemas = Versions
  BY DEF TypeOK
<1>1. ASSUME NEW v \in Versions, schemas[v] # None
      PROVE  /\ m[v] \in Schema
             /\ m[v].schema = schemas[v].schema /\ m[v].at = schemas[v].at
             /\ m[v].hash = schemas[v].hash /\ m[v].under = schemas[v].under
             /\ m[v].shown \in {schemas[v].shown, to}
             /\ schemas[v].shown = None => m[v].shown = to
  <2>1. schemas[v] \in Schema
    BY <1>1 DEF TypeOK
  <2>2. m[v] = IF schemas[v].shown = None
               THEN [schemas[v] EXCEPT !.shown = to] ELSE schemas[v]
    BY <1>0, <1>1 DEF Ascribed
  <2> HIDE DEF m
  <2> QED
    BY <2>1, <2>2 DEF Schema
<1>2. ASSUME NEW v \in Versions, schemas[v] = None PROVE m[v] = None
  BY <1>0, <1>2 DEF Ascribed
<1>3. m \in [Versions -> Schema \cup {None}]
  <2>1. \A v \in Versions : m[v] \in Schema \cup {None}
    BY <1>1, <1>2
  <2>2. m = [v \in Versions |-> m[v]]
    BY <1>0 DEF Ascribed
  <2> HIDE DEF m
  <2> QED
    BY <2>1, <2>2
<1> QED
  BY <1>1, <1>2, <1>3

(* What a diagnostic shows is a cluster, or what was shown before.         *)
LEMMA ShownType ==
  ASSUME TypeOK, gathered # None
  PROVE  ShownBy(gathered) \in Clusters \cup {None}
<1>1. gathered \in Fingerprint /\ shown \in Clusters \cup {None}
  BY DEF TypeOK
<1> QED
  BY <1>1 DEF ShownBy, Fingerprint

-----------------------------------------------------------------------------
(* The cluster changes, and time passes.                                   *)

(* What was read stands while the record of what was served only grows.    *)
LEMMA RecordStands ==
  ASSUME TypeOK, DocumentsWere, SchemasWere, now' \in Nat, now <= now',
         \A t \in 0..now : was[t] \subseteq was'[t],
         UNCHANGED << aggregated, documents, schemas >>
  PROVE  DocumentsWere' /\ SchemasWere'
<1>0. now \in Nat
  BY Constants DEF TypeOK
<1>1. DocumentsWere'
  <2> SUFFICES ASSUME NEW p \in Paths, documents[p] # None
               PROVE  /\ documents[p].at \in 0..now'
                      /\ \E surface \in was'[documents[p].at] :
                           documents[p].text = TextOf(surface, p)'
    BY DEF DocumentsWere
  <2>1. /\ documents[p].at \in 0..now
        /\ \E surface \in was[documents[p].at] : documents[p].text = TextOf(surface, p)
    BY DEF DocumentsWere
  <2>2. documents[p].at \in 0..now'
    BY <1>0, <2>1
  <2>3. \A surface : TextOf(surface, p)' = TextOf(surface, p)
    BY DEF TextOf
  <2> QED
    BY <2>1, <2>2, <2>3
<1>2. SchemasWere'
  <2> SUFFICES ASSUME NEW v \in Versions, schemas[v] # None
               PROVE  /\ schemas[v].at \in 0..now'
                      /\ schemas[v].schema # 0 =>
                           \E surface \in was'[schemas[v].at] :
                             schemas[v].schema = surface.schema[v]
    BY DEF SchemasWere
  <2>1. schemas[v].at \in 0..now
    BY DEF SchemasWere
  <2>2. schemas[v].at \in 0..now'
    BY <1>0, <2>1
  <2> QED
    BY <2>1, <2>2 DEF SchemasWere
<1> QED
  BY <1>1, <1>2

(* A change gives a schema a number that no entry and no hash has.         *)
LEMMA ChangedStep ==
  ASSUME SInv, NEW surface \in Surface, Changed(surface),
         \A v \in Versions : surface.schema[v] \in {served.schema[v], 0, Fresh}
  PROVE  SInv'
<1> USE Constants
<1>0. /\ now \in Nat /\ changes \in Nat /\ changes < MaxChanges
      /\ was \in [0..now -> SUBSET Surface]
      /\ served' = surface /\ changes' = changes + 1
      /\ was' = [was EXCEPT ![now] = @ \cup {surface}]
      /\ UNCHANGED << now, aggregated, held, known, gathered >>
  BY DEF SInv, TypeOK, Changed
<1>1. TypeOK'
  <2>1. was' \in [0..now' -> SUBSET Surface]
    BY <1>0
  <2>2. changes' \in 0..MaxChanges
    BY <1>0
  <2> QED
    BY <1>0, <2>1, <2>2 DEF SInv, TypeOK, held, known
<1>2. /\ ServedIsRecorded'
      /\ \A t \in 0..now : was[t] \subseteq was'[t]
  BY <1>0 DEF ServedIsRecorded
<1>3. DocumentsWere' /\ SchemasWere'
  BY <1>0, <1>2, RecordStands DEF SInv, held
<1>4. \A v \in Versions : served.schema[v] \in Nat /\ served.schema[v] <= changes + 1
  BY DEF SInv, TypeOK, Surface, Number, NumbersGrow
<1>5. NumbersGrow'
  <2> SUFFICES ASSUME NEW v \in Versions
               PROVE  /\ surface.schema[v] <= changes + 2
                      /\ root # None =>
                           /\ root.hashes[v] <= changes + 2
                           /\ \/ root.hashes[v] = 0
                              \/ surface.schema[v] = 0
                              \/ root.hashes[v] <= surface.schema[v]
    BY <1>0 DEF NumbersGrow, held
  <2>1. surface.schema[v] \in {served.schema[v], 0, changes + 2}
    BY DEF Fresh
  <2>2. root # None => root.hashes[v] \in Nat
    BY DEF SInv, TypeOK, SchemaRoot, Number
  <2> QED
    BY <1>0, <1>4, <2>1, <2>2 DEF SInv, NumbersGrow
<1>6. HashesAreOfSchemas'
  <2> SUFFICES ASSUME NEW v \in Versions,
                      schemas[v] # None, schemas[v].hash # None, schemas[v].schema # 0
               PROVE  /\ schemas[v].hash <= changes + 2
                      /\ \/ schemas[v].schema = schemas[v].hash
                         \/ surface.schema[v] = 0
                         \/ schemas[v].hash < surface.schema[v]
    BY <1>0 DEF HashesAreOfSchemas, held
  <2>1. surface.schema[v] \in {served.schema[v], 0, changes + 2}
    BY DEF Fresh
  <2>2. schemas[v].hash \in Nat
    BY DEF SInv, TypeOK, Schema, Number
  <2> QED
    BY <1>0, <1>4, <2>1, <2>2 DEF SInv, HashesAreOfSchemas
<1>7. RootNames'
  BY <1>0 DEF SInv, RootNames, Standing, held
<1> QED
  BY <1>1, <1>2, <1>3, <1>5, <1>6, <1>7 DEF SInv

(* A new tick begins with what is served.                                  *)
LEMMA TickStep ==
  ASSUME SInv, Tick
  PROVE  SInv'
<1> USE Constants
<1>0. /\ now \in Nat /\ now < MaxTime /\ served \in Surface
      /\ was \in [0..now -> SUBSET Surface]
      /\ now' = now + 1
      /\ was' = [t \in 0..(now + 1) |-> IF t = now + 1 THEN {served} ELSE was[t]]
      /\ UNCHANGED << served, changes, aggregated, held, known, gathered >>
  BY DEF SInv, TypeOK, Tick
<1>1. now' \in 0..MaxTime /\ was' \in [0..now' -> SUBSET Surface]
  <2>1. ASSUME NEW t \in 0..(now + 1) PROVE was'[t] \in SUBSET Surface
    <3>1. CASE t = now + 1
      BY <1>0, <3>1
    <3>2. CASE t # now + 1
      <4>1. t \in 0..now
        BY <1>0, <3>2
      <4> QED
        BY <1>0, <3>2, <4>1
    <3> QED
      BY <3>1, <3>2
  <2> QED
    BY <1>0, <2>1
<1>2. TypeOK'
  BY <1>0, <1>1 DEF SInv, TypeOK, held, known
<1>3. ServedIsRecorded' /\ \A t \in 0..now : was[t] \subseteq was'[t]
  BY <1>0 DEF ServedIsRecorded
<1>4. DocumentsWere' /\ SchemasWere'
  BY <1>0, <1>3, RecordStands DEF SInv, held
<1>5. NumbersGrow' /\ HashesAreOfSchemas' /\ RootNames'
  BY <1>0 DEF SInv, NumbersGrow, HashesAreOfSchemas, RootNames, Standing, held
<1> QED
  BY <1>2, <1>3, <1>4, <1>5 DEF SInv

-----------------------------------------------------------------------------
(* The session reads.                                                      *)

(* What was read a moment ago, and what was kept of the rest, is recorded. *)
LEMMA Kept ==
  ASSUME TypeOK, SchemasWere, HashesAreOfSchemas, NEW vs
  PROVE  /\ Forget(vs) \in [Versions -> Schema \cup {None}]
         /\ \A v \in Versions : Forget(vs)[v] \in {schemas[v], None}
BY DEF TypeOK, Forget

(* A refreshed root document leaves no list standing that it does not      *)
(* name; a list is read of a version that the root document names.         *)
LEMMA CacheStep ==
  ASSUME SInv, NEW p \in Paths, Cache(p),
         p # Root => ~ aggregated /\ documents[Root] # None /\ documents[Root].text[p] # 0
  PROVE  SInv'
<1> USE Constants
<1> DEFINE text == TextOf(served, p)
           gone == Withdrawn(p, text)
           docs == Disowned(p, gone)
           new  == [text |-> text, at |-> now, stale |-> FALSE, shown |-> shown]
<1>0. /\ TypeOK /\ now \in 0..MaxTime /\ served \in Surface
      /\ documents' = [docs EXCEPT ![p] = new]
      /\ schemas' = Forget(gone)
      /\ UNCHANGED << cluster, root, known, gathered >>
  BY DEF SInv, TypeOK, Cache
<1>1. new \in Document /\ new # None
  <2>1. text \in [Versions -> Number]
    BY <1>0, TextType
  <2>2. shown \in Clusters \cup {None}
    BY <1>0 DEF TypeOK
  <2> HIDE DEF text
  <2>3. new \in Document
    BY <1>0, <2>1, <2>2 DEF Document
  <2> QED
    BY <2>3
<1>2. docs \in {documents, MarkedStale(documents)}
  BY DEF Disowned
<1>3. docs \in [Paths -> Document \cup {None}]
  BY <1>0, <1>2, MarkedKeeps DEF TypeOK
<1>4. \A q \in Paths \ {p} :
        /\ documents'[q] # None => documents[q] # None
        /\ documents'[q] # None =>
             documents'[q].text = documents[q].text /\ documents'[q].at = documents[q].at
        /\ documents[q] # None => documents'[q] # None
        /\ Standing(q)' => Standing(q)
  BY <1>0, <1>2, <1>3, MarkedKeeps DEF Standing
<1>5. documents'[p] = new
  BY <1>0, <1>3
<1>6. /\ schemas' \in [Versions -> Schema \cup {None}]
      /\ \A v \in Versions : schemas'[v] \in {schemas[v], None}
  BY <1>0, Kept DEF SInv
<1>7. TypeOK'
  <2>1. documents' \in [Paths -> Document \cup {None}]
    BY <1>0, <1>1, <1>3
  <2> QED
    BY <1>0, <1>6, <2>1 DEF TypeOK, cluster, known
<1>8. ServedIsRecorded' /\ NumbersGrow'
  BY <1>0 DEF SInv, ServedIsRecorded, NumbersGrow, cluster
<1>9. DocumentsWere'
  <2>0. \A surface, q : TextOf(surface, q)' = TextOf(surface, q)
    BY <1>0 DEF TextOf, cluster
  <2> SUFFICES ASSUME NEW q \in Paths, documents'[q] # None
               PROVE  /\ documents'[q].at \in 0..now
                      /\ \E surface \in was[documents'[q].at] :
                           documents'[q].text = TextOf(surface, q)
    BY <1>0, <2>0 DEF DocumentsWere, cluster
  <2>1. CASE q = p
    BY <1>0, <1>5, <2>1 DEF SInv, ServedIsRecorded
  <2>2. CASE q # p
    BY <1>4, <2>2 DEF SInv, DocumentsWere
  <2> QED
    BY <2>1, <2>2
<1>10. SchemasWere' /\ HashesAreOfSchemas'
  BY <1>0, <1>6 DEF SInv, SchemasWere, HashesAreOfSchemas, cluster
<1>11. RootNames'
  <2> SUFFICES ASSUME NEW v \in Versions, Standing(v)'
               PROVE  /\ ~ aggregated /\ documents'[Root] # None
                      /\ documents'[Root].text[v] # 0
    BY <1>0 DEF RootNames, cluster
  <2>1. CASE p # Root
    <3>1. documents[Root] # None /\ ~ aggregated /\ documents[Root].text[v] # 0
      <4>1. CASE v = p
        BY <2>1, <4>1
      <4>2. CASE v # p
        BY <1>4, <4>2 DEF SInv, RootNames
      <4> QED
        BY <4>1, <4>2
    <3> QED
      BY <1>4, <2>1, <3>1
  <2>2. CASE p = Root
    <3>1. v # p /\ Standing(v)
      BY <1>4, <2>2
    <3>2. ~ aggregated /\ documents[Root] # None /\ documents[Root].text[v] # 0
      BY <3>1 DEF SInv, RootNames
    <3>3. gone = {}
      <4> SUFFICES ASSUME gone # {} PROVE FALSE
        OBVIOUS
      <4>1. docs = MarkedStale(documents)
        BY <2>2 DEF Disowned
      <4>2. documents'[v] = MarkedStale(documents)[v]
        BY <1>0, <1>3, <3>1, <4>1
      <4> QED
        BY <1>0, <3>1, <4>2, MarkedKeeps DEF Standing
    <3>4. gone = DroppedVersions(documents[Root].text, text)
      BY <2>2, <3>2 DEF Withdrawn
    <3>5. text[v] # 0
      BY <3>2, <3>3, <3>4 DEF DroppedVersions
    <3> QED
      BY <1>1, <1>5, <2>2, <3>2, <3>5
  <2> QED
    BY <2>1, <2>2
<1> QED
  BY <1>7, <1>8, <1>9, <1>10, <1>11 DEF SInv

(* A schema is loaded as it is served now, under a hash that is not newer. *)
LEMMA LoadStep ==
  ASSUME SInv, NEW v \in Versions, LoadSchema(v)
  PROVE  SInv'
<1> USE Constants
<1>0. TypeOK /\ now \in 0..MaxTime /\ served \in Surface /\ changes \in Nat
  BY DEF SInv, TypeOK
<1>1. PICK loaded \in {served.schema[v], 0} :
        schemas' = [schemas EXCEPT ![v] =
         [schema |-> loaded,
          hash   |-> IF root = None \/ root.hashes[v] = 0 THEN None ELSE root.hashes[v],
          at     |-> now,
          under  |-> Listed(v),
          shown  |-> shown]]
  BY DEF LoadSchema
<1> DEFINE hash == IF root = None \/ root.hashes[v] = 0 THEN None ELSE root.hashes[v]
           new  == [schema |-> loaded, hash |-> hash, at |-> now, under |-> Listed(v),
                    shown |-> shown]
<1>2. UNCHANGED << cluster, documents, root, known, gathered >>
  BY DEF LoadSchema
<1>3. 0 \in Number /\ served.schema[v] \in Number /\ shown \in Clusters \cup {None}
  BY <1>0 DEF Surface, Number, TypeOK
<1>4. hash \in Number \cup {None}
  BY <1>0 DEF TypeOK, SchemaRoot
<1>5. Listed(v) \in Number
  <2>1. \A p \in Paths : Answers(p) => documents[p].text[v] \in Number
    BY <1>0 DEF Answers, TypeOK, Document
  <2> QED
    BY <1>3, <2>1 DEF Listed
<1>6. new \in Schema /\ new # None
  <2>1. loaded \in Number
    BY <1>3
  <2> HIDE DEF hash
  <2>2. new \in Schema
    BY <1>0, <1>3, <1>4, <1>5, <2>1 DEF Schema
  <2> QED
    BY <2>2
<1>7. schemas' = [schemas EXCEPT ![v] = new] /\ schemas \in [Versions -> Schema \cup {None}]
  BY <1>0, <1>1 DEF TypeOK
<1>8. TypeOK'
  <2> HIDE DEF new
  <2>1. schemas' \in [Versions -> Schema \cup {None}]
    BY <1>6, <1>7
  <2> QED
    BY <1>0, <1>2, <2>1 DEF TypeOK, cluster, known
<1>9. ServedIsRecorded' /\ NumbersGrow' /\ DocumentsWere' /\ RootNames'
  <2>1. \A surface, p : TextOf(surface, p)' = TextOf(surface, p)
    BY <1>2 DEF TextOf, cluster
  <2>2. DocumentsWere'
    BY <1>2, <2>1 DEF SInv, DocumentsWere, cluster
  <2> QED
    BY <1>2, <2>2 DEF SInv, ServedIsRecorded, NumbersGrow, RootNames, Standing, cluster
<1>10. SchemasWere'
  <2> SUFFICES ASSUME NEW w \in Versions, schemas'[w] # None
               PROVE  /\ schemas'[w].at \in 0..now
                      /\ schemas'[w].schema # 0 =>
                           \E surface \in was[schemas'[w].at] :
                             schemas'[w].schema = surface.schema[w]
    BY <1>2 DEF SchemasWere, cluster
  <2>1. CASE w = v
    <3>1. schemas'[w].at = now /\ schemas'[w].schema = loaded
      BY <1>7, <2>1
    <3> QED
      BY <1>0, <2>1, <3>1 DEF SInv, ServedIsRecorded
  <2>2. CASE w # v
    BY <1>7, <2>2 DEF SInv, SchemasWere
  <2> QED
    BY <2>1, <2>2
<1>11. HashesAreOfSchemas'
  <2> SUFFICES ASSUME NEW w \in Versions,
                      schemas'[w] # None, schemas'[w].hash # None, schemas'[w].schema # 0
               PROVE  /\ schemas'[w].hash <= changes + 1
                      /\ \/ schemas'[w].schema = schemas'[w].hash
                         \/ served.schema[w] = 0
                         \/ schemas'[w].hash < served.schema[w]
    BY <1>2 DEF HashesAreOfSchemas, cluster
  <2>1. CASE w = v
    <3>1. schemas'[w].hash = hash /\ schemas'[w].schema = loaded
      BY <1>7, <2>1
    <3>2. root # None /\ hash = root.hashes[v] /\ hash # 0 /\ loaded = served.schema[v]
      BY <2>1, <3>1
    <3>3. hash \in Nat /\ served.schema[v] \in Nat
      BY <1>3, <1>4, <2>1, <3>1 DEF Number
    <3>4. hash <= changes + 1 /\ (served.schema[v] = 0 \/ hash <= served.schema[v])
      BY <3>2 DEF SInv, NumbersGrow
    <3> QED
      BY <2>1, <3>1, <3>2, <3>3, <3>4
  <2>2. CASE w # v
    BY <1>7, <2>2 DEF SInv, HashesAreOfSchemas
  <2> QED
    BY <2>1, <2>2
<1> QED
  BY <1>8, <1>9, <1>10, <1>11 DEF SInv
(* What the root document still vouches for is what is served now: had the *)
(* schema changed since it was read, the hash would be gone for good.      *)
LEMMA RootStep ==
  ASSUME SInv, CacheSchemaRoot
  PROVE  SInv'
<1> USE Constants
<1>0. /\ TypeOK /\ now \in 0..MaxTime /\ served \in Surface /\ changes \in Nat
      /\ root' = [at |-> now, hashes |-> served.schema]
      /\ UNCHANGED << cluster, documents, known, gathered >>
  BY DEF SInv, TypeOK, CacheSchemaRoot
<1>1. ASSUME NEW v \in Versions, schemas'[v] # None
      PROVE  /\ schemas[v] # None /\ Vouched(schemas[v], served.schema[v])
             /\ schemas'[v] = [schemas[v] EXCEPT !.at = now]
             /\ schemas[v] \in Schema /\ schemas'[v] \in Schema
             /\ schemas'[v].at = now
             /\ schemas'[v].schema = schemas[v].schema /\ schemas'[v].hash = schemas[v].hash
  <2>1. /\ schemas[v] # None /\ Vouched(schemas[v], served.schema[v])
        /\ schemas'[v] = [schemas[v] EXCEPT !.at = now]
    BY <1>1 DEF CacheSchemaRoot
  <2>2. schemas[v] \in Schema
    BY <1>0, <2>1 DEF TypeOK
  <2> QED
    BY <1>0, <2>1, <2>2 DEF Schema
<1>2. TypeOK'
  <2>1. \A v \in Versions : schemas'[v] \in Schema \cup {None}
    BY <1>1
  <2>2. schemas' = [v \in Versions |-> schemas'[v]]
    BY DEF CacheSchemaRoot
  <2>3. schemas' \in [Versions -> Schema \cup {None}]
    BY <2>1, <2>2
  <2>4. root' \in SchemaRoot
    BY <1>0 DEF SchemaRoot, Surface
  <2> QED
    BY <1>0, <2>3, <2>4 DEF TypeOK, cluster, known
<1>3. ServedIsRecorded' /\ DocumentsWere' /\ RootNames'
  <2>1. \A surface, p : TextOf(surface, p)' = TextOf(surface, p)
    BY <1>0 DEF TextOf, cluster
  <2>2. DocumentsWere'
    BY <1>0, <2>1 DEF SInv, DocumentsWere, cluster
  <2> QED
    BY <1>0, <2>2 DEF SInv, ServedIsRecorded, RootNames, Standing, cluster
<1>4. \A v \in Versions : served.schema[v] \in Nat /\ served.schema[v] <= changes + 1
  BY <1>0 DEF SInv, Surface, Number, NumbersGrow
<1>5. NumbersGrow'
  <2>1. root'.hashes = served.schema
    BY <1>0
  <2> QED
    BY <1>0, <1>4, <2>1 DEF NumbersGrow, cluster
<1>6. ASSUME NEW v \in Versions, schemas'[v] # None, schemas'[v].schema # 0
      PROVE  schemas'[v].schema = served.schema[v] /\ schemas'[v].hash = served.schema[v]
  <2>1. schemas[v].hash = served.schema[v] /\ served.schema[v] # 0
    BY <1>1, <1>6 DEF Vouched
  <2>2. schemas[v].hash \in Nat /\ schemas[v].hash # None
    BY <1>4, <2>1
  <2>3. schemas[v].schema = schemas[v].hash \/ schemas[v].hash < served.schema[v]
    BY <1>1, <1>6, <2>1, <2>2 DEF SInv, HashesAreOfSchemas
  <2>4. schemas[v].schema = served.schema[v]
    BY <1>4, <2>1, <2>3
  <2>5. schemas'[v].schema = schemas[v].schema /\ schemas'[v].hash = schemas[v].hash
    BY <1>1, <1>6
  <2> QED
    BY <2>1, <2>4, <2>5
<1>7. SchemasWere'
  <2>1. served \in was[now] /\ was' = was /\ now' = now
    BY <1>0 DEF SInv, ServedIsRecorded, cluster
  <2>2. ASSUME NEW v \in Versions, schemas'[v] # None
        PROVE  /\ schemas'[v].at \in 0..now'
               /\ schemas'[v].schema # 0 =>
                    \E surface \in was'[schemas'[v].at] : schemas'[v].schema = surface.schema[v]
    <3>1. schemas'[v].at = now
      BY <1>1, <2>2
    <3>2. now \in 0..now
      BY <1>0
    <3> QED
      BY <1>6, <2>1, <2>2, <3>1, <3>2
  <2> QED
    BY <2>2 DEF SchemasWere
<1>8. HashesAreOfSchemas'
  BY <1>0, <1>4, <1>6 DEF HashesAreOfSchemas, cluster
<1> QED
  BY <1>2, <1>3, <1>5, <1>7, <1>8 DEF SInv

-----------------------------------------------------------------------------
(* What the session hears of.                                              *)

(* Entries that are left out, or moved on, say what they said.             *)
LEMMA HeardStep ==
  ASSUME SInv, TypeOK', UNCHANGED cluster, root' \in {root, None},
         \A p \in Paths : documents'[p] # None =>
           /\ documents[p] # None
           /\ documents'[p].text = documents[p].text /\ documents'[p].at = documents[p].at
           /\ ~ documents'[p].stale => ~ documents[p].stale /\ documents'[Root] # None,
         \A v \in Versions : schemas'[v] # None =>
           /\ schemas[v] # None
           /\ schemas'[v].schema = schemas[v].schema /\ schemas'[v].at = schemas[v].at
           /\ schemas'[v].hash = schemas[v].hash
  PROVE  SInv'
<1> USE Constants
<1>1. \A surface, p : TextOf(surface, p)' = TextOf(surface, p)
  BY DEF TextOf, cluster
<1>2. DocumentsWere'
  BY <1>1 DEF SInv, DocumentsWere, cluster
<1>3. SchemasWere' /\ HashesAreOfSchemas'
  BY DEF SInv, SchemasWere, HashesAreOfSchemas, cluster
<1>4. ServedIsRecorded' /\ NumbersGrow'
  BY DEF SInv, ServedIsRecorded, NumbersGrow, cluster
<1>5. RootNames'
  BY DEF SInv, RootNames, Standing, cluster
<1> QED
  BY <1>2, <1>3, <1>4, <1>5 DEF SInv

(* A definition changed: every document is stale, some schemas are gone.   *)
LEMMA DefinitionStep ==
  ASSUME SInv, DefinitionChanged
  PROVE  SInv'
<1>1. PICK vs : schemas' = Forget(vs)
  BY DEF DefinitionChanged
<1>2. documents' = MarkedStale(documents) /\ UNCHANGED << cluster, root, known, gathered >>
  BY DEF DefinitionChanged
<1>3. /\ schemas' \in [Versions -> Schema \cup {None}]
      /\ \A v \in Versions : schemas'[v] \in {schemas[v], None}
  BY <1>1, Kept DEF SInv
<1>4. TypeOK'
  BY <1>2, <1>3, MarkedKeeps DEF SInv, TypeOK, cluster, known
<1>5. \A p \in Paths : documents'[p] # None =>
        /\ documents[p] # None /\ documents'[p].stale
        /\ documents'[p].text = documents[p].text /\ documents'[p].at = documents[p].at
  BY <1>2, MarkedKeeps DEF SInv
<1> QED
  BY <1>2, <1>3, <1>4, <1>5, HeardStep

(* A diagnostic asks.                                                      *)
LEMMA GatherStep ==
  ASSUME SInv, Gather
  PROVE  SInv'
<1>1. UNCHANGED << cluster, held, known >>
  BY DEF Gather
<1>2. gathered' \in Fingerprint
  BY DEF Gather, Fingerprint, SInv, TypeOK, Surface
<1>3. TypeOK'
  BY <1>1, <1>2 DEF SInv, TypeOK, cluster, held, known
<1> QED
  BY <1>1, <1>3, HeardStep DEF SInv, RootNames, Standing, held, Paths

(* A diagnostic tells.                                                     *)
LEMMA ObserveStep ==
  ASSUME SInv, Observe
  PROVE  SInv'
<1> USE Constants
<1>1. /\ documents' = [p \in Paths |-> None] \/ documents' = Ascribed(documents, ShownBy(gathered))
      /\ schemas' = Cleared \/ schemas' = Ascribed(schemas, ShownBy(gathered))
      /\ root' \in {root, None}
      /\ digest' \in {digest, gathered} /\ identified' = TRUE
      /\ gathered # None /\ fingerprint' = gathered /\ gathered' = None
      /\ shown' = ShownBy(gathered)
      /\ UNCHANGED cluster
  BY DEF Observe
<1>2. TypeOK /\ ShownBy(gathered) \in Clusters \cup {None}
  BY <1>1, ShownType DEF SInv
<1>3. gathered \in Fingerprint
  BY <1>1, <1>2 DEF TypeOK
<1>4. documents' \in [Paths -> Document \cup {None}]
  BY <1>1, <1>2, AscribedDocuments
<1>5. schemas' \in [Versions -> Schema \cup {None}]
  BY <1>1, <1>2, AscribedSchemas DEF Cleared
<1>6. shown' \in Clusters \cup {None}
  BY <1>1, <1>2
<1>7. TypeOK'
  BY <1>1, <1>2, <1>3, <1>4, <1>5, <1>6 DEF TypeOK, cluster
<1>8. \A p \in Paths : documents'[p] # None =>
        /\ documents[p] # None /\ documents' = Ascribed(documents, ShownBy(gathered))
        /\ documents'[p].text = documents[p].text /\ documents'[p].at = documents[p].at
        /\ documents'[p].stale = documents[p].stale
  BY <1>1, <1>2, AscribedDocuments
<1>9. ASSUME NEW p \in Paths, documents'[p] # None, ~ documents'[p].stale
      PROVE  documents'[Root] # None
  <2>1. documents[Root] # None
    <3>1. p = Root \/ p \in Versions
      BY DEF Paths
    <3> QED
      BY <1>8, <1>9, <3>1 DEF SInv, RootNames, Standing
  <2>2. documents'[Root] \in Document
    BY <1>2, <1>8, <1>9, <2>1, AscribedDocuments
  <2> QED
    BY <2>2
<1>10. \A v \in Versions : schemas'[v] # None =>
        /\ schemas[v] # None
        /\ schemas'[v].schema = schemas[v].schema /\ schemas'[v].at = schemas[v].at
        /\ schemas'[v].hash = schemas[v].hash
  BY <1>1, <1>2, AscribedSchemas DEF Cleared
<1> QED
  BY <1>1, <1>7, <1>8, <1>9, <1>10, HeardStep
-----------------------------------------------------------------------------
(* The theorems.                                                           *)

(* A session begins with nothing.                                          *)
LEMMA InitSInv == Init => SInv
<1> SUFFICES ASSUME Init PROVE SInv
  OBVIOUS
<1> USE Constants
<1>1. 0 \in 0..MaxTime /\ 0 \in 0..MaxChanges /\ 1 \in Number
  BY DEF Number
<1>2. PICK c \in Clusters :
        served = [cluster |-> c, listed |-> [v \in Versions |-> 1],
                  schema |-> [v \in Versions |-> 1]]
  BY DEF Init
<1>3. served \in Surface
  BY <1>1, <1>2 DEF Surface
<1>4. was \in [0..now -> SUBSET Surface] /\ served \in was[now]
  BY <1>3 DEF Init
<1>5. fingerprint \in Fingerprint
  BY DEF Init, Unknown, Fingerprint
<1>6. aggregated \in BOOLEAN
  BY DEF Init
<1>7. TypeOK
  BY <1>1, <1>3, <1>4, <1>5, <1>6 DEF Init, TypeOK
<1>8. \A v \in Versions : served.schema[v] = 1
  BY <1>2
<1>9. NumbersGrow
  BY <1>8 DEF Init, NumbersGrow
<1>10. DocumentsWere /\ SchemasWere /\ HashesAreOfSchemas /\ RootNames
  BY DEF Init, DocumentsWere, SchemasWere, HashesAreOfSchemas, RootNames, Standing
<1> QED
  BY <1>4, <1>7, <1>9, <1>10 DEF SInv, ServedIsRecorded

(* What a cluster may come to serve.                                       *)
LEMMA ClusterChanges ==
  ASSUME SInv, ClusterStep, ~ Tick
  PROVE  \E surface \in Surface :
           /\ Changed(surface)
           /\ \A v \in Versions : surface.schema[v] \in {served.schema[v], 0, Fresh}
<1> USE Constants
<1>0. served \in Surface /\ changes \in 0..MaxChanges
  BY DEF SInv, TypeOK
<1>1. changes < MaxChanges => Fresh \in Number /\ 0 \in Number
  BY <1>0 DEF Fresh, Number
<1>2. ASSUME NEW v \in Versions, NEW n \in Number, NEW m \in Number
      PROVE  /\ [served EXCEPT !.listed[v] = n, !.schema[v] = m] \in Surface
             /\ [served EXCEPT !.schema[v] = m] \in Surface
             /\ \A w \in Versions :
                  /\ [served EXCEPT !.listed[v] = n, !.schema[v] = m].schema[w]
                       \in {served.schema[w], m}
                  /\ [served EXCEPT !.schema[v] = m].schema[w] \in {served.schema[w], m}
  BY <1>0 DEF Surface
<1>3. ASSUME NEW c \in Clusters
      PROVE  /\ [served EXCEPT !.cluster = c] \in Surface
             /\ [served EXCEPT !.cluster = c].schema = served.schema
  BY <1>0 DEF Surface
<1>4. ASSUME NEW v \in Versions, Define(v) \/ Edit(v) \/ Withdraw(v)
      PROVE  \E surface \in Surface :
           /\ Changed(surface)
           /\ \A w \in Versions : surface.schema[w] \in {served.schema[w], 0, Fresh}
  <2>1. Fresh \in Number /\ 0 \in Number
    BY <1>1, <1>4 DEF Define, Edit, Withdraw, Changed
  <2>2. CASE Define(v)
    <3> DEFINE surface == [served EXCEPT !.listed[v] = Fresh, !.schema[v] = Fresh]
    <3>1. Changed(surface)
      BY <2>2 DEF Define
    <3>2. surface \in Surface
      BY <1>2, <2>1
    <3>3. \A w \in Versions : surface.schema[w] \in {served.schema[w], 0, Fresh}
      BY <1>0, <2>1 DEF Surface
    <3> QED
      BY <3>1, <3>2, <3>3
  <2>3. CASE Edit(v)
    <3> DEFINE surface == [served EXCEPT !.schema[v] = Fresh]
    <3>1. Changed(surface)
      BY <2>3 DEF Edit
    <3>2. surface \in Surface
      BY <1>2, <2>1
    <3>3. \A w \in Versions : surface.schema[w] \in {served.schema[w], 0, Fresh}
      BY <1>0, <2>1 DEF Surface
    <3> QED
      BY <3>1, <3>2, <3>3
  <2>4. CASE Withdraw(v)
    <3> DEFINE surface == [served EXCEPT !.listed[v] = 0, !.schema[v] = 0]
    <3>1. Changed(surface)
      BY <2>4 DEF Withdraw
    <3>2. surface \in Surface
      BY <1>2, <2>1
    <3>3. \A w \in Versions : surface.schema[w] \in {served.schema[w], 0, Fresh}
      BY <1>0, <2>1 DEF Surface
    <3> QED
      BY <3>1, <3>2, <3>3
  <2> QED
    BY <1>4, <2>2, <2>3, <2>4
<1> QED
  BY <1>3, <1>4 DEF ClusterStep, Replace

(* Every step keeps every part of it.                                      *)
LEMMA SInvStep == SInv /\ [Next]_vars => SInv'
<1> SUFFICES ASSUME SInv, [Next]_vars PROVE SInv'
  OBVIOUS
<1> USE Constants
<1>1. CASE ClusterStep /\ ~ Tick
  BY <1>1, ClusterChanges, ChangedStep
<1>2. CASE Tick
  BY <1>2, TickStep
<1>3. CASE ReadRoot
  BY <1>3, CacheStep DEF ReadRoot
<1>4. ASSUME NEW v \in Versions, ReadList(v) PROVE SInv'
  BY <1>4, CacheStep DEF ReadList, Answers
<1>5. ASSUME NEW v \in Versions, LoadSchema(v) PROVE SInv'
  BY <1>5, LoadStep
<1>6. CASE CacheSchemaRoot
  BY <1>6, RootStep
<1>7. CASE DefinitionChanged
  BY <1>7, DefinitionStep
<1>8. CASE Gather
  BY <1>8, GatherStep
<1>9. CASE Observe
  BY <1>9, ObserveStep
<1>10. CASE UNCHANGED vars
  <2>1. UNCHANGED << served, was, now, changes, aggregated, held, known, gathered >>
    BY <1>10 DEF vars, cluster
  <2>2. TypeOK' /\ ServedIsRecorded' /\ NumbersGrow'
    BY <2>1 DEF SInv, TypeOK, ServedIsRecorded, NumbersGrow, held, known
  <2>3. HashesAreOfSchemas' /\ RootNames'
    BY <2>1 DEF SInv, HashesAreOfSchemas, RootNames, Standing, held
  <2>4. DocumentsWere' /\ SchemasWere'
    BY <2>1, RecordStands DEF SInv, TypeOK, held
  <2> QED
    BY <2>2, <2>3, <2>4 DEF SInv
<1> QED
  BY <1>1, <1>2, <1>3, <1>4, <1>5, <1>6, <1>7, <1>8, <1>9, <1>10 DEF Next

(* The parts of the invariant hold together, always.                       *)
THEOREM SurfaceInvariant == Spec => []SInv
BY InitSInv, SInvStep, PTL DEF Spec

(* §11.4, §12.4, ADR-0061 (`discovery_document`, `schema`): what a session *)
(* answers without asking was true within the last validity.               *)
THEOREM Recently == Spec => []AnswersAreRecent
<1>1. SInv => AnswersAreRecent
  <2> SUFFICES ASSUME SInv PROVE AnswersAreRecent
    OBVIOUS
  <2>0. now \in Nat
    BY Constants DEF SInv, TypeOK
  <2>1. ASSUME NEW at \in 0..now, ~ Expired(at), NEW surface \in was[at]
        PROVE  surface \in Recent
    BY <2>0, <2>1, Constants DEF Expired, Recent
  <2>2. ASSUME NEW p \in Paths, Answers(p)
        PROVE  \E surface \in Recent : documents[p].text = TextOf(surface, p)
    BY <2>1, <2>2 DEF SInv, DocumentsWere, Answers
  <2>3. ASSUME NEW v \in Versions, Projects(v), schemas[v].schema # 0
        PROVE  \E surface \in Recent : schemas[v].schema = surface.schema[v]
    BY <2>1, <2>3 DEF SInv, SchemasWere, Projects
  <2> QED
    BY <2>2, <2>3 DEF AnswersAreRecent
<1> QED
  BY <1>1, SurfaceInvariant, PTL

(* §11.4 (`cache_discovery_document`): a resource list answers only for a  *)
(* version that the root document names.                                   *)
THEOREM OfTheRoot == Spec => []ListsAreOfTheRoot
<1>1. SInv => ListsAreOfTheRoot
  BY DEF SInv, RootNames, Standing, ListsAreOfTheRoot, Answers
<1> QED
  BY <1>1, SurfaceInvariant, PTL

-----------------------------------------------------------------------------
(* What the session holds and what it was shown, where one signal is       *)
(* obtained by every diagnostic.  Without such a signal neither holds: a   *)
(* diagnostic that obtains nothing forgets what the session was shown.     *)

(* A fingerprint is of one cluster.                                        *)
OfOne(print, t) == \A s \in Signals : print[s] \in {print[t], None}

(* Signal t shows the cluster the session is of, and the schema cache was  *)
(* filled under it.                                                        *)
SignalStands(t) ==
  /\ gathered # None => gathered[t] # None /\ OfOne(gathered, t)
  /\ identified =>
       /\ fingerprint[t] # None /\ OfOne(fingerprint, t)
       /\ digest # None /\ digest[t] = fingerprint[t]
  /\ shown = IF identified THEN fingerprint[t] ELSE None

(* Whatever is held, answering or not, is of the cluster last shown.       *)
EntriesAreShown ==
  /\ \A p \in Paths : documents[p] # None => documents[p].shown = shown
  /\ \A v \in Versions : schemas[v] # None => schemas[v].shown = shown

(* A schema is of the list that is held, and of a version of the root      *)
(* document that is held, be they stale or too old to answer.              *)
SchemasHaveLists ==
  ~ aggregated => \A v \in Versions : schemas[v] # None =>
    /\ documents[Root] # None /\ documents[Root].text[v] # 0
    /\ documents[v] # None /\ documents[v].text[v] = schemas[v].under

FInv(t) == SInv /\ SignalStands(t) /\ EntriesAreShown /\ SchemasHaveLists

(* What a fingerprint of one cluster shows is what its signal shows.       *)
LEMMA SignalShows ==
  ASSUME NEW t \in Signals, NEW print, print[t] # None, OfOne(print, t)
  PROVE  ShownBy(print) = print[t]
<1> DEFINE s == CHOOSE r \in Signals : print[r] # None
<1>1. s \in Signals /\ print[s] # None
  OBVIOUS
<1>2. ShownBy(print) = print[s]
  BY DEF ShownBy
<1> HIDE DEF s
<1> QED
  BY <1>1, <1>2 DEF OfOne

(* A document that is read says what the one before it said, or takes the  *)
(* schemas along that hang on what it no longer says.                      *)
LEMMA CacheKeepsLists ==
  ASSUME SInv, EntriesAreShown, SchemasHaveLists, NEW p \in Paths, Cache(p)
  PROVE  EntriesAreShown' /\ SchemasHaveLists'
<1> USE Constants
<1> DEFINE text == TextOf(served, p)
           gone == Withdrawn(p, text)
           docs == Disowned(p, gone)
           new  == [text |-> text, at |-> now, stale |-> FALSE, shown |-> shown]
<1>0. /\ TypeOK /\ documents' = [docs EXCEPT ![p] = new] /\ schemas' = Forget(gone)
      /\ shown' = shown /\ aggregated' = aggregated
  BY DEF SInv, Cache, cluster, known
<1>1. docs \in {documents, MarkedStale(documents)}
  BY DEF Disowned
<1>2. /\ docs \in [Paths -> Document \cup {None}]
      /\ \A q \in Paths :
           /\ docs[q] = None <=> documents[q] = None
           /\ documents[q] # None =>
                docs[q].text = documents[q].text /\ docs[q].shown = documents[q].shown
  <2>1. CASE docs = documents
    BY <1>0, <2>1 DEF TypeOK
  <2>2. CASE docs = MarkedStale(documents)
    <3>1. ASSUME NEW q \in Paths, documents[q] # None
          PROVE  /\ MarkedStale(documents)[q] # None
                 /\ MarkedStale(documents)[q].text = documents[q].text
                 /\ MarkedStale(documents)[q].shown = documents[q].shown
      <4>1. documents[q] \in Document
        BY <1>0, <3>1 DEF TypeOK
      <4>2. MarkedStale(documents)[q] = [documents[q] EXCEPT !.stale = TRUE]
        BY <3>1 DEF MarkedStale
      <4>3. MarkedStale(documents)[q] \in Document
        BY <1>0, <3>1, MarkedKeeps
      <4> QED
        BY <4>1, <4>2, <4>3 DEF Document
    <3> HIDE DEF docs
    <3> QED
      BY <1>0, <2>2, <3>1, MarkedKeeps
  <2> HIDE DEF docs
  <2> QED
    BY <1>1, <2>1, <2>2
<1>3. /\ documents'[p] = new
      /\ \A q \in Paths \ {p} : documents'[q] = docs[q]
  BY <1>0, <1>2
<1>4. \A v \in Versions : schemas'[v] = IF v \in gone THEN None ELSE schemas[v]
  BY <1>0 DEF Forget
<1>5. new # None /\ new.shown = shown /\ new.text = text
  <2>1. text \in [Versions -> Number] /\ shown \in Clusters \cup {None} /\ now \in 0..MaxTime
    BY <1>0, TextType DEF SInv, TypeOK
  <2> HIDE DEF text
  <2>2. new \in Document
    BY <2>1 DEF Document
  <2> QED
    BY <2>2
<1>6. EntriesAreShown'
  <2>1. \A v \in Versions : schemas'[v] # None => schemas[v] # None /\ schemas'[v] = schemas[v]
    BY <1>4
  <2>2. \A q \in Paths : documents'[q] # None => documents'[q].shown = shown
    <3> HIDE DEF docs, new
    <3> QED
      BY <1>2, <1>3, <1>5 DEF EntriesAreShown
  <2> QED
    BY <1>0, <2>1, <2>2 DEF EntriesAreShown
<1>7. SchemasHaveLists'
  <2> SUFFICES ASSUME ~ aggregated, NEW v \in Versions, schemas'[v] # None
               PROVE  /\ documents'[Root] # None /\ documents'[Root].text[v] # 0
                      /\ documents'[v] # None /\ documents'[v].text[v] = schemas'[v].under
    BY <1>0 DEF SchemasHaveLists
  <2>1. schemas[v] # None /\ schemas'[v] = schemas[v] /\ v \notin gone
    BY <1>4
  <2>2. /\ documents[Root] # None /\ documents[Root].text[v] # 0
        /\ documents[v] # None /\ documents[v].text[v] = schemas[v].under
    BY <2>1 DEF SchemasHaveLists
  <2>3. v # Root /\ v \in Paths
    OBVIOUS
  <2>4. CASE p = Root
    <3>1. gone = DroppedVersions(documents[Root].text, text)
      BY <2>2, <2>4 DEF Withdrawn
    <3>2. text[v] # 0
      BY <2>1, <2>2, <3>1 DEF DroppedVersions
    <3>3. documents'[Root].text[v] # 0 /\ documents'[Root] # None
      BY <1>3, <1>5, <2>4, <3>2
    <3>4. documents'[v] = docs[v]
      BY <1>3, <2>3, <2>4
    <3> HIDE DEF docs, new
    <3> QED
      BY <1>2, <2>1, <2>2, <2>3, <3>3, <3>4
  <2>5. CASE p = v
    <3>1. documents[v].text = text
      <4>1. gone = IF documents[v].text # text THEN {v} ELSE {}
        BY <2>2, <2>3, <2>5 DEF Withdrawn
      <4> QED
        BY <2>1, <4>1
    <3>2. documents'[v] = new /\ documents'[Root] = docs[Root]
      BY <1>3, <2>3, <2>5
    <3> HIDE DEF docs, new, text
    <3> QED
      BY <1>2, <1>5, <2>1, <2>2, <3>1, <3>2
  <2>6. CASE p # Root /\ p # v
    <3>1. documents'[v] = docs[v] /\ documents'[Root] = docs[Root]
      BY <1>3, <2>3, <2>6
    <3> HIDE DEF docs
    <3> QED
      BY <1>2, <2>1, <2>2, <2>3, <3>1
  <2> QED
    BY <2>4, <2>5, <2>6
<1> QED
  BY <1>6, <1>7

(* A schema is loaded of a list that answers, which the root names.        *)
LEMMA LoadKeepsLists ==
  ASSUME SInv, EntriesAreShown, SchemasHaveLists, NEW v \in Versions, LoadSchema(v)
  PROVE  EntriesAreShown' /\ SchemasHaveLists'
<1> USE Constants
<1>1. PICK loaded \in {served.schema[v], 0} :
        schemas' = [schemas EXCEPT ![v] =
         [schema |-> loaded,
          hash   |-> IF root = None \/ root.hashes[v] = 0 THEN None ELSE root.hashes[v],
          at     |-> now,
          under  |-> Listed(v),
          shown  |-> shown]]
  BY DEF LoadSchema
<1>2. /\ Listed(v) # 0 /\ documents' = documents /\ shown' = shown
      /\ aggregated' = aggregated /\ schemas \in [Versions -> Schema \cup {None}]
  BY DEF LoadSchema, cluster, known, SInv, TypeOK
<1>3. schemas'[v].shown = shown /\ schemas'[v].under = Listed(v)
  BY <1>1, <1>2
<1>4. \A w \in Versions \ {v} : schemas'[w] = schemas[w]
  BY <1>1, <1>2
<1>5. EntriesAreShown'
  BY <1>2, <1>3, <1>4 DEF EntriesAreShown
<1>6. ASSUME ~ aggregated
      PROVE  /\ documents[Root] # None /\ documents[Root].text[v] # 0
             /\ documents[v] # None /\ documents[v].text[v] = Listed(v)
  <2>1. Answers(v) /\ Listed(v) = documents[v].text[v]
    BY <1>2, <1>6 DEF Listed
  <2> QED
    BY <2>1 DEF Answers, SInv, RootNames, Standing
<1>7. SchemasHaveLists'
  BY <1>2, <1>3, <1>4, <1>6 DEF SchemasHaveLists
<1> QED
  BY <1>5, <1>7

(* The diagnostic that shows another cluster finds the fingerprint and the *)
(* schema cache of the former one, and leaves nothing of it.               *)
LEMMA ObserveKeepsLists ==
  ASSUME NEW t \in Signals, FInv(t), Observe
  PROVE  SignalStands(t)' /\ EntriesAreShown' /\ SchemasHaveLists'
<1> USE Constants
<1> DEFINE replaced  == identified /\ Distinct(fingerprint, gathered)
           reconnect == ~ identified \/ replaced
           elsewhere == reconnect /\ digest # gathered
<1>1. /\ gathered # None /\ TypeOK
      /\ documents' = IF replaced THEN [p \in Paths |-> None]
                      ELSE Ascribed(documents, ShownBy(gathered))
      /\ schemas' = IF elsewhere THEN Cleared ELSE Ascribed(schemas, ShownBy(gathered))
      /\ digest' = IF reconnect THEN gathered ELSE digest
      /\ identified' = TRUE /\ fingerprint' = gathered /\ shown' = ShownBy(gathered)
      /\ gathered' = None /\ aggregated' = aggregated
  BY DEF Observe, FInv, SInv, cluster
<1>2. /\ SignalStands(t) /\ EntriesAreShown /\ SchemasHaveLists
      /\ gathered[t] # None /\ OfOne(gathered, t)
  BY <1>1 DEF FInv, SignalStands
<1>3. ShownBy(gathered) = gathered[t] /\ ShownBy(gathered) \in Clusters \cup {None}
  BY <1>1, <1>2, SignalShows, ShownType
<1>4. identified /\ ~ replaced => fingerprint[t] = gathered[t]
  BY <1>2 DEF Distinct, SignalStands
<1>5. replaced => elsewhere
  <2> SUFFICES ASSUME replaced PROVE digest # gathered
    OBVIOUS
  <2>1. PICK s \in Signals : fingerprint[s] # None /\ gathered[s] # None
                             /\ fingerprint[s] # gathered[s]
    BY DEF Distinct
  <2>2. fingerprint[s] = fingerprint[t] /\ gathered[s] = gathered[t]
    BY <1>2, <2>1 DEF SignalStands, OfOne
  <2> QED
    BY <1>2, <2>1, <2>2 DEF SignalStands
<1>6. SignalStands(t)'
  <2>1. digest' # None /\ digest'[t] = gathered[t]
    <3> HIDE DEF replaced
    <3> QED
      BY <1>1, <1>2, <1>4 DEF SignalStands
  <2> QED
    BY <1>1, <1>2, <1>3, <2>1 DEF SignalStands, OfOne
<1>7. ~ replaced => shown \in {None, gathered[t]}
  <2> HIDE DEF replaced
  <2> QED
    BY <1>2, <1>4 DEF SignalStands
<1>8. \A p \in Paths : documents'[p] # None =>
        /\ documents[p] # None /\ ~ replaced
        /\ documents'[p].text = documents[p].text
        /\ documents'[p].shown = gathered[t]
  <2> HIDE DEF replaced
  <2> QED
    BY <1>1, <1>2, <1>3, <1>7, AscribedDocuments DEF EntriesAreShown
<1>9. \A v \in Versions : schemas'[v] # None =>
        /\ schemas[v] # None /\ ~ replaced
        /\ schemas'[v].under = schemas[v].under
        /\ schemas'[v].shown = gathered[t]
  <2> HIDE DEF replaced
  <2> QED
    BY <1>1, <1>2, <1>3, <1>5, <1>7, AscribedSchemas DEF EntriesAreShown, Cleared
<1>10. EntriesAreShown'
  BY <1>1, <1>3, <1>8, <1>9 DEF EntriesAreShown
<1>11. SchemasHaveLists'
  <2> SUFFICES ASSUME ~ aggregated, NEW v \in Versions, schemas'[v] # None
               PROVE  /\ documents'[Root] # None /\ documents'[Root].text[v] # 0
                      /\ documents'[v] # None /\ documents'[v].text[v] = schemas'[v].under
    BY <1>1 DEF SchemasHaveLists
  <2>1. schemas[v] # None /\ ~ replaced /\ schemas'[v].under = schemas[v].under
    BY <1>9
  <2>2. /\ documents[Root] # None /\ documents[Root].text[v] # 0
        /\ documents[v] # None /\ documents[v].text[v] = schemas[v].under
    BY <1>2, <2>1 DEF SchemasHaveLists
  <2>3. \A p \in Paths : documents[p] # None =>
          documents'[p] # None /\ documents'[p].text = documents[p].text
    <3> HIDE DEF replaced
    <3>1. ASSUME NEW p \in Paths, documents[p] # None
          PROVE  documents'[p] # None /\ documents'[p].text = documents[p].text
      <4>1. documents'[p] \in Document /\ documents'[p].text = documents[p].text
        BY <1>1, <1>3, <2>1, <3>1, AscribedDocuments
      <4> QED
        BY <4>1
    <3> QED
      BY <3>1
  <2> QED
    BY <2>1, <2>2, <2>3
<1> QED
  BY <1>6, <1>10, <1>11

(* Every step preserves the invariant of one shown cluster.                *)
LEMMA FInvStep ==
  ASSUME NEW t \in Signals, \A obtained \in Obtainable : t \in obtained
  PROVE  FInv(t) /\ [Next]_vars => FInv(t)'
<1> SUFFICES ASSUME FInv(t), [Next]_vars PROVE FInv(t)'
  OBVIOUS
<1> USE Constants
<1>1. SInv'
  BY SInvStep DEF FInv
<1>2. SUFFICES SignalStands(t)' /\ EntriesAreShown' /\ SchemasHaveLists'
  BY <1>1 DEF FInv
<1>3. SInv /\ SignalStands(t) /\ EntriesAreShown /\ SchemasHaveLists
  BY DEF FInv
<1>4. ASSUME UNCHANGED << known, gathered >> PROVE SignalStands(t)'
  BY <1>3, <1>4 DEF SignalStands, OfOne, known
<1>5. CASE ClusterStep \/ UNCHANGED vars
  <2>1. UNCHANGED << aggregated, held, known, gathered >>
    BY <1>5 DEF ClusterStep, Define, Edit, Withdraw, Replace, Changed, Tick, vars, cluster
  <2> QED
    BY <1>3, <1>4, <2>1 DEF EntriesAreShown, SchemasHaveLists, held, known
<1>6. ASSUME NEW p \in Paths, Cache(p)
      PROVE  SignalStands(t)' /\ EntriesAreShown' /\ SchemasHaveLists'
  BY <1>3, <1>4, <1>6, CacheKeepsLists DEF Cache
<1>7. CASE ReadRoot
  BY <1>6, <1>7 DEF ReadRoot
<1>8. ASSUME NEW v \in Versions, ReadList(v)
      PROVE  SignalStands(t)' /\ EntriesAreShown' /\ SchemasHaveLists'
  BY <1>6, <1>8 DEF ReadList
<1>9. ASSUME NEW v \in Versions, LoadSchema(v)
      PROVE  SignalStands(t)' /\ EntriesAreShown' /\ SchemasHaveLists'
  BY <1>3, <1>4, <1>9, LoadKeepsLists DEF LoadSchema
<1>10. CASE CacheSchemaRoot
  <2>1. UNCHANGED << aggregated, documents, known, gathered >>
    BY <1>10 DEF CacheSchemaRoot, cluster
  <2>2. ASSUME NEW v \in Versions, schemas'[v] # None
        PROVE  /\ schemas[v] # None
               /\ schemas'[v].shown = schemas[v].shown
               /\ schemas'[v].under = schemas[v].under
    <3>1. schemas[v] # None /\ schemas'[v] = [schemas[v] EXCEPT !.at = now]
      BY <1>10, <2>2 DEF CacheSchemaRoot
    <3>2. schemas[v] \in Schema
      BY <1>3, <3>1 DEF SInv, TypeOK
    <3> QED
      BY <3>1, <3>2 DEF Schema
  <2> QED
    BY <1>3, <1>4, <2>1, <2>2 DEF EntriesAreShown, SchemasHaveLists, known
<1>11. CASE DefinitionChanged
  <2>1. UNCHANGED << aggregated, known, gathered >> /\ documents' = MarkedStale(documents)
    BY <1>11 DEF DefinitionChanged, cluster
  <2>2. \A v \in Versions : schemas'[v] # None => schemas'[v] = schemas[v]
    BY <1>11 DEF DefinitionChanged, Forget
  <2>3. ASSUME NEW p \in Paths
        PROVE  /\ documents'[p] # None <=> documents[p] # None
               /\ documents[p] # None =>
                    documents'[p].text = documents[p].text
                    /\ documents'[p].shown = documents[p].shown
    <3>1. CASE documents[p] = None
      BY <2>1, <3>1 DEF MarkedStale
    <3>2. CASE documents[p] # None
      <4>1. documents[p] \in Document /\ documents'[p] \in Document
        BY <1>3, <2>1, <3>2, MarkedKeeps DEF SInv, TypeOK
      <4>2. documents'[p] = [documents[p] EXCEPT !.stale = TRUE]
        BY <2>1, <3>2 DEF MarkedStale
      <4> QED
        BY <3>2, <4>1, <4>2 DEF Document
    <3> QED
      BY <3>1, <3>2
  <2> QED
    BY <1>3, <1>4, <2>1, <2>2, <2>3 DEF EntriesAreShown, SchemasHaveLists, known
<1>12. CASE Gather
  <2>1. UNCHANGED << aggregated, held, known >>
    BY <1>12 DEF Gather, cluster
  <2>2. PICK obtained \in Obtainable :
          gathered' = [s \in Signals |-> IF s \in obtained THEN served.cluster ELSE None]
    BY <1>12 DEF Gather
  <2>3. served.cluster # None
    BY <1>3 DEF SInv, TypeOK, Surface
  <2>4. gathered'[t] # None /\ OfOne(gathered, t)'
    BY <2>2, <2>3 DEF OfOne
  <2> QED
    BY <1>3, <2>1, <2>4 DEF SignalStands, OfOne, EntriesAreShown, SchemasHaveLists, held, known
<1>13. CASE Observe
  BY <1>13, ObserveKeepsLists
<1> QED
  BY <1>5, <1>7, <1>8, <1>9, <1>10, <1>11, <1>12, <1>13 DEF Next

(* A session that has seen nothing satisfies it.                           *)
LEMMA InitFInv == ASSUME NEW t \in Signals PROVE Init => FInv(t)
BY InitSInv DEF Init, FInv, SignalStands, EntriesAreShown, SchemasHaveLists

(* Where every diagnostic obtains the same signal, the session is of one   *)
(* cluster in all that it holds.                                           *)
THEOREM ShownInvariant ==
  ASSUME NEW t \in Signals, \A obtained \in Obtainable : t \in obtained
  PROVE  Spec => []FInv(t)
<1>1. Init => FInv(t)
  BY InitFInv
<1>2. FInv(t) /\ [Next]_vars => FInv(t)'
  BY FInvStep
<1> QED
  BY <1>1, <1>2, PTL DEF Spec

(* §33.2, §12.4 (`cache_discovery_document`, `refreshed`): a kind is not   *)
(* projected through a schema of a withdrawn version, or of a description  *)
(* that was replaced.                                                      *)
THEOREM OfTheListing ==
  ASSUME NEW t \in Signals, \A obtained \in Obtainable : t \in obtained
  PROVE  Spec => []SchemasAreOfTheListing
<1>1. FInv(t) => SchemasAreOfTheListing
  <2> SUFFICES ASSUME FInv(t), ~ aggregated, NEW v \in Versions, Projects(v)
               PROVE  /\ Answers(Root) => documents[Root].text[v] # 0
                      /\ Listed(v) # 0 => schemas[v].under = Listed(v)
    BY DEF SchemasAreOfTheListing
  <2>1. documents[Root].text[v] # 0 /\ documents[v].text[v] = schemas[v].under
    BY DEF FInv, SchemasHaveLists, Projects
  <2>2. Listed(v) \in {documents[v].text[v], 0}
    BY DEF Listed
  <2> QED
    BY <2>1, <2>2
<1>2. Spec => []FInv(t)
  BY ShownInvariant
<1> QED
  BY <1>1, <1>2, PTL

(* §10.4 (`observed_fingerprint`, `reconnected`): nothing answers that was *)
(* read under another cluster than the one last shown.                     *)
THEOREM Forgotten ==
  ASSUME NEW t \in Signals, \A obtained \in Obtainable : t \in obtained
  PROVE  Spec => []ReplacedIsForgotten
<1>1. FInv(t) => ReplacedIsForgotten
  BY DEF FInv, EntriesAreShown, ReplacedIsForgotten, Answers, Projects
<1>2. Spec => []FInv(t)
  BY ShownInvariant
<1> QED
  BY <1>1, <1>2, PTL
=============================================================================
