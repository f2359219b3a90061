-------------------------------- MODULE Walk ---------------------------------
(***************************************************************************)
(* The dependency walk of a `k8s-why` (causal.rs, why.rs) over the         *)
(* relationships this provider derives (relations.rs, relationship.rs).    *)
(* The edges of an object are those it states in fields of its own, and    *)
(* those a rule finds by reading a collection: every object a selector     *)
(* selects, or the children among them.  The walk goes outward from a      *)
(* subject, breadth first, to a bound on hops and one on reads.            *)
(*                                                                         *)
(* An object is known by what a reference to it says: a locator, which may *)
(* be spelled in more than one way, and a uid or none.  The invocation     *)
(* holds the session's lock, so neither the cluster's index nor what is    *)
(* served changes while it lasts; objects do not change either.            *)
(***************************************************************************)
EXTENDS Naturals, FiniteSets, SequencesExt

CONSTANTS
  Objects, Subject,
  Stated,     \* the graphs to walk: the references each object may state
  Spellings,  \* the ways a locator may be spelled
  Plain,      \* the one an object itself is spelled in
  Rule,       \* of each object: "none", "selected" or "owned"
  Selector,   \* and the selector the rule is narrowed by
  Labelled,   \* the objects of the collection each selector selects
  Children,   \* the children of each object among them
  Bounds,     \* the WalkBounds to walk within: hops to follow, far ends to read,
              \* and whether a collection is read to a bound on pages
  Silent      \* whether an API group may not answer the search

Reference == [object : Objects, uid : BOOLEAN, spelling : Spellings, asserted : BOOLEAN]

ASSUME WalkAssumption ==
  /\ IsFiniteSet(Objects) /\ IsFiniteSet(Spellings)
  /\ Subject \in Objects /\ Plain \in Spellings
  /\ Stated \subseteq [Objects -> SUBSET Reference]
  /\ Rule \in [Objects -> {"none", "selected", "owned"}]
  /\ Selector \in [Objects -> DOMAIN Labelled]
  /\ \A s \in DOMAIN Labelled : Labelled[s] \subseteq Objects
  /\ \A o \in Objects : Rule[o] = "owned" => Children[o] \subseteq Labelled[Selector[o]]
  /\ Bounds \subseteq [hops : Nat \ {0}, reads : Nat, pages : BOOLEAN]

VARIABLES
  graph,      \* what the objects state
  live,       \* whether the session has the collection in an index
  missing,    \* the objects that are not there
  bounds,     \* the bounds asked for
  frontier,   \* what is reached and not looked at: a reference and its path
  uids,       \* Seen: the objects reached by uid
  locators,   \* and the locators reached
  findings,   \* the paths found, each the sequence of its references
  read,       \* the objects read, in order
  listings,   \* the collections read so far, by selector
  gaps,       \* whether anything could not be read
  more,       \* whether the bound on reads cut the walk short
  phase

world == << graph, live, missing, bounds >>
seen  == << uids, locators >>
vars  == << world, frontier, seen, findings, read, listings, gaps, more, phase >>

(* What is held of a collection: whether it was read, and whether what the *)
(* rule is given is only a part of it, which may be nothing.               *)
Held ==
  {h \in [read : BOOLEAN, objects : SUBSET Objects, part : BOOLEAN] : h.part => h.read}

Unread == [read |-> FALSE, objects |-> {}, part |-> FALSE]
Part(objects)    == [read |-> TRUE, objects |-> objects, part |-> TRUE]
Listing(objects) == [read |-> TRUE, objects |-> objects, part |-> FALSE]

TypeOK ==
  /\ graph \in Stated /\ live \in BOOLEAN /\ missing \subseteq Objects
  /\ bounds \in Bounds
  /\ \A n \in DOMAIN frontier : frontier[n] \in Seq(Reference)
  /\ uids \subseteq Objects /\ locators \subseteq Objects \X Spellings
  /\ \A n \in DOMAIN findings : findings[n] \in Seq(Reference)
  /\ read \in Seq(Objects)
  /\ listings \in [DOMAIN Labelled -> Held]
  /\ gaps \in BOOLEAN /\ more \in BOOLEAN
  /\ phase \in {"begin", "walk", "done", "failed"}

Init ==
  /\ graph \in Stated
  /\ live \in BOOLEAN
  /\ missing \in SUBSET (Objects \ {Subject})
  /\ bounds \in Bounds
  /\ frontier = << >>
  /\ uids = {Subject} /\ locators = {<<Subject, Plain>>}
  /\ findings = << >> /\ read = << >>
  /\ listings = [s \in DOMAIN Labelled |-> Unread]
  /\ gaps = FALSE /\ more = FALSE
  /\ phase = "begin"

-----------------------------------------------------------------------------
(* The edges of one object.                                                *)

(* `Target::of_object`, of what a selector found.                          *)
Found(o, asserted) == [object |-> o, uid |-> TRUE, spelling |-> Plain, asserted |-> asserted]

(* `answered_by`, of the index, or the selector pushed to the API server.  *)
Answered(o) ==
  IF live /\ Rule[o] = "owned" THEN Children[o] \ missing
  ELSE Labelled[Selector[o]] \ missing

(* A listing that comes back short is not evaluated.  What is told of it   *)
(* is what its coverage says: a listing whose snapshot changed under it is *)
(* not intact and has no gap.                                              *)
CameBackShort == {[answer |-> Part({}), gap |-> told] : told \in BOOLEAN}

(* One that ends at a bound on pages is complete by its coverage.          *)
EndedAtTheBound(o) ==
  IF bounds.pages THEN {[answer |-> Part(some), gap |-> FALSE] : some \in SUBSET Answered(o)}
  ELSE {}

(* `collection`: what this invocation has read of it already, or a read,   *)
(* and whether that is told as a gap.                                      *)
Answers(o) ==
  IF listings[Selector[o]].read THEN {[answer |-> listings[Selector[o]], gap |-> FALSE]}
  ELSE {[answer |-> Listing(Answered(o)), gap |-> FALSE]} \cup
       IF live THEN {} ELSE CameBackShort \cup EndedAtTheBound(o)

(* `derive`, of an object whose rule has got that answer: what it states,  *)
(* and what the rule makes of the collection.                              *)
EdgesOver(o, answer) ==
  graph[o] \cup
    CASE Rule[o] = "selected" -> {Found(p, FALSE) : p \in answer.objects}
      [] Rule[o] = "owned"    -> {Found(p, TRUE) : p \in answer.objects \cap Children[o]}
      [] OTHER -> {}

(* A rule that cannot evaluate its selector, or whose collection is not    *)
(* served, reads nothing and says so.                                      *)
Derived(o) ==
  IF Rule[o] = "none" THEN {[answer |-> Unread, gap |-> FALSE]}
  ELSE Answers(o) \cup {[answer |-> Unread, gap |-> TRUE]}

Remember(o, answer) ==
  IF answer.read THEN [listings EXCEPT ![Selector[o]] = answer] ELSE listings

(* `ordered`: in an order that is the same whatever order they came in.    *)
Ordered(edges) == SetToSeq(edges)

(* The paths that go one reference further than a path, each by another.   *)
Extended(path, references) ==
  [n \in DOMAIN Ordered(references) |-> Append(path, Ordered(references)[n])]

-----------------------------------------------------------------------------
(* `Seen`.                                                                 *)

(* `is_subject`; the subject has a uid.                                    *)
IsSubject(r) ==
  r.object = Subject /\ (r.uid \/ r.spelling = Plain)

(* A mutated form of the next: a reference is known by its uid alone.      *)
KnownByUid(r, us, ls) == r.uid /\ r.object \in us

Known(r, us, ls) ==
  \/ r.uid /\ r.object \in us
  \/ <<r.object, r.spelling>> \in ls

Same(q, r) == Known(r, IF q.uid THEN {q.object} ELSE {}, {<<q.object, q.spelling>>})

(* `mark`, of each of the references, in whatever order: those that are    *)
(* new.  No two of them are the same, and what is left out was known or is *)
(* the same as one of them.                                                *)
Marking(edges, us, ls) ==
  LET unknown == {r \in edges : ~ IsSubject(r) /\ ~ Known(r, us, ls)} IN
  {new \in SUBSET unknown :
     /\ \A q, r \in new : q # r => ~ Same(q, r)
     /\ \A r \in unknown \ new : \E q \in new : Same(q, r)}

Mark(new) ==
  /\ uids' = uids \cup {r.object : r \in {r \in new : r.uid}}
  /\ locators' = locators \cup {<<r.object, r.spelling>> : r \in new}

-----------------------------------------------------------------------------
(* `explore`.                                                              *)

(* The first hop: every edge of the subject is a finding of its own.       *)
Begin ==
  /\ phase = "begin"
  /\ \E d \in Derived(Subject) :
       LET edges == EdgesOver(Subject, d.answer) IN
       \E new \in Marking(edges, uids, locators) :
         /\ findings' = Extended(<< >>, {r \in edges : ~ IsSubject(r)})
         /\ frontier' = Extended(<< >>, new)
         /\ Mark(new)
         /\ listings' = Remember(Subject, d.answer)
         /\ gaps' = d.gap
  /\ phase' = "walk"
  /\ UNCHANGED << world, read, more >>

Path    == Head(frontier)
Target  == Last(Path).object

FarEnough == Len(Path) >= bounds.hops
Spent     == Len(read) >= bounds.reads

(* At the bound on hops nothing is read, and nothing is missed by it.      *)
Stop ==
  /\ phase = "walk" /\ frontier # << >>
  /\ FarEnough
  /\ frontier' = Tail(frontier)
  /\ UNCHANGED << world, seen, findings, read, listings, gaps, more, phase >>

(* A mutated form of the next: what was not queried is not told.           *)
NotQueriedUntold == gaps

NotQueried == TRUE

(* At the bound on reads what is left is a gap in its scope.               *)
Leave ==
  /\ phase = "walk" /\ frontier # << >>
  /\ ~ FarEnough /\ Spent
  /\ frontier' = Tail(frontier)
  /\ gaps' = NotQueried
  /\ more' = TRUE
  /\ UNCHANGED << world, seen, findings, read, listings, phase >>

Reading ==
  /\ phase = "walk" /\ frontier # << >>
  /\ ~ FarEnough /\ ~ Spent
  /\ read' = Append(read, Target)

(* `expand`: the kind is not served, or the read was refused; or the       *)
(* object is not there, as far as the groups that answered can tell.       *)
Unreadable ==
  /\ Reading
  /\ gaps' = TRUE
  /\ frontier' = Tail(frontier)
  /\ UNCHANGED << world, seen, findings, listings, more, phase >>

Absent ==
  /\ Reading
  /\ Target \in missing \/ Silent
  /\ frontier' = Tail(frontier)
  /\ UNCHANGED << world, seen, findings, listings, gaps, more, phase >>

(* It was read, and whatever its edges reach that is new is a path.        *)
Expand ==
  /\ Reading
  /\ Target \notin missing
  /\ \E d \in Derived(Target) :
       \E new \in Marking(EdgesOver(Target, d.answer), uids, locators) :
         /\ findings' = findings \o Extended(Path, new)
         /\ frontier' = Tail(frontier) \o Extended(Path, new)
         /\ Mark(new)
         /\ listings' = Remember(Target, d.answer)
         /\ gaps' = (gaps \/ d.gap)
  /\ UNCHANGED << world, more, phase >>

(* The connection breaks under the reads that remain.                      *)
Break ==
  /\ Reading
  /\ phase' = "failed"
  /\ UNCHANGED << world, frontier, seen, findings, listings, gaps, more >>

Finish ==
  /\ phase = "walk" /\ frontier = << >>
  /\ phase' = "done"
  /\ UNCHANGED << world, frontier, seen, findings, read, listings, gaps, more >>

Next == Begin \/ Stop \/ Leave \/ Unreadable \/ Absent \/ Expand \/ Break \/ Finish

Spec == Init /\ [][Next]_vars

-----------------------------------------------------------------------------
(* Properties.                                                             *)

(* What `k8s-relation` answers of an object, asked by itself and whole.    *)
Related(o) ==
  {r.object : r \in EdgesOver(o, Listing(Labelled[Selector[o]] \ missing))} \ {Subject}

(* The routes of k hops from the subject, over objects that are there, and *)
(* the objects within n hops of it.                                        *)
Routes(k) ==
  {p \in [0..k -> Objects] :
     /\ p[0] = Subject
     /\ \A i \in 1..k : p[i - 1] \notin missing /\ p[i] \in Related(p[i - 1])}

Within(n) == UNION {{p[k] : p \in Routes(k)} : k \in 0..n}

Reached == {Last(findings[n]).object : n \in DOMAIN findings}

Shown == phase = "done" => Reached = Within(bounds.hops) \ {Subject}

(* "Three ways this reads nothing, and all three are gaps rather than      *)
(* empty results (§21.4): .. or the listing itself came back short": an    *)
(* answer that tells of no gap shows everything within its hops.  Of a     *)
(* short listing this code tells only what its coverage says, and so it is *)
(* not: section 6 of the README.                                           *)
NothingIsMissed == ~ gaps => Shown

(* Nor is one that a bound on pages cut off.                               *)
OnlyAPartWasHeld == \E s \in DOMAIN listings : listings[s].part

(* §40.3: what is so.  An answer that tells of nothing it could not see,   *)
(* and derived from no part of a collection, shows everything within its   *)
(* hops that asking hop by hop would have shown.                           *)
NothingIsMissedUntold == ~ gaps /\ ~ OnlyAPartWasHeld => Shown

(* "An object reached twice is reported once, along the first path found,  *)
(* which is a shortest one": beyond the first hop, and no object is read   *)
(* twice, nor the subject.                                                 *)
ReportedOnce ==
  /\ \A m, n \in DOMAIN findings :
       Len(findings[n]) > 1 /\ Last(findings[m]).object = Last(findings[n]).object =>
         m = n
  /\ IsInjective(read) /\ \A n \in DOMAIN read : read[n] # Subject

(* A finding is a chain of relationships, none of which the cluster would  *)
(* deny, and no longer than was asked for; no more is read than allowed.   *)
PathsAreReal ==
  /\ Len(read) <= bounds.reads
  /\ \A n \in DOMAIN findings :
       LET path == findings[n]
       IN  /\ Len(path) <= bounds.hops
           /\ \A k \in DOMAIN path :
                path[k].object \in Related(IF k = 1 THEN Subject ELSE path[k - 1].object)

(* What is reported was found, and is reported once.                       *)
ReportsAreFindings == ReportedOnce /\ PathsAreReal
=============================================================================
