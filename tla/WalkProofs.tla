----------------------------- MODULE WalkProofs ------------------------------
(***************************************************************************)
(* Proofs about Walk, for every finite set of objects, whatever they state *)
(* and whatever their selectors select, and for every bound on hops and    *)
(* reads: where every locator is spelled in one way, what is reported was  *)
(* found and once, and an answer that derived from whole collections and   *)
(* tells of no gap has missed nothing.                                     *)
(*                                                                         *)
(* And about the relationships a walk follows (Kin), for every cluster:    *)
(* the two ends of a relationship are told of the same one.                *)
(***************************************************************************)
EXTENDS Walk, Kinship, FiniteSetTheorems, WellFoundedInduction, TLAPS

-----------------------------------------------------------------------------
(* The conditions under which a walk keeps what it promises.               *)

(* A kind names its objects in one way: no two locators mean one object.   *)
OneSpelling == Spellings = {Plain}

(* A collection that is read of an owner's children is no other object's.  *)
ChildrenAreKept ==
  \A o, p \in Objects :
    Rule[o] = "owned" /\ Rule[p] # "none" /\ Selector[o] = Selector[p] => o = p

-----------------------------------------------------------------------------
(* The inductive invariant, in its parts.                                  *)

End(path) == path[Len(path)].object

(* What a walk keeps, and what it has not done before it began.            *)
WalkTypeOK ==
  /\ graph \in Stated /\ live \in BOOLEAN
  /\ missing \subseteq Objects \ {Subject} /\ bounds \in Bounds
  /\ frontier \in Seq(Seq(Reference)) /\ findings \in Seq(Seq(Reference))
  /\ read \in Seq(Objects)
  /\ listings \in [DOMAIN Labelled -> Held]
  /\ gaps \in BOOLEAN
  /\ phase \in {"begin", "walk", "done", "failed"}
  /\ phase = "begin" => frontier = << >> /\ findings = << >> /\ read = << >>
  /\ phase = "done" => frontier = << >>

(* A path of the cluster, over objects that were there to be read.         *)
IsChain(path) ==
  /\ Len(path) \in 1..bounds.hops
  /\ \A k \in 1..Len(path) :
       path[k].object \in Related(IF k = 1 THEN Subject ELSE path[k - 1].object)
  /\ \A k \in 1..(Len(path) - 1) : path[k].object \notin missing

Ends == {End(findings[n]) : n \in DOMAIN findings}

(* Every finding is a chain, and what is still to be looked at was found.  *)
Chained ==
  /\ \A n \in DOMAIN findings : IsChain(findings[n])
  /\ \A j \in DOMAIN frontier : \E n \in DOMAIN findings : frontier[j] = findings[n]

(* What is marked is what was found, and the subject.                      *)
MarkedIsFound ==
  /\ uids \subseteq Ends \cup {Subject}
  /\ locators = {<<o, Plain>> : o \in Ends \cup {Subject}}

(* Beyond the first hop, an object ends one finding.                       *)
FoundOnce ==
  \A m, n \in DOMAIN findings :
    Len(findings[n]) > 1 /\ End(findings[m]) = End(findings[n]) => m = n

(* What was read was found, and is read once; what is to be looked at was  *)
(* not read, and stands there once.                                        *)
ReadOnce ==
  /\ Len(read) <= bounds.reads
  /\ \A n \in DOMAIN read : read[n] \in Ends
  /\ \A m, n \in DOMAIN read : read[m] = read[n] => m = n
  /\ phase = "walk" =>
       /\ \A i, j \in DOMAIN frontier : End(frontier[i]) = End(frontier[j]) => i = j
       /\ \A j \in DOMAIN frontier, n \in DOMAIN read : read[n] # End(frontier[j])

(* The walk is breadth first: the frontier is in the order of its hops,    *)
(* and nothing was found further than one hop beyond its head.             *)
BreadthFirst ==
  phase = "walk" =>
    /\ \A i, j \in DOMAIN frontier : i < j => Len(frontier[i]) <= Len(frontier[j])
    /\ \A j \in DOMAIN frontier, n \in DOMAIN findings :
         Len(findings[n]) <= Len(frontier[j]) + 1

(* No listing holds what is not there, or what its selector leaves out.    *)
ListingsAreReal ==
  \A s \in DOMAIN Labelled : listings[s].objects \subseteq Labelled[s] \ missing

WInv ==
  /\ WalkTypeOK /\ ListingsAreReal /\ Chained /\ MarkedIsFound
  /\ FoundOnce /\ ReadOnce /\ BreadthFirst

(* What has been read of a collection is all that an object asked of it,   *)
(* unless a gap is told or it was not read whole.                          *)
Quiet == ~ gaps /\ ~ OnlyAPartWasHeld

Remembered ==
  /\ phase = "begin" => Quiet
  /\ \A s \in DOMAIN Labelled :
       listings[s].read /\ Quiet =>
         \E o \in Objects : /\ Rule[o] # "none" /\ Selector[o] = s
                            /\ listings[s] = Listing(Answered(o))

EndsWithin(f, n) == {End(f[m]) : m \in {m \in DOMAIN f : Len(f[m]) <= n}}

(* An object found is too far, or not there, or waited for, or whatever it *)
(* leads to has been found within one hop more.                            *)
IsFollowed(f, g, o, n) ==
  \/ n >= bounds.hops
  \/ o \in missing
  \/ \E j \in DOMAIN g : End(g[j]) = o /\ Len(g[j]) <= n
  \/ Related(o) \subseteq EndsWithin(f, n + 1)

AllFollowed(f, g) ==
  /\ Related(Subject) \subseteq EndsWithin(f, 1)
  /\ \A n \in DOMAIN f : IsFollowed(f, g, End(f[n]), Len(f[n]))

Followed == phase # "begin" /\ Quiet => AllFollowed(findings, frontier)

-----------------------------------------------------------------------------
(* Facts about the operators the walk is made of.                          *)

(* There is a least one among any numbers.                                 *)
LEMMA Least ==
  ASSUME NEW T \in SUBSET Nat, T # {}
  PROVE  \E x \in T : \A y \in T : x <= y
<1> DEFINE R == {ss \in Nat \X Nat : ss[1] < ss[2]}
<1>1. IsWellFoundedOn(R, Nat)
  BY NatLessThanWellFounded DEF OpToRel
<1>2. \A x, y \in Nat : y < x => <<y, x>> \in R
  OBVIOUS
<1> HIDE DEF R
<1>3. PICK x \in T : \A y \in T : ~ (<<y, x>> \in R)
  BY <1>1, WFMin
<1>4. \A y \in T : x \in Nat /\ y \in Nat
  OBVIOUS
<1>5. ASSUME NEW y \in T PROVE x <= y
  <2>1. x \in Nat /\ y \in Nat /\ ~ (<<y, x>> \in R)
    BY <1>3, <1>4
  <2>2. ~ (y < x)
    BY <1>2, <2>1
  <2> QED
    BY <2>1, <2>2
<1> QED
  BY <1>5

(* A finite set is put in order with each of its members, once.            *)
LEMMA OrderedIs ==
  ASSUME NEW A, IsFiniteSet(A)
  PROVE  /\ Ordered(A) \in Seq(A)
         /\ \A m, n \in DOMAIN Ordered(A) : Ordered(A)[m] = Ordered(A)[n] => m = n
         /\ \A x \in A : \E n \in DOMAIN Ordered(A) : Ordered(A)[n] = x
<1> DEFINE N == Cardinality(A)
<1>1. N \in Nat
  BY FS_CardinalityType
<1>2. IsFiniteSet(1..N) /\ Cardinality(1..N) = N
  BY <1>1, FS_Interval
<1>3. ExistsBijection(1..N, A)
  BY <1>2, FS_SameCardinalityBij
<1>4. \E f \in [1..N -> A] : IsInjective(f)
  BY <1>3 DEF ExistsBijection, Bijection, Injection
<1>5. Ordered(A) \in [1..N -> A] /\ IsInjective(Ordered(A))
  BY <1>4 DEF Ordered, SetToSeq
<1>6. Ordered(A) \in Injection(1..N, A)
  BY <1>5 DEF Injection
<1>7. Ordered(A) \in Surjection(1..N, A)
  BY <1>2, <1>6, FS_Injection
<1>8. \A x \in A : \E n \in 1..N : Ordered(A)[n] = x
  BY <1>7 DEF Surjection
<1> HIDE DEF N
<1>9. Ordered(A) \in Seq(A) /\ DOMAIN Ordered(A) = 1..N
  BY <1>1, <1>5
<1> QED
  BY <1>5, <1>8, <1>9 DEF IsInjective

(* References are finitely many, and so are the edges among them.          *)
LEMMA ReferencesAreFinite ==
  ASSUME NEW A \in SUBSET Reference
  PROVE  IsFiniteSet(A)
<1> DEFINE Q == (Objects \X BOOLEAN) \X (Spellings \X BOOLEAN)
           f == [r \in Reference |-> << <<r.object, r.uid>>, <<r.spelling, r.asserted>> >>]
<1>1. IsFiniteSet(BOOLEAN)
  <2>1. BOOLEAN = {TRUE} \cup {FALSE}
    OBVIOUS
  <2>2. IsFiniteSet({TRUE}) /\ IsFiniteSet({FALSE})
    BY FS_Singleton
  <2> QED
    BY <2>1, <2>2, FS_Union
<1>2. IsFiniteSet(Objects) /\ IsFiniteSet(Spellings)
  BY WalkAssumption
<1>3. IsFiniteSet(Objects \X BOOLEAN) /\ IsFiniteSet(Spellings \X BOOLEAN)
  BY <1>1, <1>2, FS_Product
<1>4. IsFiniteSet(Q)
  BY <1>3, FS_Product
<1>5. f \in [Reference -> Q]
  BY DEF Reference
<1>6. \A q, r \in Reference : f[q] = f[r] => q = r
  BY DEF Reference
<1>7. f \in Injection(Reference, Q)
  BY <1>5, <1>6 DEF Injection, IsInjective
<1>8. IsFiniteSet(Reference)
  BY <1>4, <1>7, FS_Injection
<1> QED
  BY <1>8, FS_Subset

(* The paths that go on from a path are one for each reference.            *)
IsExtended(g, path, A) ==
  /\ g \in Seq(Seq(Reference))
  /\ \A n \in DOMAIN g : \E r \in A : g[n] = Append(path, r)
  /\ \A r \in A : \E n \in DOMAIN g : g[n] = Append(path, r)
  /\ \A m, n \in DOMAIN g : \A r \in A :
       g[m] = Append(path, r) /\ g[n] = Append(path, r) => m = n

(* `explore` makes such paths of the references it has marked.             *)
LEMMA ExtendedIs ==
  ASSUME NEW path \in Seq(Reference), NEW A \in SUBSET Reference
  PROVE  IsExtended(Extended(path, A), path, A)
<1> DEFINE O == Ordered(A)
<1>1. /\ O \in Seq(A)
      /\ \A m, n \in DOMAIN O : O[m] = O[n] => m = n
      /\ \A x \in A : \E n \in DOMAIN O : O[n] = x
  BY ReferencesAreFinite, OrderedIs
<1>2. Extended(path, A) = [n \in DOMAIN O |-> Append(path, O[n])]
  BY DEF Extended
<1> HIDE DEF O
<1>3. DOMAIN O = 1..Len(O) /\ Len(O) \in Nat /\ \A n \in DOMAIN O : O[n] \in A
  BY <1>1
<1>4. \A r \in A : Append(path, r) \in Seq(Reference)
  OBVIOUS
<1>5. \A q, r \in A : Append(path, q) = Append(path, r) => q = r
  <2> SUFFICES ASSUME NEW q \in A, NEW r \in A, Append(path, q) = Append(path, r)
               PROVE  q = r
    OBVIOUS
  <2>1. Append(path, q)[Len(path) + 1] = q /\ Append(path, r)[Len(path) + 1] = r
    OBVIOUS
  <2> QED
    BY <2>1
<1>6. Extended(path, A) \in Seq(Seq(Reference))
  BY <1>2, <1>3, <1>4
<1>7. DOMAIN Extended(path, A) = DOMAIN O /\ \A n \in DOMAIN O : Extended(path, A)[n] = Append(path, O[n])
  BY <1>2
<1>8. ASSUME NEW m \in DOMAIN O, NEW n \in DOMAIN O, NEW r \in A,
             Extended(path, A)[m] = Append(path, r), Extended(path, A)[n] = Append(path, r)
      PROVE  m = n
  <2>1. Append(path, O[m]) = Append(path, r) /\ Append(path, O[n]) = Append(path, r)
    BY <1>7, <1>8
  <2>2. O[m] = r /\ O[n] = r
    BY <1>3, <1>5, <2>1
  <2> QED
    BY <1>1, <2>2
<1> QED
  BY <1>1, <1>3, <1>6, <1>7, <1>8 DEF IsExtended

(* A path that goes on by a reference ends at its object.                  *)
LEMMA AppendedPath ==
  ASSUME NEW path \in Seq(Reference), NEW r \in Reference
  PROVE  /\ Append(path, r) \in Seq(Reference)
         /\ Len(Append(path, r)) = Len(path) + 1
         /\ End(Append(path, r)) = r.object
         /\ Append(path, r)[Len(path) + 1] = r
         /\ \A k \in 1..Len(path) : Append(path, r)[k] = path[k]
BY DEF End

(* What an object states, and what a rule makes of an answer, are          *)
(* references; and an object with the part of its collection that is there *)
(* for an answer leads only where `k8s-relation` says it leads.            *)
LEMMA EdgesAreReal ==
  ASSUME WalkTypeOK, NEW o \in Objects, NEW answer,
         answer.objects \subseteq Labelled[Selector[o]] \ missing
  PROVE  /\ EdgesOver(o, answer) \in SUBSET Reference
         /\ \A r \in EdgesOver(o, answer) : r.object # Subject => r.object \in Related(o)
<1>1. /\ graph[o] \subseteq Reference
      /\ Labelled[Selector[o]] \subseteq Objects
      /\ Rule[o] = "owned" => Children[o] \subseteq Labelled[Selector[o]]
  BY WalkAssumption DEF WalkTypeOK
<1>2. \A p \in Objects, b \in BOOLEAN : Found(p, b) \in Reference /\ Found(p, b).object = p
  BY WalkAssumption DEF Found, Reference
<1> DEFINE whole == Listing(Labelled[Selector[o]] \ missing)
<1>3. whole.objects = Labelled[Selector[o]] \ missing
  BY DEF Listing
<1> HIDE DEF whole
<1>4. EdgesOver(o, answer) \subseteq EdgesOver(o, whole)
  <2>1. CASE Rule[o] = "selected"
    BY <1>3, <2>1 DEF EdgesOver
  <2>2. CASE Rule[o] = "owned"
    BY <1>3, <2>2 DEF EdgesOver
  <2>3. CASE Rule[o] \notin {"selected", "owned"}
    BY <2>3 DEF EdgesOver
  <2> QED
    BY <2>1, <2>2, <2>3
<1>5. EdgesOver(o, whole) \subseteq Reference
  <2>4. whole.objects \subseteq Objects
    BY <1>1, <1>3
  <2>1. CASE Rule[o] = "selected"
    <3>1. EdgesOver(o, whole) = graph[o] \cup {Found(p, FALSE) : p \in whole.objects}
      BY <2>1 DEF EdgesOver
    <3>2. \A p \in whole.objects : Found(p, FALSE) \in Reference
      BY <1>2, <2>4
    <3> QED
      BY <1>1, <3>1, <3>2
  <2>2. CASE Rule[o] = "owned"
    <3>1. EdgesOver(o, whole) = graph[o] \cup {Found(p, TRUE) : p \in whole.objects \cap Children[o]}
      BY <2>2 DEF EdgesOver
    <3>2. \A p \in whole.objects \cap Children[o] : Found(p, TRUE) \in Reference
      BY <1>2, <2>4
    <3> QED
      BY <1>1, <3>1, <3>2
  <2>3. CASE Rule[o] \notin {"selected", "owned"}
    BY <1>1, <2>3 DEF EdgesOver
  <2> QED
    BY <2>1, <2>2, <2>3
<1>6. Related(o) = {r.object : r \in EdgesOver(o, whole)} \ {Subject}
  BY DEF Related, whole
<1> QED
  BY <1>4, <1>5, <1>6

(* What `derive` answers of an object: a listing it may remember, of what  *)
(* is there, and edges the cluster would not deny.                         *)
LEMMA DerivedIs ==
  ASSUME WalkTypeOK, ListingsAreReal, NEW o \in Objects, NEW d \in Derived(o)
  PROVE  /\ d.answer \in Held
         /\ d.answer.objects \subseteq Labelled[Selector[o]] \ missing
         /\ d.gap \in BOOLEAN
<1>1. Selector[o] \in DOMAIN Labelled /\ Labelled[Selector[o]] \subseteq Objects
  BY WalkAssumption
<1> DEFINE s == Selector[o]
           IsOne(a) == a \in Held /\ a.objects \subseteq Labelled[s] \ missing
<1>2. Answered(o) \subseteq Labelled[s] \ missing
  BY WalkAssumption DEF Answered
<1>3. \A some \in SUBSET Answered(o) : IsOne(Listing(some)) /\ IsOne(Part(some))
  <2> SUFFICES ASSUME NEW some \in SUBSET Answered(o)
               PROVE  IsOne(Listing(some)) /\ IsOne(Part(some))
    OBVIOUS
  <2>1. some \in SUBSET Objects /\ some \subseteq Labelled[s] \ missing
    BY <1>1, <1>2
  <2> QED
    BY <2>1 DEF Listing, Part, Held
<1>4. IsOne(listings[s])
  BY <1>1 DEF WalkTypeOK, ListingsAreReal
<1>5. IsOne(Unread)
  BY DEF Unread, Held
<1> HIDE DEF IsOne
<1>6. \A a \in Answers(o) : IsOne(a.answer) /\ a.gap \in BOOLEAN
  <2> SUFFICES ASSUME NEW a \in Answers(o) PROVE IsOne(a.answer) /\ a.gap \in BOOLEAN
    OBVIOUS
  <2>1. CASE a \in CameBackShort
    <3>1. PICK told \in BOOLEAN : a = [answer |-> Part({}), gap |-> told]
      BY <2>1 DEF CameBackShort
    <3> QED
      BY <1>3, <3>1
  <2>2. CASE a \in EndedAtTheBound(o)
    <3>1. PICK some \in SUBSET Answered(o) : a = [answer |-> Part(some), gap |-> FALSE]
      BY <2>2 DEF EndedAtTheBound
    <3> QED
      BY <1>3, <3>1
  <2>3. CASE a = [answer |-> listings[s], gap |-> FALSE]
    BY <1>4, <2>3
  <2>4. CASE a = [answer |-> Listing(Answered(o)), gap |-> FALSE]
    BY <1>3, <2>4
  <2> QED
    BY <2>1, <2>2, <2>3, <2>4 DEF Answers
<1>7. IsOne(d.answer) /\ d.gap \in BOOLEAN
  <2>1. CASE d = [answer |-> Unread, gap |-> FALSE]
    BY <1>5, <2>1
  <2>2. CASE d = [answer |-> Unread, gap |-> TRUE]
    BY <1>5, <2>2
  <2>3. CASE d \in Answers(o)
    BY <1>6, <2>3
  <2> QED
    BY <2>1, <2>2, <2>3 DEF Derived
<1> QED
  BY <1>7 DEF IsOne

-----------------------------------------------------------------------------
(* Where every locator is spelled in one way, what is new is what was not  *)
(* found yet, once, and after it everything the edges lead to is found.    *)
LEMMA MarkingIs ==
  ASSUME OneSpelling, MarkedIsFound, NEW edges \in SUBSET Reference,
         NEW new \in Marking(edges, uids, locators)
  PROVE  /\ new \in SUBSET edges
         /\ \A q, r \in new : q.object = r.object => q = r
         /\ \A r \in new : r.object \notin Ends \cup {Subject}
         /\ \A r \in edges : r.object \in Ends \cup {Subject} \cup {q.object : q \in new}
         /\ Mark(new) =>
              /\ uids' \subseteq (Ends \cup {q.object : q \in new}) \cup {Subject}
              /\ locators' = {<<o, Plain>> : o \in (Ends \cup {q.object : q \in new}) \cup {Subject}}
<1> DEFINE Met == Ends \cup {Subject}
<1>1. \A r \in Reference : r.spelling = Plain
  BY DEF OneSpelling, Reference
<1>2. uids \subseteq Met /\ locators = {<<o, Plain>> : o \in Met}
  BY DEF MarkedIsFound
<1>3. Subject \in Met
  OBVIOUS
<1> HIDE DEF Met
<1>4. \A r \in Reference : IsSubject(r) <=> r.object = Subject
  BY <1>1 DEF IsSubject
<1>5. \A r \in Reference : Known(r, uids, locators) <=> r.object \in Met
  <2> SUFFICES ASSUME NEW r \in Reference PROVE Known(r, uids, locators) <=> r.object \in Met
    OBVIOUS
  <2>1. <<r.object, r.spelling>> \in locators <=> r.object \in Met
    BY <1>1, <1>2
  <2>2. r.uid /\ r.object \in uids => r.object \in Met
    BY <1>2
  <2> QED
    BY <2>1, <2>2 DEF Known
<1>6. \A q, r \in Reference : Same(q, r) <=> q.object = r.object
  <2> SUFFICES ASSUME NEW q \in Reference, NEW r \in Reference
               PROVE  Same(q, r) <=> q.object = r.object
    OBVIOUS
  <2>1. q.spelling = Plain /\ r.spelling = Plain
    BY <1>1
  <2> QED
    BY <2>1 DEF Same, Known
<1>7. /\ new \subseteq {r \in edges : ~ IsSubject(r) /\ ~ Known(r, uids, locators)}
      /\ \A q, r \in new : q # r => ~ Same(q, r)
      /\ \A r \in {r \in edges : ~ IsSubject(r) /\ ~ Known(r, uids, locators)} \ new :
           \E q \in new : Same(q, r)
  BY DEF Marking
<1>8. new \subseteq edges /\ new \subseteq Reference
  BY <1>7
<1>9. \A q, r \in new : q.object = r.object => q = r
  BY <1>6, <1>7, <1>8
<1>10. \A r \in new : r.object \notin Met
  BY <1>5, <1>7, <1>8
<1>11. ASSUME NEW r \in edges PROVE r.object \in Met \cup {q.object : q \in new}
  <2>1. r \in Reference
    OBVIOUS
  <2>2. CASE IsSubject(r) \/ Known(r, uids, locators)
    BY <1>3, <1>4, <1>5, <2>1, <2>2
  <2>3. CASE ~ IsSubject(r) /\ ~ Known(r, uids, locators)
    <3>1. \E q \in new : q.object = r.object
      BY <1>6, <1>7, <1>8, <2>1, <2>3
    <3> QED
      BY <3>1
  <2> QED
    BY <2>2, <2>3
<1>12. ASSUME Mark(new)
       PROVE  /\ uids' \subseteq Met \cup {q.object : q \in new}
              /\ locators' = {<<o, Plain>> : o \in Met \cup {q.object : q \in new}}
  <2>1. uids' \subseteq Met \cup {q.object : q \in new}
    BY <1>2, <1>12 DEF Mark
  <2>2. {<<r.object, r.spelling>> : r \in new} = {<<o, Plain>> : o \in {q.object : q \in new}}
    BY <1>1, <1>8
  <2>3. locators' = {<<o, Plain>> : o \in Met} \cup {<<o, Plain>> : o \in {q.object : q \in new}}
    BY <1>2, <1>12, <2>2 DEF Mark
  <2> QED
    BY <2>1, <2>3
<1>13. Met \cup {q.object : q \in new} = (Ends \cup {q.object : q \in new}) \cup {Subject}
  BY DEF Met
<1> QED
  BY <1>8, <1>9, <1>10, <1>11, <1>12, <1>13 DEF Met

(* A sequence without its first member, and one sequence after another.    *)
LEMMA TailIs ==
  ASSUME NEW A, NEW f \in Seq(A), f # << >>
  PROVE  /\ Tail(f) \in Seq(A)
         /\ 1 \in DOMAIN f /\ Head(f) = f[1]
         /\ \A j \in DOMAIN Tail(f) : j + 1 \in DOMAIN f /\ Tail(f)[j] = f[j + 1]
         /\ \A j \in DOMAIN f : j # 1 => j - 1 \in DOMAIN Tail(f) /\ Tail(f)[j - 1] = f[j]
OBVIOUS

(* What was found keeps its place, and what is new comes after it.         *)
LEMMA JoinedIs ==
  ASSUME NEW A, NEW f \in Seq(A), NEW g \in Seq(A)
  PROVE  /\ f \o g \in Seq(A)
         /\ \A n \in DOMAIN f : n \in DOMAIN (f \o g) /\ (f \o g)[n] = f[n]
         /\ \A n \in DOMAIN g : Len(f) + n \in DOMAIN (f \o g) /\ (f \o g)[Len(f) + n] = g[n]
         /\ \A n \in DOMAIN (f \o g) :
              n \in DOMAIN f \/ \E m \in DOMAIN g : n = Len(f) + m
<1>1. /\ f \o g \in Seq(A)
      /\ Len(f \o g) = Len(f) + Len(g)
      /\ \A n \in 1..(Len(f) + Len(g)) :
           (f \o g)[n] = IF n <= Len(f) THEN f[n] ELSE g[n - Len(f)]
  OBVIOUS
<1>2. /\ DOMAIN f = 1..Len(f) /\ DOMAIN g = 1..Len(g) /\ Len(f) \in Nat /\ Len(g) \in Nat
      /\ DOMAIN (f \o g) = 1..(Len(f) + Len(g))
  BY <1>1
<1>3. ASSUME NEW n \in DOMAIN g
      PROVE  Len(f) + n \in DOMAIN (f \o g) /\ (f \o g)[Len(f) + n] = g[n]
  <2>1. n \in 1..Len(g) /\ ~ (Len(f) + n <= Len(f)) /\ (Len(f) + n) - Len(f) = n
    BY <1>2
  <2> QED
    BY <1>1, <1>2, <2>1
<1>4. ASSUME NEW n \in DOMAIN (f \o g), n \notin DOMAIN f
      PROVE  \E m \in DOMAIN g : n = Len(f) + m
  <2>1. n - Len(f) \in 1..Len(g) /\ n = Len(f) + (n - Len(f))
    BY <1>2, <1>4
  <2> QED
    BY <1>2, <2>1
<1>5. ASSUME NEW n \in DOMAIN f PROVE n \in DOMAIN (f \o g) /\ (f \o g)[n] = f[n]
  BY <1>1, <1>2
<1> QED
  BY <1>1, <1>3, <1>4, <1>5

(* The cluster stands still while it is walked.                            *)
LEMMA WorldStands ==
  ASSUME UNCHANGED world
  PROVE  /\ \A o : Related(o)' = Related(o)
         /\ \A path : IsChain(path)' <=> IsChain(path)
<1>1. graph' = graph /\ missing' = missing /\ bounds' = bounds
  BY DEF world
<1>2. \A o : Related(o)' = Related(o)
  BY <1>1 DEF Related, EdgesOver, Listing
<1>3. \A path : IsChain(path)' <=> IsChain(path)
  BY <1>1, <1>2 DEF IsChain
<1> QED
  BY <1>2, <1>3

-----------------------------------------------------------------------------
(* Initially nothing is found but the subject.                             *)
LEMMA InitWInv == Init => WInv /\ Remembered /\ Followed
<1> SUFFICES ASSUME Init PROVE WInv /\ Remembered /\ Followed
  OBVIOUS
<1>1. /\ graph \in Stated /\ live \in BOOLEAN /\ missing \subseteq Objects \ {Subject}
      /\ bounds \in Bounds /\ frontier = << >> /\ findings = << >> /\ read = << >>
      /\ uids = {Subject} /\ locators = {<<Subject, Plain>>}
      /\ listings = [s \in DOMAIN Labelled |-> Unread]
      /\ gaps = FALSE /\ phase = "begin"
  BY DEF Init
<1>2. WalkTypeOK
  <2>1. /\ frontier \in Seq(Seq(Reference)) /\ findings \in Seq(Seq(Reference))
        /\ read \in Seq(Objects)
    BY <1>1
  <2>2. listings \in [DOMAIN Labelled -> Held]
    BY <1>1 DEF Unread, Held
  <2>3. /\ gaps \in BOOLEAN /\ phase \in {"begin", "walk", "done", "failed"}
        /\ phase = "done" => frontier = << >>
    BY <1>1
  <2> QED
    BY <1>1, <2>1, <2>2, <2>3 DEF WalkTypeOK
<1>3. Ends = {}
  BY <1>1 DEF Ends
<1>4. MarkedIsFound
  BY <1>1, <1>3 DEF MarkedIsFound
<1>5. Chained /\ FoundOnce /\ BreadthFirst
  BY <1>1 DEF Chained, FoundOnce, BreadthFirst
<1>6. ReadOnce
  <2>1. bounds.reads \in Nat
    BY <1>1, WalkAssumption
  <2>2. Len(read) <= bounds.reads /\ DOMAIN read = {}
    BY <1>1, <2>1
  <2> QED
    BY <1>1, <2>2 DEF ReadOnce
<1>7. ListingsAreReal
  BY <1>1 DEF ListingsAreReal, Unread
<1>8. Remembered
  BY <1>1 DEF Remembered, Quiet, OnlyAPartWasHeld, Unread
<1>9. Followed
  BY <1>1 DEF Followed
<1> QED
  BY <1>2, <1>4, <1>5, <1>6, <1>7, <1>8, <1>9 DEF WInv

(* What stands at the head of the frontier was found.                      *)
LEMMA HeadIs ==
  ASSUME WInv, frontier # << >>
  PROVE  /\ Path = frontier[1] /\ 1 \in DOMAIN frontier
         /\ Path \in Seq(Reference) /\ Len(Path) \in Nat \ {0}
         /\ IsChain(Path)
         /\ Target = End(Path) /\ Target \in Ends /\ Target \in Objects
         /\ bounds.hops \in Nat /\ bounds.reads \in Nat
<1>1. frontier \in Seq(Seq(Reference)) /\ findings \in Seq(Seq(Reference)) /\ bounds \in Bounds
  BY DEF WInv, WalkTypeOK
<1>2. 1 \in DOMAIN frontier /\ Path = frontier[1] /\ Path \in Seq(Reference)
  BY <1>1, TailIs DEF Path
<1>3. PICK n \in DOMAIN findings : Path = findings[n]
  BY <1>2 DEF WInv, Chained
<1>4. IsChain(Path)
  BY <1>3 DEF WInv, Chained
<1>5. bounds.hops \in Nat /\ bounds.reads \in Nat
  BY <1>1, WalkAssumption
<1>6. Len(Path) \in Nat /\ Len(Path) \in 1..bounds.hops
  BY <1>2, <1>4 DEF IsChain
<1>7. Len(Path) \in Nat \ {0}
  BY <1>5, <1>6
<1>8. Target = End(Path)
  BY DEF Target, End, Last
<1>9. End(Path) \in Ends
  BY <1>3 DEF Ends
<1>10. Path[Len(Path)] \in Reference
  BY <1>2, <1>7
<1>11. End(Path) \in Objects
  BY <1>10 DEF End, Reference
<1> QED
  BY <1>2, <1>4, <1>5, <1>7, <1>8, <1>9, <1>11

(* An object that is read was found, and neither was it read nor does it   *)
(* stand in the frontier again.                                            *)
LEMMA ReadingIs ==
  ASSUME WInv, Reading
  PROVE  /\ read' \in Seq(Objects) /\ Len(read') <= bounds.reads
         /\ \A n \in DOMAIN read' : read'[n] \in Ends
         /\ \A m, n \in DOMAIN read' : read'[m] = read'[n] => m = n
         /\ \A j \in DOMAIN frontier, n \in DOMAIN read' :
              j # 1 => read'[n] # End(frontier[j])
<1>1. /\ phase = "walk" /\ frontier # << >> /\ read' = Append(read, Target)
      /\ ~ (Len(read) >= bounds.reads)
  BY DEF Reading, Spent
<1>2. /\ 1 \in DOMAIN frontier /\ Target = End(frontier[1])
      /\ Target \in Ends /\ Target \in Objects /\ bounds.reads \in Nat
  BY <1>1, HeadIs
<1>3. read \in Seq(Objects)
  BY DEF WInv, WalkTypeOK
<1>4. /\ \A n \in DOMAIN read : read[n] \in Ends
      /\ \A m, n \in DOMAIN read : read[m] = read[n] => m = n
      /\ \A i, j \in DOMAIN frontier : End(frontier[i]) = End(frontier[j]) => i = j
      /\ \A j \in DOMAIN frontier, n \in DOMAIN read : read[n] # End(frontier[j])
  BY <1>1 DEF WInv, ReadOnce
<1>5. /\ read' \in Seq(Objects) /\ Len(read') = Len(read) + 1 /\ Len(read) \in Nat
      /\ read'[Len(read) + 1] = Target
      /\ \A n \in DOMAIN read' : n = Len(read) + 1 \/ (n \in DOMAIN read /\ read'[n] = read[n])
  BY <1>1, <1>2, <1>3
<1>6. Len(read') <= bounds.reads
  BY <1>1, <1>2, <1>5
<1>7. \A n \in DOMAIN read' : read'[n] \in Ends
  BY <1>2, <1>4, <1>5
<1>8. \A n \in DOMAIN read : read[n] # Target
  BY <1>2, <1>4
<1>9. \A m, n \in DOMAIN read' : read'[m] = read'[n] => m = n
  BY <1>4, <1>5, <1>8
<1>10. ASSUME NEW j \in DOMAIN frontier, NEW n \in DOMAIN read', j # 1
       PROVE  read'[n] # End(frontier[j])
  <2>1. Target # End(frontier[j])
    BY <1>2, <1>4, <1>10
  <2> QED
    BY <1>4, <1>5, <2>1
<1> QED
  BY <1>5, <1>6, <1>7, <1>9, <1>10

(* What is taken off the head of the frontier leaves the rest in order.    *)
LEMMA PopWInv ==
  ASSUME WInv, phase = "walk", frontier # << >>,
         UNCHANGED << world, seen, findings, listings, phase >>,
         frontier' = Tail(frontier), gaps' \in BOOLEAN,
         UNCHANGED read \/ Reading
  PROVE  WInv'
<1> USE DEF WInv
<1>1. /\ frontier' \in Seq(Seq(Reference))
      /\ \A j \in DOMAIN frontier' : j + 1 \in DOMAIN frontier /\ frontier'[j] = frontier[j + 1]
  BY TailIs DEF WalkTypeOK
<1>2. /\ graph' = graph /\ live' = live /\ missing' = missing /\ bounds' = bounds
      /\ uids' = uids /\ locators' = locators /\ findings' = findings
      /\ listings' = listings /\ phase' = phase
  BY DEF world, seen
<1>3. Ends' = Ends
  BY <1>2 DEF Ends
<1>4. /\ read' \in Seq(Objects) /\ Len(read') <= bounds.reads
      /\ \A n \in DOMAIN read' : read'[n] \in Ends
      /\ \A m, n \in DOMAIN read' : read'[m] = read'[n] => m = n
      /\ \A j \in DOMAIN frontier, n \in DOMAIN read' : j # 1 => read'[n] # End(frontier[j])
  <2>1. CASE UNCHANGED read
    BY <2>1 DEF ReadOnce, WalkTypeOK
  <2>2. CASE Reading
    BY <2>2, ReadingIs
  <2> QED
    BY <2>1, <2>2
<1>5. \A j \in DOMAIN frontier' : j \in Nat \ {0} /\ j + 1 # 1
  BY <1>1
<1>6. WalkTypeOK'
  BY <1>1, <1>2, <1>4 DEF WalkTypeOK
<1>7. ListingsAreReal'
  BY <1>2 DEF ListingsAreReal
<1>8. Chained'
  <2>1. \A path : IsChain(path)' <=> IsChain(path)
    BY <1>2, WorldStands DEF world
  <2>2. \A n \in DOMAIN findings : IsChain(findings[n])'
    BY <2>1 DEF Chained
  <2>3. \A n \in DOMAIN findings' : IsChain(findings[n])'
    BY <1>2, <2>2
  <2>4. \A j \in DOMAIN frontier' : \E n \in DOMAIN findings' : frontier'[j] = findings'[n]
    BY <1>1, <1>2 DEF Chained
  <2> QED
    BY <2>3, <2>4 DEF Chained
<1>9. MarkedIsFound' /\ FoundOnce'
  BY <1>2, <1>3 DEF MarkedIsFound, FoundOnce
<1>10. ReadOnce'
  <2>1. ASSUME NEW i \in DOMAIN frontier', NEW j \in DOMAIN frontier', End(frontier'[i]) = End(frontier'[j])
        PROVE  i = j
    <3>1. End(frontier[i + 1]) = End(frontier[j + 1])
      BY <1>1, <2>1
    <3>2. i + 1 = j + 1
      BY <1>1, <3>1 DEF ReadOnce
    <3> QED
      BY <1>5, <3>2
  <2>2. \A j \in DOMAIN frontier', n \in DOMAIN read' : read'[n] # End(frontier'[j])
    BY <1>1, <1>4, <1>5
  <2> QED
    BY <1>2, <1>3, <1>4, <2>1, <2>2 DEF ReadOnce
<1>11. BreadthFirst'
  <2>1. ASSUME NEW i \in DOMAIN frontier', NEW j \in DOMAIN frontier', i < j
        PROVE  Len(frontier'[i]) <= Len(frontier'[j])
    <3>1. i + 1 < j + 1 /\ i + 1 \in DOMAIN frontier /\ j + 1 \in DOMAIN frontier
      BY <1>1, <1>5, <2>1
    <3>2. Len(frontier[i + 1]) <= Len(frontier[j + 1])
      BY <3>1 DEF BreadthFirst
    <3> QED
      BY <1>1, <3>2
  <2>2. \A j \in DOMAIN frontier', n \in DOMAIN findings' :
          Len(findings'[n]) <= Len(frontier'[j]) + 1
    BY <1>1, <1>2 DEF BreadthFirst
  <2> QED
    BY <2>1, <2>2 DEF BreadthFirst
<1> QED
  BY <1>6, <1>7, <1>8, <1>9, <1>10, <1>11

(* Paths that are one for each reference, after other paths.               *)
IsGrown(g, f, path, new) ==
  /\ g \in Seq(Seq(Reference))
  /\ \A n \in DOMAIN f : n \in DOMAIN g /\ g[n] = f[n]
  /\ \A n \in DOMAIN g :
       n \in DOMAIN f \/ (n > Len(f) /\ \E r \in new : g[n] = Append(path, r))
  /\ \A r \in new : \E n \in DOMAIN g : g[n] = Append(path, r)
  /\ \A m, n \in DOMAIN g : \A r \in new :
       m \notin DOMAIN f /\ n \notin DOMAIN f
         /\ g[m] = Append(path, r) /\ g[n] = Append(path, r) => m = n

(* The findings, and the frontier, grow so by what one object leads to.    *)
LEMMA GrownIs ==
  ASSUME NEW f \in Seq(Seq(Reference)), NEW path \in Seq(Reference), NEW new \in SUBSET Reference
  PROVE  IsGrown(f \o Extended(path, new), f, path, new)
<1> DEFINE g == f \o Extended(path, new)
<1> DEFINE X == Extended(path, new)
<1>1. /\ X \in Seq(Seq(Reference))
      /\ \A n \in DOMAIN X : \E r \in new : X[n] = Append(path, r)
      /\ \A r \in new : \E n \in DOMAIN X : X[n] = Append(path, r)
      /\ \A m, n \in DOMAIN X : \A r \in new :
           X[m] = Append(path, r) /\ X[n] = Append(path, r) => m = n
  BY ExtendedIs DEF IsExtended
<1> HIDE DEF X
<1>2. g = f \o X
  BY DEF X
<1> HIDE DEF g
<1>3. /\ g \in Seq(Seq(Reference))
      /\ \A n \in DOMAIN f : n \in DOMAIN g /\ g[n] = f[n]
      /\ \A n \in DOMAIN X : Len(f) + n \in DOMAIN g /\ g[Len(f) + n] = X[n]
      /\ \A n \in DOMAIN g : n \in DOMAIN f \/ \E m \in DOMAIN X : n = Len(f) + m
  <2> DEFINE A == Seq(Reference)
  <2>1. f \in Seq(A) /\ X \in Seq(A)
    BY <1>1
  <2> HIDE DEF A
  <2>2. /\ f \o X \in Seq(A)
        /\ \A n \in DOMAIN f : n \in DOMAIN (f \o X) /\ (f \o X)[n] = f[n]
        /\ \A n \in DOMAIN X : Len(f) + n \in DOMAIN (f \o X) /\ (f \o X)[Len(f) + n] = X[n]
        /\ \A n \in DOMAIN (f \o X) : n \in DOMAIN f \/ \E m \in DOMAIN X : n = Len(f) + m
    BY <2>1, JoinedIs
  <2> QED
    BY <1>2, <2>2, Zenon DEF A
<1>4. Len(f) \in Nat /\ \A n \in DOMAIN X : n \in Nat \ {0}
  BY <1>1
<1>5. ASSUME NEW n \in DOMAIN g, n \notin DOMAIN f
      PROVE  n > Len(f) /\ \E r \in new : g[n] = Append(path, r)
  <2>1. PICK m \in DOMAIN X : n = Len(f) + m
    BY <1>3, <1>5
  <2>2. g[n] = X[m]
    BY <1>3, <2>1
  <2>3. n > Len(f)
    BY <1>4, <2>1
  <2> QED
    BY <1>1, <2>2, <2>3
<1>6. \A r \in new : \E n \in DOMAIN g : g[n] = Append(path, r)
  BY <1>1, <1>3
<1>7. ASSUME NEW m \in DOMAIN g, NEW n \in DOMAIN g, NEW r \in new,
             m \notin DOMAIN f, n \notin DOMAIN f, g[m] = Append(path, r), g[n] = Append(path, r)
      PROVE  m = n
  <2>1. PICK i \in DOMAIN X : m = Len(f) + i
    BY <1>3, <1>7
  <2>2. PICK j \in DOMAIN X : n = Len(f) + j
    BY <1>3, <1>7
  <2>3. X[i] = Append(path, r) /\ X[j] = Append(path, r)
    BY <1>3, <1>7, <2>1, <2>2
  <2>4. i = j
    BY <1>1, <2>3
  <2> QED
    BY <2>1, <2>2, <2>4
<1>8. IsGrown(g, f, path, new)
  BY <1>3, <1>5, <1>6, <1>7 DEF IsGrown
<1> QED
  BY <1>8 DEF g

(* What is remembered of a collection is what is there of it.              *)
LEMMA RememberIs ==
  ASSUME WalkTypeOK, ListingsAreReal, NEW o \in Objects, NEW d \in Derived(o),
         listings' = Remember(o, d.answer), missing' = missing
  PROVE  /\ listings' \in [DOMAIN Labelled -> Held]
         /\ ListingsAreReal'
<1>1. d.answer \in Held /\ d.answer.objects \subseteq Labelled[Selector[o]] \ missing
  BY DerivedIs
<1>2. listings \in [DOMAIN Labelled -> Held] /\ Selector[o] \in DOMAIN Labelled
  BY WalkAssumption DEF WalkTypeOK
<1>3. listings' = [listings EXCEPT ![Selector[o]] = d.answer] \/ listings' = listings
  BY DEF Remember
<1>4. listings' \in [DOMAIN Labelled -> Held]
  BY <1>1, <1>2, <1>3
<1>5. \A s \in DOMAIN Labelled :
        listings'[s] = listings[s] \/ (s = Selector[o] /\ listings'[s] = d.answer)
  BY <1>2, <1>3
<1>6. ListingsAreReal'
  BY <1>1, <1>5 DEF ListingsAreReal
<1> QED
  BY <1>4, <1>6

(* A chain over an object that is there goes on to whatever it leads to.   *)
LEMMA ChainGoesOn ==
  ASSUME NEW path \in Seq(Reference), IsChain(path), Len(path) < bounds.hops,
         bounds.hops \in Nat, End(path) \notin missing,
         NEW r \in Reference, r.object \in Related(End(path))
  PROVE  IsChain(Append(path, r))
<1> DEFINE n == Len(path)
<1>1. n \in Nat \ {0} /\ n + 1 \in 1..bounds.hops
  BY DEF IsChain
<1>2. /\ Len(Append(path, r)) = n + 1
      /\ Append(path, r)[n + 1] = r
      /\ \A k \in 1..n : Append(path, r)[k] = path[k]
  BY AppendedPath
<1>3. path[n].object \notin missing /\ r.object \in Related(path[n].object)
  BY DEF End
<1>4. /\ \A k \in 1..n :
           path[k].object \in Related(IF k = 1 THEN Subject ELSE path[k - 1].object)
      /\ \A k \in 1..(n - 1) : path[k].object \notin missing
  BY DEF IsChain
<1> DEFINE q == Append(path, r)
<1> HIDE DEF n, q
<1>5. ASSUME NEW k \in 1..(n + 1)
      PROVE  q[k].object \in Related(IF k = 1 THEN Subject ELSE q[k - 1].object)
  <2>1. CASE k = n + 1
    <3>1. q[k] = r /\ k # 1 /\ k - 1 = n /\ n \in 1..n
      BY <1>1, <1>2, <2>1 DEF q
    <3>2. q[k - 1] = path[n]
      BY <1>2, <3>1 DEF q
    <3> QED
      BY <1>3, <3>1, <3>2
  <2>2. CASE k # n + 1
    <3>1. k \in 1..n /\ (k # 1 => k - 1 \in 1..n)
      BY <1>1, <2>2
    <3>2. q[k] = path[k] /\ (k # 1 => q[k - 1] = path[k - 1])
      BY <1>2, <3>1 DEF q
    <3> QED
      BY <1>4, <3>1, <3>2
  <2> QED
    BY <2>1, <2>2
<1>6. ASSUME NEW k \in 1..n
      PROVE  q[k].object \notin missing
  <2>1. q[k] = path[k]
    BY <1>2 DEF q
  <2>2. k = n \/ k \in 1..(n - 1)
    BY <1>1
  <2> QED
    BY <1>3, <1>4, <2>1, <2>2
<1>7. Len(q) = n + 1 /\ (n + 1) - 1 = n
  BY <1>1, <1>2 DEF q
<1>8. IsChain(q)
  BY <1>1, <1>5, <1>6, <1>7 DEF IsChain
<1> QED
  BY <1>8 DEF q

(* What `Expand` does, in terms of the references it marks.                *)
LEMMA ExpandIs ==
  ASSUME WInv, OneSpelling, Expand
  PROVE  \E d \in Derived(Target), new \in SUBSET Reference :
           LET N == {q.object : q \in new} IN
           /\ new \subseteq EdgesOver(Target, d.answer)
           /\ \A q, r \in new : q.object = r.object => q = r
           /\ \A r \in new : /\ r.object \notin Ends \cup {Subject}
                             /\ IsChain(Append(Path, r))
           /\ \A r \in EdgesOver(Target, d.answer) : r.object \in Ends \cup {Subject} \cup N
           /\ uids' \subseteq (Ends \cup N) \cup {Subject}
           /\ locators' = {<<o, Plain>> : o \in (Ends \cup N) \cup {Subject}}
           /\ findings' = findings \o Extended(Path, new)
           /\ frontier' = Tail(frontier) \o Extended(Path, new)
           /\ listings' = Remember(Target, d.answer)
           /\ gaps' = (gaps \/ d.gap)
<1>1. PICK d \in Derived(Target) : \E new \in Marking(EdgesOver(Target, d.answer), uids, locators) :
        /\ findings' = findings \o Extended(Path, new)
        /\ frontier' = Tail(frontier) \o Extended(Path, new)
        /\ Mark(new)
        /\ listings' = Remember(Target, d.answer)
        /\ gaps' = (gaps \/ d.gap)
  BY DEF Expand
<1>2. PICK new \in Marking(EdgesOver(Target, d.answer), uids, locators) :
        /\ findings' = findings \o Extended(Path, new)
        /\ frontier' = Tail(frontier) \o Extended(Path, new)
        /\ Mark(new)
        /\ listings' = Remember(Target, d.answer)
        /\ gaps' = (gaps \/ d.gap)
  BY <1>1
<1>3. Target \notin missing /\ frontier # << >> /\ ~ (Len(Path) >= bounds.hops)
  BY DEF Expand, Reading, FarEnough
<1>4. /\ Path \in Seq(Reference) /\ Len(Path) \in Nat /\ IsChain(Path)
      /\ Target = End(Path) /\ Target \in Objects /\ bounds.hops \in Nat
  BY <1>3, HeadIs
<1>5. WalkTypeOK /\ ListingsAreReal /\ MarkedIsFound
  BY DEF WInv
<1> DEFINE edges == EdgesOver(Target, d.answer)
           N == {q.object : q \in new}
<1>6. d.answer.objects \subseteq Labelled[Selector[Target]] \ missing
  BY <1>4, <1>5, DerivedIs
<1>7. /\ edges \in SUBSET Reference
      /\ \A r \in edges : r.object # Subject => r.object \in Related(Target)
  BY <1>4, <1>5, <1>6, EdgesAreReal
<1> HIDE DEF edges
<1>8. new \in Marking(edges, uids, locators)
  BY DEF edges
<1>9. /\ new \in SUBSET edges
      /\ \A q, r \in new : q.object = r.object => q = r
      /\ \A r \in new : r.object \notin Ends \cup {Subject}
      /\ \A r \in edges : r.object \in Ends \cup {Subject} \cup N
      /\ Mark(new) =>
           /\ uids' \subseteq (Ends \cup N) \cup {Subject}
           /\ locators' = {<<o, Plain>> : o \in (Ends \cup N) \cup {Subject}}
  BY <1>5, <1>7, <1>8, MarkingIs
<1>10. ASSUME NEW r \in new PROVE IsChain(Append(Path, r))
  <2>1. r \in Reference /\ r.object \in Related(End(Path))
    BY <1>4, <1>7, <1>9
  <2>2. Len(Path) < bounds.hops /\ End(Path) \notin missing
    BY <1>3, <1>4
  <2> QED
    BY <1>4, <2>1, <2>2, ChainGoesOn
<1>11. new \in SUBSET Reference
  BY <1>7, <1>9
<1> WITNESS d \in Derived(Target), new \in SUBSET Reference
<1> QED
  BY <1>2, <1>9, <1>10 DEF edges

(* Going on from the head of the frontier keeps the invariant.             *)
LEMMA ExpandWInv ==
  ASSUME WInv, OneSpelling, Expand
  PROVE  WInv'
<1> USE DEF WInv
<1>1. PICK d \in Derived(Target), new \in SUBSET Reference :
        /\ \A q, r \in new : q.object = r.object => q = r
        /\ \A r \in new : /\ r.object \notin Ends \cup {Subject}
                          /\ IsChain(Append(Path, r))
        /\ uids' \subseteq (Ends \cup {q.object : q \in new}) \cup {Subject}
        /\ locators' = {<<o, Plain>> : o \in (Ends \cup {q.object : q \in new}) \cup {Subject}}
        /\ findings' = findings \o Extended(Path, new)
        /\ frontier' = Tail(frontier) \o Extended(Path, new)
        /\ listings' = Remember(Target, d.answer)
        /\ gaps' = (gaps \/ d.gap)
  BY ExpandIs
<1> DEFINE N == {q.object : q \in new}
<1>2. /\ phase = "walk" /\ frontier # << >> /\ Reading
      /\ graph' = graph /\ live' = live /\ missing' = missing /\ bounds' = bounds
      /\ phase' = phase
  BY DEF Expand, Reading, world
<1>3. /\ Path = frontier[1] /\ 1 \in DOMAIN frontier
      /\ Path \in Seq(Reference) /\ Len(Path) \in Nat \ {0} /\ IsChain(Path)
      /\ Target = End(Path) /\ Target \in Ends /\ Target \in Objects
  BY <1>2, HeadIs
<1>4. frontier \in Seq(Seq(Reference)) /\ findings \in Seq(Seq(Reference))
  BY DEF WalkTypeOK
<1> DEFINE rest == Tail(frontier)
<1>5. /\ rest \in Seq(Seq(Reference))
      /\ \A j \in DOMAIN rest : j + 1 \in DOMAIN frontier /\ rest[j] = frontier[j + 1]
  BY <1>2, <1>4, TailIs
<1>6. \A j \in DOMAIN rest : j \in Nat \ {0} /\ j + 1 # 1 /\ j <= Len(rest)
  BY <1>5
<1> HIDE DEF rest
<1>7. /\ findings' \in Seq(Seq(Reference))
      /\ \A n \in DOMAIN findings : n \in DOMAIN findings' /\ findings'[n] = findings[n]
      /\ \A n \in DOMAIN findings' :
           n \in DOMAIN findings \/ (n > Len(findings) /\ \E r \in new : findings'[n] = Append(Path, r))
      /\ \A r \in new : \E n \in DOMAIN findings' : findings'[n] = Append(Path, r)
      /\ \A m, n \in DOMAIN findings' : \A r \in new :
           m \notin DOMAIN findings /\ n \notin DOMAIN findings
             /\ findings'[m] = Append(Path, r) /\ findings'[n] = Append(Path, r) => m = n
  <2>1. findings' = findings \o Extended(Path, new)
    BY <1>1
  <2>2. IsGrown(findings', findings, Path, new)
    BY <1>3, <1>4, <2>1, GrownIs
  <2> QED
    BY <2>2 DEF IsGrown
<1>8. /\ frontier' \in Seq(Seq(Reference))
      /\ \A n \in DOMAIN rest : n \in DOMAIN frontier' /\ frontier'[n] = rest[n]
      /\ \A n \in DOMAIN frontier' :
           n \in DOMAIN rest \/ (n > Len(rest) /\ \E r \in new : frontier'[n] = Append(Path, r))
      /\ \A m, n \in DOMAIN frontier' : \A r \in new :
           m \notin DOMAIN rest /\ n \notin DOMAIN rest
             /\ frontier'[m] = Append(Path, r) /\ frontier'[n] = Append(Path, r) => m = n
  <2>1. frontier' = rest \o Extended(Path, new)
    BY <1>1 DEF rest
  <2>2. IsGrown(frontier', rest, Path, new)
    BY <1>3, <1>5, <2>1, GrownIs
  <2> QED
    BY <2>2 DEF IsGrown
<1>9. \A r \in new : /\ End(Append(Path, r)) = r.object
                     /\ Len(Append(Path, r)) = Len(Path) + 1
                     /\ r.object \in N /\ r.object \notin Ends
  BY <1>1, <1>3, AppendedPath
<1>10. Ends' = Ends \cup N
  <2>1. Ends' = {End(findings'[n]) : n \in DOMAIN findings'}
    BY DEF Ends, End
  <2>2. Ends' \subseteq Ends \cup N
    <3> SUFFICES ASSUME NEW n \in DOMAIN findings' PROVE End(findings'[n]) \in Ends \cup N
      BY <2>1
    <3>1. CASE n \in DOMAIN findings
      BY <1>7, <3>1 DEF Ends
    <3>2. CASE n \notin DOMAIN findings
      <4>1. PICK r \in new : findings'[n] = Append(Path, r)
        BY <1>7, <3>2
      <4>2. r.object \in N /\ End(findings'[n]) = r.object
        BY <1>9, <4>1, Zenon
      <4> QED
        BY <4>2
    <3> QED
      BY <3>1, <3>2
  <2>3. Ends \subseteq Ends'
    BY <1>7, <2>1 DEF Ends
  <2>4. \A r \in new : r.object \in Ends'
    BY <1>7, <1>9, <2>1
  <2> QED
    BY <2>2, <2>3, <2>4
<1> HIDE DEF N
<1>11. /\ read' \in Seq(Objects) /\ Len(read') <= bounds.reads
       /\ \A n \in DOMAIN read' : read'[n] \in Ends
       /\ \A m, n \in DOMAIN read' : read'[m] = read'[n] => m = n
       /\ \A j \in DOMAIN frontier, n \in DOMAIN read' : j # 1 => read'[n] # End(frontier[j])
  BY <1>2, ReadingIs
<1>12. /\ listings' \in [DOMAIN Labelled -> Held]
       /\ ListingsAreReal'
  BY <1>1, <1>2, <1>3, RememberIs
<1>13. WalkTypeOK'
  <2>1. d.gap \in BOOLEAN
    BY <1>3, DerivedIs
  <2>2. gaps' \in BOOLEAN
    BY <1>1, <2>1 DEF WalkTypeOK
  <2> QED
    BY <1>2, <1>7, <1>8, <1>11, <1>12, <2>2 DEF WalkTypeOK
<1>14. Chained'
  <2>1. \A path : IsChain(path)' <=> IsChain(path)
    BY <1>2, WorldStands DEF world
  <2>2. \A n \in DOMAIN findings' : IsChain(findings'[n])
    BY <1>1, <1>7 DEF Chained
  <2>3. \A n \in DOMAIN findings' : IsChain(findings[n])'
    BY <2>1, <2>2
  <2>4. ASSUME NEW j \in DOMAIN frontier' PROVE \E n \in DOMAIN findings' : frontier'[j] = findings'[n]
    <3>1. CASE j \in DOMAIN rest
      <4>1. frontier'[j] = frontier[j + 1] /\ j + 1 \in DOMAIN frontier
        BY <1>5, <1>8, <3>1
      <4> QED
        BY <1>7, <4>1 DEF Chained
    <3>2. CASE j \notin DOMAIN rest
      BY <1>7, <1>8, <3>2
    <3> QED
      BY <3>1, <3>2
  <2> QED
    BY <2>3, <2>4 DEF Chained
<1>15. MarkedIsFound'
  <2>1. uids' \subseteq (Ends \cup N) \cup {Subject}
    BY <1>1 DEF N
  <2>2. locators' = {<<o, Plain>> : o \in (Ends \cup N) \cup {Subject}}
    BY <1>1 DEF N
  <2> QED
    BY <1>10, <2>1, <2>2 DEF MarkedIsFound
<1>16. FoundOnce'
  <2> SUFFICES ASSUME NEW m \in DOMAIN findings', NEW n \in DOMAIN findings',
                      Len(findings'[n]) > 1, End(findings'[m]) = End(findings'[n])
               PROVE  m = n
    BY DEF FoundOnce, End
  <2>1. \A k \in DOMAIN findings : End(findings'[k]) \in Ends
    BY <1>7 DEF Ends
  <2>2. CASE m \in DOMAIN findings /\ n \in DOMAIN findings
    BY <1>7, <2>2 DEF FoundOnce
  <2>3. CASE m \notin DOMAIN findings /\ n \notin DOMAIN findings
    <3>1. PICK q \in new : findings'[m] = Append(Path, q)
      BY <1>7, <2>3
    <3>2. PICK r \in new : findings'[n] = Append(Path, r)
      BY <1>7, <2>3
    <3>3. q.object = r.object
      BY <1>9, <3>1, <3>2, Zenon
    <3>4. q = r
      BY <1>1, <3>3
    <3> QED
      BY <1>7, <2>3, <3>1, <3>2, <3>4
  <2>4. ASSUME NEW k \in DOMAIN findings', k \notin DOMAIN findings PROVE End(findings'[k]) \notin Ends
    <3>1. PICK r \in new : findings'[k] = Append(Path, r)
      BY <1>7, <2>4
    <3> QED
      BY <1>9, <3>1, Zenon
  <2> QED
    BY <2>1, <2>2, <2>3, <2>4
<1>17. \A j \in DOMAIN rest : End(frontier'[j]) \in Ends
  <2> SUFFICES ASSUME NEW j \in DOMAIN rest PROVE End(frontier'[j]) \in Ends
    OBVIOUS
  <2>1. frontier'[j] = frontier[j + 1] /\ j + 1 \in DOMAIN frontier
    BY <1>5, <1>8
  <2> QED
    BY <2>1 DEF Chained, Ends
<1>18. \A j \in DOMAIN frontier' : j \notin DOMAIN rest => End(frontier'[j]) \notin Ends
  BY <1>8, <1>9
<1>19. ReadOnce'
  <2>1. ASSUME NEW i \in DOMAIN frontier', NEW j \in DOMAIN frontier', End(frontier'[i]) = End(frontier'[j])
        PROVE  i = j
    <3>1. CASE i \in DOMAIN rest /\ j \in DOMAIN rest
      <4>1. End(frontier[i + 1]) = End(frontier[j + 1]) /\ i + 1 \in DOMAIN frontier /\ j + 1 \in DOMAIN frontier
        BY <1>5, <1>8, <2>1, <3>1
      <4>2. i + 1 = j + 1
        BY <1>2, <4>1 DEF ReadOnce
      <4> QED
        BY <1>6, <3>1, <4>2
    <3>2. CASE i \notin DOMAIN rest /\ j \notin DOMAIN rest
      <4>1. PICK q \in new : frontier'[i] = Append(Path, q)
        BY <1>8, <3>2
      <4>2. PICK r \in new : frontier'[j] = Append(Path, r)
        BY <1>8, <3>2
      <4>3. q.object = r.object
        BY <1>9, <2>1, <4>1, <4>2, Zenon
      <4>4. q = r
        BY <1>1, <4>3
      <4> QED
        BY <1>8, <3>2, <4>1, <4>2, <4>4
    <3> QED
      BY <1>17, <1>18, <2>1, <3>1, <3>2
  <2>2. ASSUME NEW j \in DOMAIN frontier', NEW n \in DOMAIN read'
        PROVE  read'[n] # End(frontier'[j])
    <3>1. CASE j \in DOMAIN rest
      BY <1>5, <1>6, <1>8, <1>11, <3>1
    <3>2. CASE j \notin DOMAIN rest
      BY <1>11, <1>18, <3>2
    <3> QED
      BY <3>1, <3>2
  <2>3. \A n \in DOMAIN read' : read'[n] \in Ends'
    BY <1>10, <1>11
  <2> QED
    BY <1>2, <1>11, <2>1, <2>2, <2>3 DEF ReadOnce, End
<1>20. BreadthFirst'
  <2> DEFINE h == Len(Path)
  <2>1. \A j \in DOMAIN rest : /\ Len(frontier'[j]) \in Nat
                               /\ h <= Len(frontier'[j]) /\ Len(frontier'[j]) <= h + 1
    <3> SUFFICES ASSUME NEW j \in DOMAIN rest
                 PROVE  /\ Len(frontier'[j]) \in Nat
                        /\ h <= Len(frontier'[j]) /\ Len(frontier'[j]) <= h + 1
      OBVIOUS
    <3>1. frontier'[j] = frontier[j + 1] /\ j + 1 \in DOMAIN frontier /\ 1 < j + 1
      BY <1>5, <1>6, <1>8
    <3>2. Len(frontier[1]) <= Len(frontier[j + 1])
      BY <1>2, <1>3, <3>1 DEF BreadthFirst
    <3>3. PICK n \in DOMAIN findings : frontier[j + 1] = findings[n]
      BY <3>1 DEF Chained
    <3>4. Len(findings[n]) <= Len(frontier[1]) + 1
      BY <1>2, <1>3 DEF BreadthFirst
    <3>5. Len(frontier[j + 1]) \in Nat
      BY <1>4, <3>1
    <3> QED
      BY <1>3, <3>1, <3>2, <3>3, <3>4, <3>5
  <2>2. \A j \in DOMAIN frontier' : j \notin DOMAIN rest => Len(frontier'[j]) = h + 1
    BY <1>8, <1>9
  <2>3. \A n \in DOMAIN findings' : Len(findings'[n]) \in Nat /\ Len(findings'[n]) <= h + 1
    <3>1. \A n \in DOMAIN findings : Len(findings[n]) <= h + 1
      BY <1>2, <1>3 DEF BreadthFirst
    <3>2. \A n \in DOMAIN findings' : Len(findings'[n]) \in Nat
      BY <1>7
    <3> QED
      BY <1>3, <1>7, <1>9, <3>1, <3>2
  <2>4. h \in Nat
    BY <1>3
  <2> HIDE DEF h
  <2>5. ASSUME NEW i \in DOMAIN frontier', NEW j \in DOMAIN frontier', i < j
        PROVE  Len(frontier'[i]) <= Len(frontier'[j])
    <3>1. CASE i \in DOMAIN rest /\ j \in DOMAIN rest
      <4>1. i + 1 < j + 1 /\ i + 1 \in DOMAIN frontier /\ j + 1 \in DOMAIN frontier
        BY <1>5, <1>6, <2>5, <3>1
      <4>2. Len(frontier[i + 1]) <= Len(frontier[j + 1])
        BY <1>2, <4>1 DEF BreadthFirst
      <4> QED
        BY <1>5, <1>8, <3>1, <4>2
    <3>2. CASE j \notin DOMAIN rest
      BY <2>1, <2>2, <2>4, <3>2
    <3>3. CASE i \notin DOMAIN rest /\ j \in DOMAIN rest
      <4>1. i > Len(rest) /\ j <= Len(rest) /\ Len(rest) \in Nat /\ i \in Nat /\ j \in Nat
        BY <1>5, <1>6, <1>8, <3>3
      <4> QED
        BY <2>5, <4>1
    <3> QED
      BY <3>1, <3>2, <3>3
  <2>6. ASSUME NEW j \in DOMAIN frontier', NEW n \in DOMAIN findings'
        PROVE  Len(findings'[n]) <= Len(frontier'[j]) + 1
    BY <2>1, <2>2, <2>3, <2>4
  <2> QED
    BY <2>5, <2>6 DEF BreadthFirst
<1> QED
  BY <1>12, <1>13, <1>14, <1>15, <1>16, <1>19, <1>20

(* What `Begin` does, in terms of the references it marks.                 *)
LEMMA BeginIs ==
  ASSUME WInv, OneSpelling, Begin
  PROVE  \E d \in Derived(Subject), new \in SUBSET Reference, first \in SUBSET Reference :
           LET N == {q.object : q \in new} IN
           /\ \A r \in EdgesOver(Subject, d.answer) : r.object = Subject \/ r \in first
           /\ \A r \in first : r.object \in Related(Subject) /\ r.object # Subject /\ r.object \in N
           /\ new \subseteq first
           /\ \A q, r \in new : q.object = r.object => q = r
           /\ uids' \subseteq N \cup {Subject}
           /\ locators' = {<<o, Plain>> : o \in N \cup {Subject}}
           /\ findings' = Extended(<< >>, first)
           /\ frontier' = Extended(<< >>, new)
           /\ listings' = Remember(Subject, d.answer)
           /\ gaps' = d.gap
<1>1. PICK d \in Derived(Subject) : \E new \in Marking(EdgesOver(Subject, d.answer), uids, locators) :
        /\ findings' = Extended(<< >>, {r \in EdgesOver(Subject, d.answer) : ~ IsSubject(r)})
        /\ frontier' = Extended(<< >>, new)
        /\ Mark(new)
        /\ listings' = Remember(Subject, d.answer)
        /\ gaps' = d.gap
  BY Zenon DEF Begin
<1> DEFINE edges == EdgesOver(Subject, d.answer)
           first == {r \in edges : ~ IsSubject(r)}
<1>2. PICK new \in Marking(edges, uids, locators) :
        /\ findings' = Extended(<< >>, first)
        /\ frontier' = Extended(<< >>, new)
        /\ Mark(new)
        /\ listings' = Remember(Subject, d.answer)
        /\ gaps' = d.gap
  BY <1>1, Zenon
<1>3. Subject \in Objects
  BY WalkAssumption
<1>4. WalkTypeOK /\ ListingsAreReal /\ MarkedIsFound /\ phase = "begin"
  BY DEF WInv, Begin
<1>5. Ends = {}
  BY <1>4 DEF WalkTypeOK, Ends
<1>6. d.answer.objects \subseteq Labelled[Selector[Subject]] \ missing
  BY <1>3, <1>4, DerivedIs
<1>7. /\ edges \in SUBSET Reference
      /\ \A r \in edges : r.object # Subject => r.object \in Related(Subject)
  BY <1>3, <1>4, <1>6, EdgesAreReal
<1> DEFINE N == {q.object : q \in new}
<1> HIDE DEF edges
<1>8. /\ new \in SUBSET edges
      /\ \A q, r \in new : q.object = r.object => q = r
      /\ \A r \in new : r.object \notin Ends \cup {Subject}
      /\ \A r \in edges : r.object \in Ends \cup {Subject} \cup N
      /\ Mark(new) =>
           /\ uids' \subseteq (Ends \cup N) \cup {Subject}
           /\ locators' = {<<o, Plain>> : o \in (Ends \cup N) \cup {Subject}}
  BY <1>4, <1>7, MarkingIs
<1>9. \A r \in edges : IsSubject(r) <=> r.object = Subject
  BY <1>7 DEF IsSubject, OneSpelling, Reference
<1>10. first \in SUBSET Reference /\ new \in SUBSET Reference /\ new \subseteq first
  BY <1>7, <1>8, <1>9
<1>11. \A r \in first : r.object \in Related(Subject) /\ r.object # Subject /\ r.object \in N
  BY <1>5, <1>7, <1>8, <1>9
<1>12. \A r \in edges : r.object = Subject \/ r \in first
  BY <1>9
<1>13. uids' \subseteq N \cup {Subject} /\ locators' = {<<o, Plain>> : o \in N \cup {Subject}}
  <2>1. Ends \cup N = N
    BY <1>5
  <2> QED
    BY <1>2, <1>8, <2>1
<1> HIDE DEF first
<1> USE <1>10
<1> WITNESS d \in Derived(Subject), new \in SUBSET Reference, first \in SUBSET Reference
<1> QED
  BY <1>2, <1>8, <1>10, <1>11, <1>12, <1>13 DEF edges

(* The first hop establishes the invariant.                                *)
LEMMA BeginWInv ==
  ASSUME WInv, OneSpelling, Begin
  PROVE  WInv'
<1>1. PICK d \in Derived(Subject), new \in SUBSET Reference, first \in SUBSET Reference :
        /\ \A r \in first : r.object \in Related(Subject) /\ r.object # Subject
                            /\ r.object \in {q.object : q \in new}
        /\ new \subseteq first
        /\ \A q, r \in new : q.object = r.object => q = r
        /\ uids' \subseteq {q.object : q \in new} \cup {Subject}
        /\ locators' = {<<o, Plain>> : o \in {q.object : q \in new} \cup {Subject}}
        /\ findings' = Extended(<< >>, first)
        /\ frontier' = Extended(<< >>, new)
        /\ listings' = Remember(Subject, d.answer)
        /\ gaps' = d.gap
  BY BeginIs
<1> DEFINE N == {q.object : q \in new}
<1>2. /\ phase = "begin" /\ phase' = "walk"
      /\ graph' = graph /\ live' = live /\ missing' = missing /\ bounds' = bounds
      /\ read' = read
  BY DEF Begin, world
<1>3. WalkTypeOK /\ ListingsAreReal /\ read = << >> /\ Len(read) <= bounds.reads
  BY <1>2 DEF WInv, WalkTypeOK, ReadOnce
<1>4. Subject \in Objects /\ bounds.hops \in Nat \ {0} /\ bounds.reads \in Nat
  BY <1>3, WalkAssumption DEF WalkTypeOK
<1>5. << >> \in Seq(Reference) /\ Len(<< >>) = 0
  OBVIOUS
<1>6. /\ findings' \in Seq(Seq(Reference))
      /\ \A n \in DOMAIN findings' : \E r \in first : findings'[n] = Append(<< >>, r)
      /\ \A r \in first : \E n \in DOMAIN findings' : findings'[n] = Append(<< >>, r)
  <2>1. IsExtended(findings', << >>, first)
    BY <1>1, <1>5, ExtendedIs
  <2> QED
    BY <2>1 DEF IsExtended
<1>7. /\ frontier' \in Seq(Seq(Reference))
      /\ \A n \in DOMAIN frontier' : \E r \in new : frontier'[n] = Append(<< >>, r)
      /\ \A m, n \in DOMAIN frontier' : \A r \in new :
           frontier'[m] = Append(<< >>, r) /\ frontier'[n] = Append(<< >>, r) => m = n
  <2>1. IsExtended(frontier', << >>, new)
    BY <1>1, <1>5, ExtendedIs
  <2> QED
    BY <2>1 DEF IsExtended
<1>8. \A r \in first : /\ End(Append(<< >>, r)) = r.object
                       /\ Len(Append(<< >>, r)) = 1
                       /\ Append(<< >>, r)[1] = r
  <2> SUFFICES ASSUME NEW r \in first
               PROVE  /\ End(Append(<< >>, r)) = r.object
                      /\ Len(Append(<< >>, r)) = 1
                      /\ Append(<< >>, r)[1] = r
    OBVIOUS
  <2> QED
    BY DEF End
<1>9. \A n \in DOMAIN findings' : Len(findings'[n]) = 1
  <2>1. \A r \in first : Len(Append(<< >>, r)) = 1
    BY <1>8
  <2> QED
    BY <1>6, <2>1, Zenon
<1>10. \A n \in DOMAIN frontier' : Len(frontier'[n]) = 1
  <2>1. \A r \in new : Len(Append(<< >>, r)) = 1
    BY <1>1, <1>8
  <2> QED
    BY <1>7, <2>1, Zenon
<1>11. Ends' = N
  <2>1. Ends' = {End(findings'[n]) : n \in DOMAIN findings'}
    BY DEF Ends, End
  <2>2. ASSUME NEW n \in DOMAIN findings' PROVE End(findings'[n]) \in N
    <3>1. PICK r \in first : findings'[n] = Append(<< >>, r)
      BY <1>6
    <3>2. End(findings'[n]) = r.object
      BY <1>8, <3>1, Zenon
    <3> QED
      BY <1>1, <3>2
  <2>3. ASSUME NEW r \in new PROVE r.object \in Ends'
    <3>1. PICK n \in DOMAIN findings' : findings'[n] = Append(<< >>, r)
      BY <1>1, <1>6
    <3>2. End(findings'[n]) = r.object
      BY <1>1, <1>8, <3>1, Zenon
    <3> QED
      BY <2>1, <3>2
  <2> QED
    BY <2>1, <2>2, <2>3
<1> HIDE DEF N
<1>12. /\ listings' \in [DOMAIN Labelled -> Held]
       /\ ListingsAreReal'
  BY <1>1, <1>2, <1>3, <1>4, RememberIs
<1>13. WalkTypeOK'
  <2>1. gaps' \in BOOLEAN
    BY <1>1, <1>3, <1>4, DerivedIs
  <2> QED
    BY <1>2, <1>3, <1>6, <1>7, <1>12, <2>1 DEF WalkTypeOK
<1>14. Chained'
  <2>1. \A path : IsChain(path)' <=> IsChain(path)
    BY <1>2, WorldStands DEF world
  <2>2. ASSUME NEW r \in first PROVE IsChain(Append(<< >>, r))
    <3> DEFINE q == Append(<< >>, r)
    <3>1. Len(q) = 1 /\ q[1] = r
      BY <1>8
    <3> HIDE DEF q
    <3>2. Len(q) \in 1..bounds.hops
      BY <1>4, <3>1
    <3>3. \A k \in 1..Len(q) : q[k].object \in Related(IF k = 1 THEN Subject ELSE q[k - 1].object)
      BY <1>1, <3>1
    <3>4. \A k \in 1..(Len(q) - 1) : q[k].object \notin missing
      BY <3>1
    <3>5. IsChain(q)
      BY <3>2, <3>3, <3>4 DEF IsChain
    <3> QED
      BY <3>5 DEF q
  <2>3. \A n \in DOMAIN findings' : IsChain(findings'[n])
    BY <1>6, <2>2, Zenon
  <2>4. \A n \in DOMAIN findings' : IsChain(findings[n])'
    BY <2>1, <2>3
  <2>5. \A j \in DOMAIN frontier' : \E n \in DOMAIN findings' : frontier'[j] = findings'[n]
    <3> SUFFICES ASSUME NEW j \in DOMAIN frontier'
                 PROVE  \E n \in DOMAIN findings' : frontier'[j] = findings'[n]
      OBVIOUS
    <3>1. PICK r \in new : frontier'[j] = Append(<< >>, r)
      BY <1>7
    <3>2. r \in first
      BY <1>1
    <3> QED
      BY <1>6, <3>1, <3>2, Zenon
  <2> QED
    BY <2>4, <2>5 DEF Chained
<1>15. MarkedIsFound'
  <2>1. uids' \subseteq N \cup {Subject} /\ locators' = {<<o, Plain>> : o \in N \cup {Subject}}
    BY <1>1 DEF N
  <2> QED
    BY <1>11, <2>1 DEF MarkedIsFound
<1>16. FoundOnce'
  <2>1. ASSUME NEW n \in DOMAIN findings' PROVE ~ (Len(findings'[n]) > 1)
    <3>1. Len(findings'[n]) = 1
      BY <1>9, Zenon
    <3> QED
      BY <3>1
  <2> QED
    BY <2>1, Zenon DEF FoundOnce
<1>17. ReadOnce'
  <2>1. ASSUME NEW i \in DOMAIN frontier', NEW j \in DOMAIN frontier', End(frontier'[i]) = End(frontier'[j])
        PROVE  i = j
    <3>1. PICK q \in new : frontier'[i] = Append(<< >>, q)
      BY <1>7
    <3>2. PICK r \in new : frontier'[j] = Append(<< >>, r)
      BY <1>7
    <3>3. q \in first /\ r \in first
      BY <1>1
    <3>4. q.object = r.object
      BY <1>8, <2>1, <3>1, <3>2, <3>3, Zenon
    <3>5. q = r
      BY <1>1, <3>4
    <3> QED
      BY <1>7, <3>1, <3>2, <3>5, Zenon
  <2>2. DOMAIN read' = {} /\ Len(read') <= bounds.reads
    BY <1>2, <1>3
  <2> QED
    BY <1>2, <2>1, <2>2 DEF ReadOnce, End
<1>18. BreadthFirst'
  BY <1>9, <1>10 DEF BreadthFirst
<1> QED
  BY <1>12, <1>13, <1>14, <1>15, <1>16, <1>17, <1>18 DEF WInv

(* The connection breaks under a read: no more is read or found.           *)
LEMMA BreakWInv ==
  ASSUME WInv, Break
  PROVE  WInv'
<1> USE DEF WInv
<1>1. /\ graph' = graph /\ live' = live /\ missing' = missing /\ bounds' = bounds
      /\ frontier' = frontier /\ uids' = uids /\ locators' = locators /\ findings' = findings
      /\ listings' = listings /\ gaps' = gaps /\ phase' = "failed" /\ Reading
  BY DEF Break, world, seen
<1>2. /\ read' \in Seq(Objects) /\ Len(read') <= bounds.reads
      /\ \A n \in DOMAIN read' : read'[n] \in Ends
      /\ \A m, n \in DOMAIN read' : read'[m] = read'[n] => m = n
  BY <1>1, ReadingIs
<1>3. Ends' = Ends
  BY <1>1 DEF Ends
<1>4. WalkTypeOK'
  BY <1>1, <1>2 DEF WalkTypeOK
<1>5. ListingsAreReal'
  BY <1>1 DEF ListingsAreReal
<1>6. Chained'
  <2>1. \A path : IsChain(path)' <=> IsChain(path)
    BY <1>1, WorldStands DEF world
  <2>2. \A n \in DOMAIN findings' : IsChain(findings'[n])
    BY <1>1 DEF Chained
  <2>3. \A n \in DOMAIN findings' : IsChain(findings[n])'
    BY <2>1, <2>2
  <2> QED
    BY <1>1, <2>3 DEF Chained
<1>7. MarkedIsFound' /\ FoundOnce'
  BY <1>1, <1>3 DEF MarkedIsFound, FoundOnce
<1>8. ReadOnce' /\ BreadthFirst'
  BY <1>1, <1>2, <1>3 DEF ReadOnce, BreadthFirst
<1> QED
  BY <1>4, <1>5, <1>6, <1>7, <1>8

(* Where nothing but the phase changes, nothing else does.                 *)
LEMMA StillWInv ==
  ASSUME WInv, Finish \/ UNCHANGED vars
  PROVE  WInv'
<1> USE DEF WInv
<1>1. /\ graph' = graph /\ live' = live /\ missing' = missing /\ bounds' = bounds
      /\ frontier' = frontier /\ uids' = uids /\ locators' = locators /\ findings' = findings
      /\ read' = read /\ listings' = listings /\ gaps' = gaps
      /\ phase' = phase \/ (phase = "walk" /\ frontier = << >> /\ phase' = "done")
  BY DEF Finish, world, seen, vars
<1>2. Ends' = Ends
  BY <1>1 DEF Ends
<1>3. WalkTypeOK'
  BY <1>1 DEF WalkTypeOK
<1>4. ListingsAreReal'
  BY <1>1 DEF ListingsAreReal
<1>5. Chained'
  <2>1. \A path : IsChain(path)' <=> IsChain(path)
    BY <1>1, WorldStands DEF world
  <2>2. \A n \in DOMAIN findings' : IsChain(findings'[n])
    BY <1>1 DEF Chained
  <2>3. \A n \in DOMAIN findings' : IsChain(findings[n])'
    BY <2>1, <2>2
  <2> QED
    BY <1>1, <2>3 DEF Chained
<1>6. MarkedIsFound' /\ FoundOnce'
  BY <1>1, <1>2 DEF MarkedIsFound, FoundOnce
<1>7. ReadOnce' /\ BreadthFirst'
  BY <1>1, <1>2 DEF ReadOnce, BreadthFirst
<1> QED
  BY <1>3, <1>4, <1>5, <1>6, <1>7

(* Whatever a walk does next keeps the invariant.                          *)
LEMMA NextWInv ==
  ASSUME WInv, OneSpelling, [Next]_vars
  PROVE  WInv'
<1>1. gaps \in BOOLEAN
  BY DEF WInv, WalkTypeOK
<1>2. CASE Begin
  BY <1>2, BeginWInv
<1>3. CASE Stop
  <2>1. /\ phase = "walk" /\ frontier # << >> /\ frontier' = Tail(frontier) /\ gaps' \in BOOLEAN
        /\ UNCHANGED << world, seen, findings, listings, phase >> /\ UNCHANGED read
    BY <1>1, <1>3 DEF Stop
  <2> QED
    BY <2>1, PopWInv
<1>4. CASE Leave
  <2>1. /\ phase = "walk" /\ frontier # << >> /\ frontier' = Tail(frontier) /\ gaps' \in BOOLEAN
        /\ UNCHANGED << world, seen, findings, listings, phase >> /\ UNCHANGED read
    BY <1>4 DEF Leave, NotQueried
  <2> QED
    BY <2>1, PopWInv
<1>5. CASE Unreadable
  <2>1. /\ phase = "walk" /\ frontier # << >> /\ frontier' = Tail(frontier) /\ gaps' \in BOOLEAN
        /\ UNCHANGED << world, seen, findings, listings, phase >> /\ Reading
    BY <1>5 DEF Unreadable, Reading
  <2> QED
    BY <2>1, PopWInv
<1>6. CASE Absent
  <2>1. /\ phase = "walk" /\ frontier # << >> /\ frontier' = Tail(frontier) /\ gaps' \in BOOLEAN
        /\ UNCHANGED << world, seen, findings, listings, phase >> /\ Reading
    BY <1>1, <1>6 DEF Absent, Reading
  <2> QED
    BY <2>1, PopWInv
<1>7. CASE Expand
  BY <1>7, ExpandWInv
<1>8. CASE Break
  BY <1>8, BreakWInv
<1>9. CASE Finish \/ UNCHANGED vars
  BY <1>9, StillWInv
<1> QED
  BY <1>2, <1>3, <1>4, <1>5, <1>6, <1>7, <1>8, <1>9 DEF Next

-----------------------------------------------------------------------------
(* §40.3 (causal.rs): what is reported is a chain of relationships the     *)
(* cluster would not deny, no longer than was asked for, and beyond the    *)
(* first hop each object is reported once; none is read twice and no more  *)
(* than may be: for every cluster, whatever is found in whatever order.    *)
LEMMA WInvReports ==
  ASSUME WInv, OneSpelling
  PROVE  ReportsAreFindings
<1>1. /\ findings \in Seq(Seq(Reference)) /\ read \in Seq(Objects)
  BY DEF WInv, WalkTypeOK
<1>2. ASSUME NEW n \in DOMAIN findings PROVE findings[n] \in Seq(Reference) /\ Last(findings[n]).object = End(findings[n])
  BY <1>1 DEF End, Last
<1>3. \A m, n \in DOMAIN findings :
        Len(findings[n]) > 1 /\ Last(findings[m]).object = Last(findings[n]).object => m = n
  BY <1>2 DEF WInv, FoundOnce
<1>4. IsInjective(read)
  BY DEF WInv, ReadOnce, IsInjective
<1>5. Subject \notin Ends
  <2> SUFFICES ASSUME NEW n \in DOMAIN findings PROVE End(findings[n]) # Subject
    BY DEF Ends
  <2>1. IsChain(findings[n])
    BY DEF WInv, Chained
  <2>2. Len(findings[n]) \in 1..Len(findings[n])
    BY <1>2, <2>1 DEF IsChain
  <2>3. \E o : End(findings[n]) \in Related(o)
    BY <2>1, <2>2 DEF IsChain, End
  <2> QED
    BY <2>3 DEF Related
<1>6. \A n \in DOMAIN read : read[n] # Subject
  BY <1>5 DEF WInv, ReadOnce
<1>7. ReportedOnce
  BY <1>3, <1>4, <1>6 DEF ReportedOnce
<1>8. ASSUME NEW n \in DOMAIN findings
      PROVE  /\ Len(findings[n]) <= bounds.hops
             /\ \A k \in DOMAIN findings[n] :
                  findings[n][k].object
                    \in Related(IF k = 1 THEN Subject ELSE findings[n][k - 1].object)
  <2>1. IsChain(findings[n]) /\ DOMAIN findings[n] = 1..Len(findings[n])
    BY <1>2 DEF WInv, Chained
  <2> QED
    BY <2>1 DEF IsChain
<1>9. PathsAreReal
  BY <1>8 DEF WInv, ReadOnce, PathsAreReal
<1> QED
  BY <1>7, <1>9 DEF ReportsAreFindings

(* §40.3 (causal.rs): `ReportsAreFindings` of every walk whose locators    *)
(* are spelled in one way: every path is of relationships the cluster      *)
(* would not deny, every object beyond the first hop is reported once and  *)
(* read once, and no bound is passed.                                      *)
THEOREM WalkReportsAreFindings ==
  ASSUME OneSpelling
  PROVE  Spec => []ReportsAreFindings
<1>1. Init => WInv
  BY InitWInv
<1>2. WInv /\ [Next]_vars => WInv'
  BY NextWInv
<1>3. WInv => ReportsAreFindings
  BY WInvReports
<1> QED
  BY <1>1, <1>2, <1>3, PTL DEF Spec

-----------------------------------------------------------------------------
(* That nothing is missed untold.                                          *)

(* Objects that share a selector are answered the same.                    *)
LEMMA AnsweredAlike ==
  ASSUME ChildrenAreKept, NEW o \in Objects, NEW p \in Objects,
         Rule[o] # "none", Rule[p] # "none", Selector[o] = Selector[p]
  PROVE  Answered(o) = Answered(p)
<1>1. CASE Rule[o] = "owned" \/ Rule[p] = "owned"
  <2>1. o = p
    BY <1>1 DEF ChildrenAreKept
  <2> QED
    BY <2>1
<1>2. CASE Rule[o] # "owned" /\ Rule[p] # "owned"
  BY <1>2 DEF Answered
<1> QED
  BY <1>1, <1>2

(* What `derive` answers without a gap and not in part, where nothing was  *)
(* lost so far, is all that the object asks of its collection, and leads   *)
(* wherever the object does.                                               *)
LEMMA DerivedWhole ==
  ASSUME WalkTypeOK, Remembered, ChildrenAreKept, Quiet,
         NEW o \in Objects, NEW d \in Derived(o), ~ d.gap, ~ d.answer.part
  PROVE  /\ d.answer.read => Rule[o] # "none" /\ d.answer = Listing(Answered(o))
         /\ Related(o) \subseteq {r.object : r \in EdgesOver(o, d.answer)}
<1> DEFINE s == Selector[o]
<1>1. s \in DOMAIN Labelled /\ (Rule[o] = "owned" => Children[o] \subseteq Labelled[s])
  BY WalkAssumption
<1>2. Rule[o] \in {"none", "selected", "owned"}
  BY WalkAssumption
<1>3. CASE Rule[o] = "none"
  <2>1. d.answer = Unread
    BY <1>3 DEF Derived
  <2>2. ~ d.answer.read
    BY <2>1 DEF Unread
  <2>3. \A answer : EdgesOver(o, answer) = graph[o]
    BY <1>3 DEF EdgesOver
  <2>4. Related(o) \subseteq {r.object : r \in graph[o]}
    BY <2>3 DEF Related
  <2> QED
    BY <2>2, <2>3, <2>4
<1>4. CASE Rule[o] # "none"
  <2>1. ~ (d = [answer |-> Unread, gap |-> TRUE])
    OBVIOUS
  <2>2. d \in Answers(o)
    BY <1>4, <2>1 DEF Derived
  <2>4. d.answer = Listing(Answered(o))
    <3>1. CASE listings[s].read
      <4>1. d.answer = listings[s]
        BY <2>2, <3>1 DEF Answers
      <4>2. PICK p \in Objects : Rule[p] # "none" /\ Selector[p] = s /\ listings[s] = Listing(Answered(p))
        BY <1>1, <3>1 DEF Remembered
      <4>3. Answered(o) = Answered(p)
        BY <1>4, <4>2, AnsweredAlike
      <4> QED
        BY <4>1, <4>2, <4>3
    <3>2. CASE ~ listings[s].read
      <4>1. d \notin CameBackShort \cup EndedAtTheBound(o)
        BY DEF CameBackShort, EndedAtTheBound, Part
      <4>2. d = [answer |-> Listing(Answered(o)), gap |-> FALSE]
        BY <2>2, <3>2, <4>1 DEF Answers
      <4> QED
        BY <4>2
    <3> QED
      BY <3>1, <3>2
  <2>5. Related(o) \subseteq {r.object : r \in EdgesOver(o, Listing(Answered(o)))}
    <3> DEFINE whole == Listing(Labelled[Selector[o]] \ missing)
               part == Listing(Answered(o))
    <3>1. whole.objects = Labelled[s] \ missing /\ part.objects = Answered(o)
      BY DEF Listing
    <3> HIDE DEF whole, part
    <3>2. EdgesOver(o, whole) \subseteq EdgesOver(o, part)
      <4>1. CASE Rule[o] = "selected"
        <5>1. part.objects = whole.objects
          BY <3>1, <4>1 DEF Answered
        <5> QED
          BY <4>1, <5>1 DEF EdgesOver
      <4>2. CASE Rule[o] = "owned"
        <5>1. whole.objects \cap Children[o] \subseteq part.objects
          BY <3>1 DEF Answered
        <5> QED
          BY <4>2, <5>1 DEF EdgesOver
      <4> QED
        BY <1>2, <1>4, <4>1, <4>2
    <3>3. Related(o) \subseteq {r.object : r \in EdgesOver(o, whole)}
      BY DEF Related, whole
    <3> QED
      BY <3>2, <3>3 DEF part
  <2> QED
    BY <1>4, <2>4, <2>5
<1> QED
  BY <1>3, <1>4

(* Where nothing is lost after a collection was read, nothing was before,  *)
(* nor by that.                                                            *)
LEMMA QuietBefore ==
  ASSUME WalkTypeOK, ListingsAreReal, NEW o \in Objects, NEW d \in Derived(o),
         listings' = Remember(o, d.answer), gaps' = (gaps \/ d.gap), Quiet'
  PROVE  Quiet /\ ~ d.gap /\ ~ d.answer.part
<1> DEFINE s == Selector[o]
<1>1. /\ listings \in [DOMAIN Labelled -> Held] /\ s \in DOMAIN Labelled
      /\ d.answer \in Held
  BY WalkAssumption, DerivedIs DEF WalkTypeOK
<1>2. ~ gaps /\ ~ d.gap
  BY DEF Quiet
<1>3. \A t \in DOMAIN Labelled : ~ listings'[t].part
  <2>1. DOMAIN listings' = DOMAIN Labelled
    BY <1>1 DEF Remember
  <2> QED
    BY <2>1 DEF Quiet, OnlyAPartWasHeld
<1>4. ~ d.answer.part
  <2>1. CASE d.answer.read
    <3>1. listings'[s] = d.answer
      BY <1>1, <2>1 DEF Remember
    <3> QED
      BY <1>1, <1>3, <3>1
  <2>2. CASE ~ d.answer.read
    BY <1>1, <2>2 DEF Held
  <2> QED
    BY <2>1, <2>2
<1>5. \A t \in DOMAIN Labelled : ~ listings[t].part
  <2> SUFFICES ASSUME NEW t \in DOMAIN Labelled, listings[t].part PROVE FALSE
    OBVIOUS
  <2>1. listings[t].read
    BY <1>1 DEF Held
  <2>2. listings'[t] # listings[t]
    BY <1>3
  <2>3. t = s /\ d.answer.read /\ listings'[t] = d.answer
    BY <1>1, <2>2 DEF Remember
  <2>4. d \in Answers(o)
    BY <2>3 DEF Derived, Unread
  <2>5. d.answer = listings[t]
    BY <2>1, <2>3, <2>4 DEF Answers
  <2> QED
    BY <2>2, <2>3, <2>5
<1> QED
  BY <1>1, <1>2, <1>4, <1>5 DEF Quiet, OnlyAPartWasHeld

(* What is read of a collection is remembered whole, or something is lost. *)
LEMMA ReadRemembered ==
  ASSUME WalkTypeOK, Remembered, ChildrenAreKept, NEW o \in Objects, NEW d \in Derived(o),
         listings' = Remember(o, d.answer), live' = live, missing' = missing,
         Quiet' => Quiet /\ ~ d.gap /\ ~ d.answer.part, phase' # "begin"
  PROVE  Remembered'
<1>1. \A p : Answered(p)' = Answered(p)
  BY DEF Answered
<1>2. SUFFICES ASSUME NEW s \in DOMAIN Labelled, listings'[s].read, Quiet'
               PROVE  \E p \in Objects : /\ Rule[p] # "none" /\ Selector[p] = s
                                         /\ listings'[s] = Listing(Answered(p))
  <2>1. Remembered' <=>
          \A s \in DOMAIN Labelled :
            listings'[s].read /\ Quiet' =>
              \E p \in Objects : /\ Rule[p] # "none" /\ Selector[p] = s
                                 /\ listings'[s] = Listing(Answered(p)')
    BY DEF Remembered, Listing
  <2> QED
    BY <1>1, <1>2, <2>1
<1>3. Quiet /\ ~ d.gap /\ ~ d.answer.part
  BY <1>2
<1>4. listings \in [DOMAIN Labelled -> Held]
  BY DEF WalkTypeOK
<1>5. CASE listings'[s] = listings[s]
  BY <1>2, <1>3, <1>5 DEF Remembered
<1>6. CASE listings'[s] # listings[s]
  <2>1. s = Selector[o] /\ listings'[s] = d.answer
    BY <1>4, <1>6 DEF Remember
  <2>2. Rule[o] # "none" /\ d.answer = Listing(Answered(o))
    BY <1>2, <1>3, <2>1, DerivedWhole
  <2> QED
    BY <2>1, <2>2
<1> QED
  BY <1>5, <1>6

(* Where no listing is touched, what is remembered stays true.             *)
LEMMA StillRemembered ==
  ASSUME Remembered, live' = live, missing' = missing, listings' = listings,
         Quiet' => Quiet, phase' # "begin" \/ (phase' = phase /\ gaps' = gaps)
  PROVE  Remembered'
<1>1. \A p : Answered(p)' = Answered(p)
  BY DEF Answered
<1>2. Remembered' <=>
        /\ phase' = "begin" => Quiet'
        /\ \A s \in DOMAIN Labelled :
             listings'[s].read /\ Quiet' =>
               \E p \in Objects : /\ Rule[p] # "none" /\ Selector[p] = s
                                  /\ listings'[s] = Listing(Answered(p)')
  BY DEF Remembered, Listing
<1>3. phase' = "begin" => Quiet'
  BY DEF Remembered, Quiet, OnlyAPartWasHeld
<1> QED
  BY <1>1, <1>2, <1>3 DEF Remembered

(* Where no listing is touched and no gap is told, nothing is lost.        *)
LEMMA QuietStays ==
  ASSUME listings' = listings, ~ gaps' => ~ gaps
  PROVE  (Quiet' => Quiet) /\ (Quiet' => ~ gaps')
BY DEF Quiet, OnlyAPartWasHeld

(* What leaves the frontier is too far, or not there, or followed, and     *)
(* what is found is waited for.                                            *)
IsCarried(f, g, f2, g2) ==
  /\ \A n \in DOMAIN f : n \in DOMAIN f2 /\ f2[n] = f[n]
  /\ \A n \in DOMAIN f2 : n \in DOMAIN f \/ \E i \in DOMAIN g2 : g2[i] = f2[n]
  /\ \A j \in DOMAIN g :
       \/ \E i \in DOMAIN g2 : g2[i] = g[j]
       \/ Len(g[j]) >= bounds.hops
       \/ End(g[j]) \in missing
       \/ Related(End(g[j])) \subseteq EndsWithin(f2, Len(g[j]) + 1)

(* Whatever was followed then stays so.                                    *)
LEMMA StaysFollowed ==
  ASSUME bounds.hops \in Nat,
         NEW f \in Seq(Seq(Reference)), NEW g \in Seq(Seq(Reference)), AllFollowed(f, g),
         NEW f2 \in Seq(Seq(Reference)), NEW g2 \in Seq(Seq(Reference)),
         IsCarried(f, g, f2, g2)
  PROVE  AllFollowed(f2, g2)
<1>1. /\ \A n \in DOMAIN f : Len(f[n]) \in Nat
      /\ \A n \in DOMAIN f2 : Len(f2[n]) \in Nat
      /\ \A j \in DOMAIN g : Len(g[j]) \in Nat
      /\ \A j \in DOMAIN g2 : Len(g2[j]) \in Nat
  OBVIOUS
<1>2. \A n : EndsWithin(f, n) \subseteq EndsWithin(f2, n)
  BY DEF EndsWithin, IsCarried
<1>3. \A m, n \in Nat : m <= n => EndsWithin(f2, m) \subseteq EndsWithin(f2, n)
  <2> SUFFICES ASSUME NEW m \in Nat, NEW n \in Nat, m <= n, NEW k \in DOMAIN f2, Len(f2[k]) <= m
               PROVE  Len(f2[k]) <= n
    BY DEF EndsWithin
  <2> QED
    BY <1>1
<1>4. Related(Subject) \subseteq EndsWithin(f2, 1)
  BY <1>2 DEF AllFollowed
<1>5. ASSUME NEW n \in DOMAIN f2 PROVE IsFollowed(f2, g2, End(f2[n]), Len(f2[n]))
  <2>1. CASE n \notin DOMAIN f
    <3>1. PICK i \in DOMAIN g2 : g2[i] = f2[n]
      BY <2>1 DEF IsCarried
    <3>2. End(g2[i]) = End(f2[n]) /\ Len(g2[i]) <= Len(f2[n])
      BY <1>1, <3>1
    <3> QED
      BY <3>2 DEF IsFollowed
  <2>2. CASE n \in DOMAIN f
    <3> DEFINE o == End(f[n])
               k == Len(f[n])
    <3>1. f2[n] = f[n] /\ k \in Nat
      BY <1>1, <2>2 DEF IsCarried
    <3>2. IsFollowed(f, g, o, k)
      BY <2>2 DEF AllFollowed
    <3> HIDE DEF o, k
    <3>3. IsFollowed(f2, g2, o, k)
      <4>1. CASE \E j \in DOMAIN g : End(g[j]) = o /\ Len(g[j]) <= k
        <5>1. PICK j \in DOMAIN g : End(g[j]) = o /\ Len(g[j]) <= k
          BY <4>1
        <5>2. CASE \E i \in DOMAIN g2 : g2[i] = g[j]
          BY <5>1, <5>2 DEF IsFollowed
        <5>3. CASE Len(g[j]) >= bounds.hops
          <6>1. Len(g[j]) \in Nat
            BY <1>1
          <6>2. k >= bounds.hops
            BY <3>1, <5>1, <5>3, <6>1
          <6> QED
            BY <6>2 DEF IsFollowed
        <5>4. CASE End(g[j]) \in missing
          BY <5>1, <5>4 DEF IsFollowed
        <5>5. CASE Related(End(g[j])) \subseteq EndsWithin(f2, Len(g[j]) + 1)
          <6>1. Len(g[j]) + 1 \in Nat /\ k + 1 \in Nat /\ Len(g[j]) + 1 <= k + 1
            BY <1>1, <3>1, <5>1
          <6>2. EndsWithin(f2, Len(g[j]) + 1) \subseteq EndsWithin(f2, k + 1)
            BY <1>3, <6>1
          <6> QED
            BY <5>1, <5>5, <6>2 DEF IsFollowed
        <5> QED
          BY <5>2, <5>3, <5>4, <5>5 DEF IsCarried
      <4>2. CASE ~ \E j \in DOMAIN g : End(g[j]) = o /\ Len(g[j]) <= k
        BY <1>2, <3>2, <4>2 DEF IsFollowed
      <4> QED
        BY <4>1, <4>2
    <3> QED
      BY <3>1, <3>3 DEF o, k
  <2> QED
    BY <2>1, <2>2
<1> QED
  BY <1>4, <1>5 DEF AllFollowed

(* The cluster stands still, so what was followed is compared with the     *)
(* same.                                                                   *)
LEMMA FollowedNext ==
  ASSUME graph' = graph, missing' = missing, bounds' = bounds,
         phase' # "begin" /\ Quiet' => AllFollowed(findings', frontier')
  PROVE  Followed'
<1>1. \A o : Related(o)' = Related(o)
  BY DEF Related, EdgesOver, Listing
<1>2. AllFollowed(findings, frontier)' <=> AllFollowed(findings', frontier')
  BY <1>1 DEF AllFollowed, IsFollowed, EndsWithin, End
<1> QED
  BY <1>2 DEF Followed

(* What leaves the frontier unread is too far, or something is lost.       *)
LEMMA LeftFollowed ==
  ASSUME WInv, Followed, phase = "walk", UNCHANGED << world, findings >>,
         Quiet' =>
           /\ Quiet
           /\ \/ frontier' = frontier
              \/ /\ frontier # << >> /\ frontier' = Tail(frontier)
                 /\ Len(Path) >= bounds.hops \/ Target \in missing
  PROVE  Followed'
<1>1. graph' = graph /\ missing' = missing /\ bounds' = bounds /\ findings' = findings
  BY DEF world
<1>2. ASSUME Quiet' PROVE AllFollowed(findings, frontier')
  <2>1. /\ frontier \in Seq(Seq(Reference)) /\ findings \in Seq(Seq(Reference))
        /\ bounds.hops \in Nat
    BY WalkAssumption DEF WInv, WalkTypeOK
  <2>2. AllFollowed(findings, frontier)
    BY <1>2 DEF Followed
  <2>3. CASE frontier' = frontier
    BY <2>2, <2>3
  <2>4. CASE frontier' # frontier
    <3>1. /\ frontier # << >> /\ frontier' = Tail(frontier)
          /\ Len(Path) >= bounds.hops \/ Target \in missing
      BY <1>2, <2>4
    <3>2. /\ frontier' \in Seq(Seq(Reference))
          /\ \A j \in DOMAIN frontier : j # 1 => j - 1 \in DOMAIN frontier' /\ frontier'[j - 1] = frontier[j]
      BY <2>1, <3>1, TailIs
    <3>3. Path = frontier[1] /\ Target = End(frontier[1])
      BY <3>1, HeadIs
    <3>4. \A j \in DOMAIN frontier :
            \/ \E i \in DOMAIN frontier' : frontier'[i] = frontier[j]
            \/ Len(frontier[j]) >= bounds.hops
            \/ End(frontier[j]) \in missing
      BY <3>1, <3>2, <3>3
    <3>5. IsCarried(findings, frontier, findings, frontier')
      BY <3>4 DEF IsCarried
    <3> QED
      BY <2>1, <2>2, <3>2, <3>5, StaysFollowed
  <2> QED
    BY <2>3, <2>4
<1> QED
  BY <1>1, <1>2, FollowedNext

(* What was read leads only to what was found, at most one hop further.    *)
LEMMA ExpandFollowed ==
  ASSUME WInv, OneSpelling, ChildrenAreKept, Remembered, Followed, Expand
  PROVE  Remembered' /\ Followed'
<1>1. PICK d \in Derived(Target), new \in SUBSET Reference :
        /\ new \subseteq EdgesOver(Target, d.answer)
        /\ \A r \in EdgesOver(Target, d.answer) :
             r.object \in Ends \cup {Subject} \cup {q.object : q \in new}
        /\ findings' = findings \o Extended(Path, new)
        /\ frontier' = Tail(frontier) \o Extended(Path, new)
        /\ listings' = Remember(Target, d.answer)
        /\ gaps' = (gaps \/ d.gap)
  BY ExpandIs
<1>2. /\ phase = "walk" /\ phase' = "walk" /\ frontier # << >>
      /\ graph' = graph /\ live' = live /\ missing' = missing /\ bounds' = bounds
  BY DEF Expand, Reading, world
<1>3. /\ Path = frontier[1] /\ 1 \in DOMAIN frontier /\ Path \in Seq(Reference)
      /\ Len(Path) \in Nat \ {0} /\ Target = End(Path) /\ Target \in Objects
      /\ bounds.hops \in Nat
  BY <1>2, HeadIs
<1>4. WalkTypeOK /\ frontier \in Seq(Seq(Reference)) /\ findings \in Seq(Seq(Reference))
  BY DEF WInv, WalkTypeOK
<1>5. Remembered'
  <2>1. Quiet' => Quiet /\ ~ d.gap /\ ~ d.answer.part
    BY <1>1, <1>3, QuietBefore DEF WInv
  <2> QED
    BY <1>1, <1>2, <1>3, <1>4, <2>1, ReadRemembered
<1>6. ASSUME Quiet' PROVE AllFollowed(findings', frontier')
  <2>1. Quiet /\ ~ d.gap /\ ~ d.answer.part
    BY <1>1, <1>3, <1>6, QuietBefore DEF WInv
  <2>2. Related(Target) \subseteq {r.object : r \in EdgesOver(Target, d.answer)}
    BY <1>3, <1>4, <2>1, DerivedWhole
  <2> DEFINE rest == Tail(frontier)
  <2>3. /\ rest \in Seq(Seq(Reference))
        /\ \A j \in DOMAIN frontier : j # 1 => j - 1 \in DOMAIN rest /\ rest[j - 1] = frontier[j]
    BY <1>2, <1>4, TailIs
  <2> HIDE DEF rest
  <2>4. IsGrown(findings', findings, Path, new) /\ IsGrown(frontier', rest, Path, new)
    <3>1. findings' = findings \o Extended(Path, new) /\ frontier' = rest \o Extended(Path, new)
      BY <1>1 DEF rest
    <3> QED
      BY <1>3, <1>4, <2>3, <3>1, GrownIs
  <2>5. /\ findings' \in Seq(Seq(Reference)) /\ frontier' \in Seq(Seq(Reference))
        /\ \A n \in DOMAIN findings : n \in DOMAIN findings' /\ findings'[n] = findings[n]
        /\ \A n \in DOMAIN findings' :
             n \in DOMAIN findings \/ \E r \in new : findings'[n] = Append(Path, r)
        /\ \A r \in new : \E n \in DOMAIN findings' : findings'[n] = Append(Path, r)
    BY <2>4 DEF IsGrown
  <2>6. /\ \A n \in DOMAIN rest : n \in DOMAIN frontier' /\ frontier'[n] = rest[n]
        /\ \A r \in new : \E n \in DOMAIN frontier' : frontier'[n] = Append(Path, r)
    BY <2>4 DEF IsGrown
  <2>7. \A n \in DOMAIN findings' :
          n \in DOMAIN findings \/ \E i \in DOMAIN frontier' : frontier'[i] = findings'[n]
    <3> SUFFICES ASSUME NEW n \in DOMAIN findings', n \notin DOMAIN findings
                 PROVE  \E i \in DOMAIN frontier' : frontier'[i] = findings'[n]
      OBVIOUS
    <3>1. PICK r \in new : findings'[n] = Append(Path, r)
      BY <2>5
    <3> QED
      BY <2>6, <3>1, Zenon
  <2>8. Related(Target) \subseteq EndsWithin(findings', Len(Path) + 1)
    <3> SUFFICES ASSUME NEW x \in Related(Target)
                 PROVE  \E n \in DOMAIN findings' : x = End(findings'[n]) /\ Len(findings'[n]) <= Len(Path) + 1
      BY DEF EndsWithin
    <3>1. x # Subject
      BY DEF Related
    <3>2. x \in Ends \/ \E q \in new : x = q.object
      BY <1>1, <2>2, <3>1
    <3>3. CASE x \in Ends
      <4>1. PICK n \in DOMAIN findings : x = End(findings[n])
        BY <3>3 DEF Ends
      <4>2. Len(findings[n]) <= Len(frontier[1]) + 1
        BY <1>2, <1>3 DEF WInv, BreadthFirst
      <4> QED
        BY <1>3, <2>5, <4>1, <4>2
    <3>4. CASE \E q \in new : x = q.object
      <4>1. PICK q \in new : x = q.object
        BY <3>4
      <4>2. PICK n \in DOMAIN findings' : findings'[n] = Append(Path, q)
        BY <2>5
      <4>3. End(Append(Path, q)) = q.object /\ Len(Append(Path, q)) = Len(Path) + 1
        BY <1>3, AppendedPath
      <4>4. End(findings'[n]) = x /\ Len(findings'[n]) = Len(Path) + 1
        BY <4>1, <4>2, <4>3, Zenon
      <4> QED
        BY <1>3, <4>4
    <3> QED
      BY <3>2, <3>3, <3>4
  <2>9. \A j \in DOMAIN frontier :
          \/ \E i \in DOMAIN frontier' : frontier'[i] = frontier[j]
          \/ Len(frontier[j]) >= bounds.hops
          \/ End(frontier[j]) \in missing
          \/ Related(End(frontier[j])) \subseteq EndsWithin(findings', Len(frontier[j]) + 1)
    <3> SUFFICES ASSUME NEW j \in DOMAIN frontier
                 PROVE  \/ \E i \in DOMAIN frontier' : frontier'[i] = frontier[j]
                        \/ Related(End(frontier[j])) \subseteq EndsWithin(findings', Len(frontier[j]) + 1)
      OBVIOUS
    <3>1. CASE j = 1
      BY <1>3, <2>8, <3>1
    <3>2. CASE j # 1
      BY <2>3, <2>6, <3>2
    <3> QED
      BY <3>1, <3>2
  <2>10. /\ findings' \in Seq(Seq(Reference)) /\ frontier' \in Seq(Seq(Reference))
         /\ \A n \in DOMAIN findings : n \in DOMAIN findings' /\ findings'[n] = findings[n]
    BY <2>5
  <2>11. AllFollowed(findings, frontier)
    BY <1>2, <2>1 DEF Followed
  <2>12. IsCarried(findings, frontier, findings', frontier')
    BY <2>7, <2>9, <2>10 DEF IsCarried
  <2> QED
    BY <1>3, <1>4, <2>10, <2>11, <2>12, StaysFollowed
<1> QED
  BY <1>2, <1>5, <1>6, FollowedNext

(* The subject's own edges are all found, and each is waited for.          *)
LEMMA BeginFollowed ==
  ASSUME WInv, OneSpelling, ChildrenAreKept, Remembered, Begin
  PROVE  Remembered' /\ Followed'
<1>1. PICK d \in Derived(Subject), new \in SUBSET Reference, first \in SUBSET Reference :
        /\ \A r \in EdgesOver(Subject, d.answer) : r.object = Subject \/ r \in first
        /\ \A r \in first : r.object \in {q.object : q \in new}
        /\ findings' = Extended(<< >>, first)
        /\ frontier' = Extended(<< >>, new)
        /\ listings' = Remember(Subject, d.answer)
        /\ gaps' = d.gap
  BY BeginIs
<1>2. /\ phase = "begin" /\ phase' = "walk"
      /\ graph' = graph /\ live' = live /\ missing' = missing /\ bounds' = bounds
  BY DEF Begin, world
<1>3. Quiet /\ WalkTypeOK /\ ListingsAreReal /\ Subject \in Objects
  BY <1>2, WalkAssumption DEF Remembered, WInv
<1>9. Quiet' => Quiet /\ ~ d.gap /\ ~ d.answer.part
  <2>1. ~ gaps /\ d.gap \in BOOLEAN
    BY <1>3, DerivedIs DEF Quiet
  <2>2. gaps' = (gaps \/ d.gap)
    BY <1>1, <2>1
  <2> QED
    BY <1>1, <1>3, <2>2, QuietBefore
<1>4. Remembered'
  BY <1>1, <1>2, <1>3, <1>9, ReadRemembered
<1>5. << >> \in Seq(Reference) /\ Len(<< >>) = 0
  OBVIOUS
<1>6. IsExtended(findings', << >>, first) /\ IsExtended(frontier', << >>, new)
  BY <1>1, <1>5, ExtendedIs
<1>7. \A r \in Reference : End(Append(<< >>, r)) = r.object /\ Len(Append(<< >>, r)) = 1
  <2> SUFFICES ASSUME NEW r \in Reference
               PROVE  End(Append(<< >>, r)) = r.object /\ Len(Append(<< >>, r)) = 1
    OBVIOUS
  <2> QED
    BY DEF End
<1>8. ASSUME Quiet' PROVE AllFollowed(findings', frontier')
  <2>1. Related(Subject) \subseteq {r.object : r \in EdgesOver(Subject, d.answer)}
    BY <1>3, <1>4, <1>8, <1>9, DerivedWhole DEF WInv
  <2>2. Related(Subject) \subseteq EndsWithin(findings', 1)
    <3> SUFFICES ASSUME NEW x \in Related(Subject)
                 PROVE  \E n \in DOMAIN findings' : x = End(findings'[n]) /\ Len(findings'[n]) <= 1
      BY DEF EndsWithin
    <3>1. x # Subject
      BY DEF Related
    <3>2. PICK r \in first : x = r.object
      BY <1>1, <2>1, <3>1
    <3>3. PICK n \in DOMAIN findings' : findings'[n] = Append(<< >>, r)
      BY <1>6 DEF IsExtended
    <3>4. End(findings'[n]) = x /\ Len(findings'[n]) = 1
      BY <1>7, <3>2, <3>3, Zenon
    <3>5. Len(findings'[n]) <= 1
      BY <3>4
    <3> QED
      BY <3>4, <3>5, Zenon
  <2>3. ASSUME NEW n \in DOMAIN findings'
        PROVE  IsFollowed(findings', frontier', End(findings'[n]), Len(findings'[n]))
    <3>1. PICK r \in first : findings'[n] = Append(<< >>, r)
      BY <1>6 DEF IsExtended
    <3>2. PICK q \in new : q.object = r.object
      BY <1>1
    <3>3. PICK j \in DOMAIN frontier' : frontier'[j] = Append(<< >>, q)
      BY <1>6 DEF IsExtended
    <3>4. End(findings'[n]) = r.object /\ Len(findings'[n]) = 1
      BY <1>7, <3>1, Zenon
    <3>5. End(frontier'[j]) = q.object /\ Len(frontier'[j]) = 1
      BY <1>7, <3>3, Zenon
    <3>6. Len(frontier'[j]) <= Len(findings'[n])
      BY <3>4, <3>5
    <3>7. End(frontier'[j]) = End(findings'[n])
      BY <3>2, <3>4, <3>5, Zenon
    <3> QED
      BY <3>6, <3>7, Zenon DEF IsFollowed
  <2> QED
    BY <2>2, <2>3 DEF AllFollowed
<1> QED
  BY <1>2, <1>4, <1>8, FollowedNext

(* Whatever a walk does, what it has found is followed, or a gap is told.  *)
LEMMA NextFollowed ==
  ASSUME WInv, OneSpelling, ChildrenAreKept, ~ Silent, Remembered, Followed, [Next]_vars
  PROVE  Remembered' /\ Followed'
<1>1. CASE Begin
  BY <1>1, BeginFollowed
<1>2. CASE Stop
  <2>1. /\ phase = "walk" /\ phase' = phase /\ frontier # << >> /\ frontier' = Tail(frontier)
        /\ gaps' = gaps /\ listings' = listings /\ Len(Path) >= bounds.hops
        /\ UNCHANGED << world, findings >> /\ live' = live /\ missing' = missing
    BY <1>2 DEF Stop, FarEnough, world
  <2> QED
    BY <2>1, QuietStays, LeftFollowed, StillRemembered
<1>3. CASE Leave
  <2>1. /\ phase = "walk" /\ phase' = phase /\ gaps' = TRUE /\ listings' = listings
        /\ UNCHANGED << world, findings >> /\ live' = live /\ missing' = missing
    BY <1>3 DEF Leave, NotQueried, world
  <2> QED
    BY <2>1, QuietStays, LeftFollowed, StillRemembered
<1>4. CASE Unreadable
  <2>1. /\ phase = "walk" /\ phase' = phase /\ gaps' = TRUE /\ listings' = listings
        /\ UNCHANGED << world, findings >> /\ live' = live /\ missing' = missing
    BY <1>4 DEF Unreadable, Reading, world
  <2> QED
    BY <2>1, QuietStays, LeftFollowed, StillRemembered
<1>5. CASE Absent
  <2>1. /\ phase = "walk" /\ phase' = phase /\ frontier # << >> /\ frontier' = Tail(frontier)
        /\ gaps' = gaps /\ listings' = listings /\ Target \in missing
        /\ UNCHANGED << world, findings >> /\ live' = live /\ missing' = missing
    BY <1>5 DEF Absent, Reading, world
  <2> QED
    BY <2>1, QuietStays, LeftFollowed, StillRemembered
<1>6. CASE Expand
  BY <1>6, ExpandFollowed
<1>7. CASE Break \/ Finish
  <2>1. /\ phase = "walk" /\ phase' # "begin" /\ frontier' = frontier
        /\ gaps' = gaps /\ listings' = listings
        /\ UNCHANGED << world, findings >> /\ live' = live /\ missing' = missing
    BY <1>7 DEF Break, Finish, Reading, world
  <2> QED
    BY <2>1, QuietStays, LeftFollowed, StillRemembered
<1>8. CASE UNCHANGED vars
  <2>1. /\ phase' = phase /\ gaps' = gaps /\ listings' = listings
        /\ findings' = findings /\ frontier' = frontier
        /\ graph' = graph /\ live' = live /\ missing' = missing /\ bounds' = bounds
    BY <1>8 DEF vars, world
  <2>2. Remembered'
    BY <2>1, QuietStays, StillRemembered
  <2>3. Followed'
    BY <2>1, QuietStays, FollowedNext DEF Followed
  <2> QED
    BY <2>2, <2>3
<1> QED
  BY <1>1, <1>2, <1>3, <1>4, <1>5, <1>6, <1>7, <1>8 DEF Next

(* A chain found is a route to its end.                                    *)
LEMMA FoundIsWithin ==
  ASSUME WInv, NEW n \in DOMAIN findings
  PROVE  End(findings[n]) \in Within(bounds.hops) \ {Subject}
<1> DEFINE path == findings[n]
           k == Len(path)
           route == [i \in 0..k |-> IF i = 0 THEN Subject ELSE path[i].object]
<1>1. /\ path \in Seq(Reference) /\ IsChain(path) /\ bounds.hops \in Nat
      /\ Subject \in Objects /\ Subject \notin missing
  BY WalkAssumption DEF WInv, WalkTypeOK, Chained
<1>2. /\ k \in 1..bounds.hops
      /\ \A i \in 1..k : path[i].object \in Related(IF i = 1 THEN Subject ELSE path[i - 1].object)
      /\ \A i \in 1..(k - 1) : path[i].object \notin missing
      /\ \A i \in 1..k : path[i].object \in Objects
  <2>1. \A i \in 1..k : path[i] \in Reference
    BY <1>1
  <2>2. \A i \in 1..k : path[i].object \in Objects
    BY <2>1 DEF Reference
  <2>3. /\ k \in 1..bounds.hops
        /\ \A i \in 1..k : path[i].object \in Related(IF i = 1 THEN Subject ELSE path[i - 1].object)
        /\ \A i \in 1..(k - 1) : path[i].object \notin missing
    BY <1>1 DEF IsChain
  <2> QED
    BY <2>2, <2>3
<1>3. End(findings[n]) = path[k].object
  BY DEF End
<1> HIDE DEF path, k
<1>4. k \in Nat /\ k # 0 /\ k \in 0..bounds.hops
  BY <1>1, <1>2
<1>5. \A i \in 0..k : (i = 0 => route[i] = Subject) /\ (i # 0 => route[i] = path[i].object)
  OBVIOUS
<1>6. route \in [0..k -> Objects]
  BY <1>1, <1>2, <1>4
<1> HIDE DEF route
<1>7. route[0] = Subject /\ route[k] = path[k].object
  BY <1>4, <1>5
<1>8. ASSUME NEW i \in 1..k
      PROVE  route[i - 1] \notin missing /\ route[i] \in Related(route[i - 1])
  <2>1. CASE i = 1
    <3>1. route[i - 1] = Subject /\ route[i] = path[i].object
      BY <1>4, <1>5, <2>1
    <3> QED
      BY <1>1, <1>2, <2>1, <3>1
  <2>2. CASE i # 1
    <3>1. i - 1 \in 1..(k - 1) /\ i - 1 \in 0..k /\ i - 1 # 0 /\ i \in 0..k /\ i # 0
      BY <1>4, <2>2
    <3>2. route[i - 1] = path[i - 1].object /\ route[i] = path[i].object
      BY <1>5, <3>1
    <3> QED
      BY <1>2, <2>2, <3>1, <3>2
  <2> QED
    BY <2>1, <2>2
<1>9. route \in Routes(k)
  BY <1>6, <1>7, <1>8 DEF Routes
<1>10. route[k] \in Within(bounds.hops)
  BY <1>4, <1>9 DEF Within
<1>11. path[k].object # Subject
  <2>1. k \in 1..k
    BY <1>4
  <2>2. \E o : path[k].object \in Related(o)
    BY <1>2, <2>1
  <2> QED
    BY <2>2 DEF Related
<1> QED
  BY <1>3, <1>7, <1>10, <1>11

(* Where nothing is waited for any more, every object of a route is found  *)
(* within its hops: there is no first that is not.                         *)
LEMMA RouteIsFound ==
  ASSUME WInv, AllFollowed(findings, frontier), frontier = << >>,
         NEW k \in Nat, k <= bounds.hops, NEW p \in Routes(k), NEW i \in 0..k
  PROVE  p[i] = Subject \/ p[i] \in EndsWithin(findings, i)
<1> DEFINE T == {j \in 0..k : p[j] # Subject /\ p[j] \notin EndsWithin(findings, j)}
<1>1. /\ bounds.hops \in Nat /\ findings \in Seq(Seq(Reference))
  BY WalkAssumption DEF WInv, WalkTypeOK
<1>2. /\ p[0] = Subject
      /\ \A j \in 1..k : p[j - 1] \notin missing /\ p[j] \in Related(p[j - 1])
  BY DEF Routes
<1>3. \A m, n \in Nat : m <= n => EndsWithin(findings, m) \subseteq EndsWithin(findings, n)
  <2> SUFFICES ASSUME NEW m \in Nat, NEW n \in Nat, m <= n,
                      NEW x \in DOMAIN findings, Len(findings[x]) <= m
               PROVE  Len(findings[x]) <= n
    BY DEF EndsWithin
  <2>1. Len(findings[x]) \in Nat
    BY <1>1
  <2> QED
    BY <2>1
<1>4. SUFFICES ASSUME T # {} PROVE FALSE
  OBVIOUS
<1>5. T \in SUBSET Nat
  OBVIOUS
<1>6. PICK j \in T : \A y \in T : j <= y
  <2> HIDE DEF T
  <2> QED
    BY <1>4, <1>5, Least
<1>7. /\ j \in 0..k /\ j # 0
      /\ p[j] # Subject /\ p[j] \notin EndsWithin(findings, j)
  BY <1>2, <1>6
<1>8. j - 1 \in 0..k /\ j - 1 \in Nat /\ j \in 1..k /\ j \in Nat /\ ~ (j <= j - 1)
      /\ ~ (j - 1 >= bounds.hops)
  BY <1>1, <1>7
<1>9. j - 1 \notin T
  BY <1>6, <1>8
<1>10. p[j - 1] = Subject \/ p[j - 1] \in EndsWithin(findings, j - 1)
  BY <1>8, <1>9
<1> HIDE DEF T
<1>11. p[j - 1] \notin missing /\ p[j] \in Related(p[j - 1])
  BY <1>2, <1>8
<1>12. CASE p[j - 1] = Subject
  <2>1. p[j] \in EndsWithin(findings, 1)
    BY <1>11, <1>12 DEF AllFollowed
  <2>2. 1 \in Nat /\ 1 <= j
    BY <1>8
  <2> QED
    BY <1>3, <1>7, <1>8, <2>1, <2>2
<1>13. CASE p[j - 1] \in EndsWithin(findings, j - 1)
  <2>1. PICK n \in DOMAIN findings : p[j - 1] = End(findings[n]) /\ Len(findings[n]) <= j - 1
    BY <1>13 DEF EndsWithin
  <2>2. Len(findings[n]) \in Nat
    BY <1>1
  <2>3. IsFollowed(findings, frontier, End(findings[n]), Len(findings[n]))
    BY DEF AllFollowed
  <2>4. ~ (Len(findings[n]) >= bounds.hops)
    BY <1>1, <1>8, <2>1, <2>2
  <2>5. DOMAIN frontier = {}
    OBVIOUS
  <2>6. Related(End(findings[n])) \subseteq EndsWithin(findings, Len(findings[n]) + 1)
    BY <1>11, <2>1, <2>3, <2>4, <2>5 DEF IsFollowed
  <2>7. Len(findings[n]) + 1 \in Nat /\ Len(findings[n]) + 1 <= j
    BY <1>8, <2>1, <2>2
  <2>8. p[j] \in EndsWithin(findings, j)
    BY <1>3, <1>8, <1>11, <2>1, <2>6, <2>7
  <2> QED
    BY <1>7, <2>8
<1> QED
  BY <1>10, <1>12, <1>13

(* §40.3, §21.4 (causal.rs): when nothing is waited for any more and no    *)
(* gap was told, what is shown is what a route of the cluster leads to.    *)
LEMMA WInvNothingIsMissed ==
  ASSUME WInv, Followed
  PROVE  NothingIsMissedUntold
<1> SUFFICES ASSUME phase = "done", Quiet PROVE Reached = Within(bounds.hops) \ {Subject}
  BY DEF NothingIsMissedUntold, Shown, Quiet
<1>1. frontier = << >> /\ AllFollowed(findings, frontier)
  BY DEF WInv, WalkTypeOK, Followed
<1>2. findings \in Seq(Seq(Reference)) /\ bounds.hops \in Nat
  BY WalkAssumption DEF WInv, WalkTypeOK
<1>3. \A n \in DOMAIN findings : Last(findings[n]).object = End(findings[n])
  BY DEF End, Last
<1>4. Reached \subseteq Within(bounds.hops) \ {Subject}
  BY <1>3, FoundIsWithin DEF Reached
<1>5. ASSUME NEW x \in Within(bounds.hops), x # Subject
      PROVE  x \in Reached
  <2>1. PICK k \in 0..bounds.hops : \E p \in Routes(k) : x = p[k]
    BY DEF Within
  <2>2. PICK p \in Routes(k) : x = p[k]
    BY <2>1
  <2>3. k \in Nat /\ k <= bounds.hops /\ k \in 0..k
    BY <1>2
  <2>4. x \in EndsWithin(findings, k)
    BY <1>1, <1>5, <2>2, <2>3, RouteIsFound
  <2> QED
    BY <1>3, <2>4 DEF EndsWithin, Reached
<1> QED
  BY <1>4, <1>5

(* §40.3, §21.4 (causal.rs): an answer that tells of nothing it could not  *)
(* see, and derived from no part of a collection, shows exactly the        *)
(* objects that asking hop by hop would have shown within its hops, where  *)
(* every locator is spelled in one way, an owner's children are read of no *)
(* other object's collection, and every group that is searched answers:    *)
(* for every cluster, whatever order it is read in.                        *)
THEOREM WalkMissesNothingUntold ==
  ASSUME OneSpelling, ChildrenAreKept, ~ Silent
  PROVE  Spec => []NothingIsMissedUntold
<1>1. Init => WInv /\ Remembered /\ Followed
  BY InitWInv
<1>2. WInv /\ Remembered /\ Followed /\ [Next]_vars => (WInv /\ Remembered /\ Followed)'
  BY NextWInv, NextFollowed
<1>3. WInv /\ Remembered /\ Followed => NothingIsMissedUntold
  BY WInvNothingIsMissed
<1> QED
  BY <1>1, <1>2, <1>3, PTL DEF Spec

-----------------------------------------------------------------------------
(* The relationships a walk follows, asked from either end (Kin): what an  *)
(* object states of itself, what is read of a second object, and that the  *)
(* two ends of every pair are told of the same relationship.               *)


(* What an object states of others besides its owners.                     *)
OtherStated == {
  "scheduled-on", "uses-service", "endpoint-for", "routes-to",
  "uses-tls-secret", "uses-ingress-class", "attaches-to", "uses-gateway-class",
  "runs-as", "mounts", "bound-to", "uses-storage-class", "references-config",
  "references-secret", "uses-secret", "uses-image-pull-secret", "binds"}

(* An edge has what it is made of.                                         *)
LEMMA EdgeIs ==
  ASSUME NEW o, NEW relation, NEW target, NEW evidence, NEW also
  PROVE  /\ K!Edge(o, relation, target, evidence, also).relation = relation
         /\ K!Edge(o, relation, target, evidence, also).target = target
         /\ K!Edge(o, relation, target, evidence, also).evidence = evidence
         /\ K!Edge(o, relation, target, evidence, also).also = also
BY DEF K!Edge

(* An edge from a name in a field is of the relation it is made for.       *)
LEMMA NamedEdges ==
  ASSUME NEW o, NEW relation, NEW kind, NEW name, NEW also
  PROVE  /\ K!Reference(o, relation, kind, name, also).relation = relation
         /\ K!ToCluster(o, relation, kind, name, also).relation = relation
BY EdgeIs DEF K!Reference, K!ToCluster

(* A template states nothing of owners, and no edge that has another end.  *)
LEMMA PodSpecStates ==
  ASSUME NEW o, NEW spec, NEW e \in K!PodSpecEdges(o, spec)
  PROVE  e.relation \in OtherStated \ {"routes-to"}
<1>1. \A entry : K!Read(o, entry).relation \in {"references-secret", "references-config"}
  BY NamedEdges DEF K!Read
<1>2. \A v : \A x \in K!VolumeEdges(o, v) : x.relation \in {"mounts", "references-secret", "references-config"}
  BY <1>1, NamedEdges DEF K!VolumeEdges
<1>3. \A c : \A x \in K!ContainerEdges(o, c) : x.relation \in {"references-secret", "references-config"}
  BY <1>1 DEF K!ContainerEdges
<1> DEFINE accounts == {K!Reference(o, "runs-as", "ServiceAccount", n, {}) : n \in K!Of(spec, "serviceAccountName")}
           pulls == {K!Reference(o, "uses-image-pull-secret", "Secret", n, {}) : n \in K!Of(spec, "imagePullSecrets")}
           volumes == UNION {K!VolumeEdges(o, v) : v \in K!Of(spec, "volumes")}
           containers == UNION {K!ContainerEdges(o, c) : c \in UNION {K!Of(spec, list) :
                           list \in {"containers", "initContainers", "ephemeralContainers"}}}
<1>4. e \in accounts \cup pulls \cup volumes \cup containers
  BY DEF K!PodSpecEdges
<1>5. e \in accounts => e.relation = "runs-as"
  BY NamedEdges
<1>6. e \in pulls => e.relation = "uses-image-pull-secret"
  BY NamedEdges
<1>7. e \in volumes => e.relation \in {"mounts", "references-secret", "references-config"}
  BY <1>2
<1>8. e \in containers => e.relation \in {"references-secret", "references-config"}
  BY <1>3
<1> HIDE DEF accounts, pulls, volumes, containers
<1> QED
  BY <1>4, <1>5, <1>6, <1>7, <1>8 DEF OtherStated

(* What an object states of itself is of its owners, or of those.          *)
LEMMA ObjectStates ==
  ASSUME NEW o, NEW e \in K!EdgesOf(o)
  PROVE  e \in K!OwnerEdges(o) \/ e.relation \in OtherStated \ {"routes-to"}
<1>1. \A x \in K!PodEdges(o) : x.relation \in OtherStated \ {"routes-to"}
  BY PodSpecStates, NamedEdges DEF K!PodEdges, OtherStated
<1>2. \A x \in K!StorageClassEdge(o) : x.relation \in OtherStated \ {"routes-to"}
  <2>1. \A x \in K!StorageClassEdge(o) : x.relation = "uses-storage-class"
    BY NamedEdges DEF K!StorageClassEdge
  <2> QED
    BY <2>1 DEF OtherStated
<1>3. \A x \in K!ClaimEdges(o) : x.relation \in OtherStated \ {"routes-to"}
  BY <1>2, NamedEdges DEF K!ClaimEdges, OtherStated
<1>4. \A x \in K!BindingEdges(o) : x.relation \in OtherStated \ {"routes-to"}
  <2>1. \A x \in K!BindingEdges(o) : \E target, also : x = K!Edge(o, "binds", target, "native-field", also)
    BY DEF K!BindingEdges
  <2>2. \A x \in K!BindingEdges(o) : x.relation = "binds"
    BY <2>1, EdgeIs
  <2> QED
    BY <2>2 DEF OtherStated
<1> QED
  BY <1>1, <1>2, <1>3, <1>4 DEF K!EdgesOf

(* So is what an Ingress states.                                           *)
LEMMA IngressStates ==
  ASSUME NEW o, NEW e \in K!IngressEdges(o)
  PROVE  e.relation \in OtherStated
<1>1. \A b, also : K!BackendEdge(o, b, also).relation = "routes-to"
  BY NamedEdges DEF K!BackendEdge
<1> DEFINE classes == {K!ToCluster(o, "uses-ingress-class", "IngressClass", n, {}) : n \in K!Field(o, "ingressClassName")}
           secrets == {K!Reference(o, "uses-tls-secret", "Secret", t.secretName, t.hosts) : t \in K!Field(o, "tls")}
           default == {K!BackendEdge(o, b, {}) : b \in K!Field(o, "defaultBackend")}
           paths == UNION {{K!BackendEdge(o, p.backend, r.host \cup p.path) : p \in r.paths} : r \in K!Field(o, "rules")}
<1>2. e \in classes \cup secrets \cup default \cup paths
  BY DEF K!IngressEdges
<1>3. e \in classes => e.relation = "uses-ingress-class"
  BY NamedEdges
<1>4. e \in secrets => e.relation = "uses-tls-secret"
  BY NamedEdges
<1>5. e \in default => e.relation = "routes-to"
  BY <1>1
<1>6. e \in paths => e.relation = "routes-to"
  <2>1. e \in paths => \E b, also : e = K!BackendEdge(o, b, also)
    OBVIOUS
  <2> QED
    BY <1>1, <2>1
<1> HIDE DEF classes, secrets, default, paths
<1> QED
  BY <1>2, <1>3, <1>4, <1>5, <1>6 DEF OtherStated

(* So is all that an object states; an Ingress routes by its own rules     *)
(* only.                                                                   *)
LEMMA StatedIs ==
  ASSUME NEW o, NEW e \in K!StatedEdges(o)
  PROVE  /\ e \in K!OwnerEdges(o) \/ e.relation \in OtherStated
         /\ K!Is(o, "networking", "Ingress") /\ e.relation = "routes-to" =>
              e \in K!IngressEdges(o) \/ e \in K!OwnerEdges(o)
<1>1. \A x \in K!AccountSecrets(o) : x.relation \in OtherStated \ {"routes-to"}
  BY NamedEdges DEF K!AccountSecrets, OtherStated
<1>2. \A x \in K!TemplateDependencies(o) : x.relation \in OtherStated \ {"routes-to"}
  BY PodSpecStates DEF K!TemplateDependencies
<1>3. \A x \in K!GoverningService(o) : x.relation \in OtherStated \ {"routes-to"}
  BY NamedEdges DEF K!GoverningService, OtherStated
<1>4. \A x \in K!EndpointTargets(o) : x.relation \in OtherStated \ {"routes-to"}
  BY EdgeIs DEF K!EndpointTargets, OtherStated
<1>5. \A x \in K!Adapted(o) : x.relation \in OtherStated
  BY EdgeIs, NamedEdges DEF K!Adapted, K!GatewayEdges, K!Named, OtherStated
<1>6. K!Is(o, "networking", "Ingress") => K!Adapted(o) = {}
  BY DEF K!Is, K!Adapted, K!Compatibility
<1> QED
  BY <1>1, <1>2, <1>3, <1>4, <1>5, <1>6, ObjectStates, IngressStates DEF K!StatedEdges

(* What an end is of: an object by its kind, its namespace and its name.   *)
LEMMA TargetIs ==
  ASSUME NEW kind, NEW namespace, NEW name, NEW uid
  PROVE  LET t == K!Target(kind, namespace, name, uid) IN
         t.kind = kind /\ t.namespace = namespace /\ t.name = name /\ t.uid = uid
BY DEF K!Target

(* An end made of an object has its kind, namespace, name and uid.         *)
LEMMA OfObjectIs ==
  ASSUME NEW o
  PROVE  LET t == K!OfObject(o) IN
         t.kind = o.kind /\ t.namespace = o.namespace /\ t.name = o.name /\ t.uid = o.uid
BY DEF K!Target, K!OfObject

IsAnswer(a) == \E evaluated, edges : a = [evaluated |-> evaluated, edges |-> edges]

(* An answer says whether the rule was evaluated, and its edges.           *)
LEMMA EvaluatedIs ==
  ASSUME NEW edges
  PROVE  /\ IsAnswer(K!Evaluated(edges)) /\ K!Evaluated(edges).edges = edges
         /\ K!Evaluated(edges).evaluated = TRUE
         /\ IsAnswer(K!NotEvaluated) /\ K!NotEvaluated.edges = {} /\ K!NotEvaluated.evaluated = FALSE
BY DEF K!Evaluated, K!NotEvaluated, IsAnswer

(* A Pod is told of by what protects it, and by what selects it.           *)
LEMMA PodIs ==
  ASSUME NEW p, NEW cluster, NEW indexed
  PROVE  LET by == K!ProtectedBy(p, K!Collection(p, "networking", "NetworkPolicy", K!Everything, cluster, indexed))
             second == K!TwoSidedPod(p, cluster, indexed)
         IN  /\ IsAnswer(second) /\ second.evaluated = by.evaluated
             /\ second.edges = by.edges
                  \cup K!SelectedBy(p, K!Collection(p, K!Core, "Service", K!Everything, cluster, indexed))
<1> DEFINE policies == K!Collection(p, "networking", "NetworkPolicy", K!Everything, cluster, indexed)
           by == K!ProtectedBy(p, policies)
<1>1. IsAnswer(by)
  BY EvaluatedIs DEF K!ProtectedBy
<1> HIDE DEF by
<1>2. PICK evaluated, edges : by = [evaluated |-> evaluated, edges |-> edges]
  BY <1>1 DEF IsAnswer
<1> DEFINE selecting == K!SelectedBy(p, K!Collection(p, K!Core, "Service", K!Everything, cluster, indexed))
           second == [by EXCEPT !.edges = @ \cup selecting]
<1>3. K!TwoSidedPod(p, cluster, indexed) = second
  BY DEF K!TwoSidedPod, by
<1> HIDE DEF selecting
<1>4. second = [evaluated |-> evaluated, edges |-> edges \cup selecting]
  BY <1>2
<1> HIDE DEF second
<1>5. IsAnswer(second) /\ second.evaluated = by.evaluated /\ second.edges = by.edges \cup selecting
  BY <1>2, <1>4 DEF IsAnswer
<1> QED
  BY <1>3, <1>5 DEF by, selecting

(* `two_sided` answers so whatever the kind.                               *)
LEMMA TwoSidedAnswers ==
  ASSUME NEW o, NEW cluster, NEW indexed
  PROVE  IsAnswer(K!TwoSided(o, cluster, indexed))
<1>1. IsAnswer(K!TwoSidedPolicy(o, cluster, indexed))
  BY EvaluatedIs DEF K!TwoSidedPolicy, K!PolicySelects
<1>2. IsAnswer(K!TwoSidedPod(o, cluster, indexed))
  BY PodIs
<1> QED
  BY <1>1, <1>2, EvaluatedIs DEF K!TwoSided

(* `derive`: what the second object shows, and what the object states.     *)
LEMMA DeriveIs ==
  ASSUME NEW o, NEW cluster, NEW indexed
  PROVE  LET answer == K!Derive(o, cluster, indexed) second == K!TwoSided(o, cluster, indexed) IN
         /\ answer.evaluated = second.evaluated
         /\ answer.edges = second.edges \cup K!StatedEdges(o)
<1> DEFINE second == K!TwoSided(o, cluster, indexed)
           stated == K!StatedEdges(o)
<1>1. PICK evaluated, edges : second = [evaluated |-> evaluated, edges |-> edges]
  BY TwoSidedAnswers DEF IsAnswer
<1>2. K!Derive(o, cluster, indexed) = [second EXCEPT !.edges = @ \cup stated]
  BY DEF K!Derive
<1> HIDE DEF second, stated
<1>3. [second EXCEPT !.edges = @ \cup stated] = [evaluated |-> evaluated, edges |-> edges \cup stated]
  BY <1>1
<1>4. /\ K!Derive(o, cluster, indexed).evaluated = second.evaluated
      /\ K!Derive(o, cluster, indexed).edges = second.edges \cup stated
  BY <1>1, <1>2, <1>3
<1> QED
  BY <1>4 DEF second, stated

(* The owner references of p that say o, and o is of p's namespace: what   *)
(* both ends of an ownership look at.                                      *)
Said(o, p) ==
  {r \in p.owners : r.uid = o.uid /\ r.kind = o.kind /\ p.namespace = o.namespace /\ o.uid # K!Unstated}
AreFamily(o, p, controls) == \E r \in Said(o, p) : controls => r.controller

(* `owns` (relationship.rs): the owner's end of an owner reference.        *)
LEMMA OwnsIs ==
  ASSUME NEW o, NEW candidates, NEW e
  PROVE  e \in K!Owns(o, candidates) <=>
           /\ o.uid # K!Unstated
           /\ \E c \in candidates : \E r \in c.owners :
                /\ o.namespace # K!Nowhere => c.namespace = o.namespace
                /\ r.uid = o.uid /\ r.kind = o.kind
                /\ \E relation \in {"owns"} \cup IF r.controller THEN {"controls"} ELSE {} :
                     e = K!Edge(o, relation, K!OfObject(c), "owner-reference", {"reversed"})
<1> DEFINE claims(c) == {r \in c.owners : r.uid = o.uid /\ r.kind = o.kind}
           nearby    == {c \in candidates : o.namespace # K!Nowhere => c.namespace = o.namespace}
           named(r)  == {"owns"} \cup IF r.controller THEN {"controls"} ELSE {}
           edge(c, relation) == K!Edge(o, relation, K!OfObject(c), "owner-reference", {"reversed"})
           found == UNION {UNION {{edge(c, relation) : relation \in named(r)} : r \in claims(c)} : c \in nearby}
<1>1. K!Owns(o, candidates) = IF o.uid = K!Unstated THEN {} ELSE found
  BY DEF K!Owns
<1>2. e \in found <=> \E c \in nearby : \E r \in claims(c) : \E relation \in named(r) : e = edge(c, relation)
  <2> HIDE DEF claims, nearby, named, edge
  <2> QED
    OBVIOUS
<1> HIDE DEF found
<1> QED
  BY <1>1, <1>2

(* Children are looked for in the collections of the owner's kind.         *)
LEMMA ChildrenIs ==
  ASSUME NEW o, NEW cluster, NEW indexed, NEW e
  PROVE  e \in K!Children(o, cluster, indexed) <=>
           \E row \in K!ChildrenOf :
             /\ K!Is(o, row[1], row[2]) /\ o.uid # K!Unstated
             /\ e \in K!Owns(o, K!Collection(o, row[3], row[4],
                                 K!OwnedBy(o.uid, K!Prefilter(o)), cluster, indexed))
BY DEF K!Children

(* What a collection holds is of the cluster, its kind and its namespace,  *)
(* and what its owner adopted is in it.                                    *)
LEMMA CollectionIs ==
  ASSUME NEW o, NEW group, NEW kind, NEW wanted, NEW cluster, NEW indexed
  PROVE  \A c \in K!Collection(o, group, kind, wanted, cluster, indexed) :
           wanted.wants \in {"everything", "selected", "owned"} =>
             c \in cluster /\ K!Is(c, group, kind) /\ c.namespace = o.namespace
BY DEF K!Collection, K!AnsweredBy, K!Listed

(* Where everything is wanted, all of the kind and namespace is in it.     *)
LEMMA AllAreCollected ==
  ASSUME NEW o, NEW group, NEW kind, NEW cluster, NEW indexed,
         NEW c \in cluster, K!Is(c, group, kind), c.namespace = o.namespace
  PROVE  c \in K!Collection(o, group, kind, K!Everything, cluster, indexed)
BY DEF K!Collection, K!AnsweredBy, K!Listed, K!Everything

(* What the labels of a selector match is in what was selected by it.      *)
LEMMA SelectedAreCollected ==
  ASSUME NEW o, NEW group, NEW kind, NEW cluster, NEW indexed, NEW labels,
         NEW c \in cluster, K!Is(c, group, kind), c.namespace = o.namespace, K!Satisfies(c.labels, labels)
  PROVE  c \in K!Collection(o, group, kind, K!Selected(K!Equalities(labels)), cluster, indexed)
<1>1. K!Matches(K!Equalities(labels), c.labels)
  BY DEF K!Matches, K!Equalities
<1> DEFINE wanted == K!Selected(K!Equalities(labels))
<1>2. wanted.wants = "selected" /\ wanted.selector = K!Equalities(labels)
  BY DEF K!Selected
<1> HIDE DEF wanted
<1>3. c \in K!Collection(o, group, kind, wanted, cluster, indexed)
  BY <1>1, <1>2 DEF K!Collection, K!AnsweredBy, K!Listed
<1> QED
  BY <1>3 DEF wanted

(* What an owner adopted is in what is asked for by its uid.               *)
LEMMA AdoptedAreCollected ==
  ASSUME NEW o, NEW group, NEW kind, NEW cluster, NEW indexed,
         NEW c \in cluster, K!Is(c, group, kind), c.namespace = o.namespace,
         \E r \in c.owners : r.uid = o.uid,
         \A s \in K!Prefilter(o) : K!Matches(s, c.labels)
  PROVE  c \in K!Collection(o, group, kind, K!OwnedBy(o.uid, K!Prefilter(o)), cluster, indexed)
<1> DEFINE wanted == K!OwnedBy(o.uid, K!Prefilter(o))
<1>2. wanted.wants = "owned" /\ wanted.uid = o.uid /\ wanted.prefilter = K!Prefilter(o)
  BY DEF K!OwnedBy
<1> HIDE DEF wanted
<1>3. c \in K!Collection(o, group, kind, wanted, cluster, indexed)
  BY <1>2 DEF K!Collection, K!AnsweredBy, K!Listed
<1> QED
  BY <1>3 DEF wanted

(* The three ways to ask for a collection.                                 *)
LEMMA WantedIs ==
  /\ K!Everything.wants = "everything"
  /\ \A s : K!Selected(s).wants = "selected"
  /\ \A u, s : K!OwnedBy(u, s).wants = "owned"
BY DEF K!Everything, K!Selected, K!OwnedBy

(* What a second object shows, by the kind of its source.                  *)
LEMMA ChildrenShow ==
  ASSUME NEW o, NEW cluster, NEW indexed, NEW e \in K!Children(o, cluster, indexed)
  PROVE  e.relation \in {"owns", "controls"}
<1>1. PICK c, r : \E relation \in {"owns"} \cup IF r.controller THEN {"controls"} ELSE {} :
        e = K!Edge(o, relation, K!OfObject(c), "owner-reference", {"reversed"})
  BY ChildrenIs, OwnsIs
<1> QED
  BY <1>1, EdgeIs

RouterEdges(r) == (IF K!Is(r, "networking", "Ingress") THEN K!IngressEdges(r) ELSE {}) \cup K!Adapted(r)
RoutesTo(d, service) ==
  /\ d.relation = "routes-to" /\ d.target.kind = "Service"
  /\ d.target.name = service.name /\ d.target.namespace = service.namespace
RoutedEdge(service, r, d) ==
  K!Edge(service, "routed-from", K!OfObject(r), d.evidence, d.also \cup {"reversed"})

(* `routed_from` (relationship.rs): the Service's end of a route.          *)
LEMMA RoutedIs ==
  ASSUME NEW service, NEW routers, NEW e
  PROVE  e \in K!RoutedFrom(service, routers) <=>
           \E r \in routers : \E d \in RouterEdges(r) : RoutesTo(d, service) /\ e = RoutedEdge(service, r, d)
<1> DEFINE here(r) == {d \in RouterEdges(r) : RoutesTo(d, service)}
<1>1. K!RoutedFrom(service, routers) = UNION {{RoutedEdge(service, r, d) : d \in here(r)} : r \in routers}
  BY DEF K!RoutedFrom, RouterEdges, RoutesTo, RoutedEdge
<1> QED
  BY <1>1

(* `selects` (relationship.rs): the Service's end of a selection.          *)
LEMMA SelectsIs ==
  ASSUME NEW service, NEW candidates, NEW e
  PROVE  e \in K!Selects(service, candidates) <=>
           \E p \in candidates :
             /\ \E s \in K!Field(service, "selector") : DOMAIN s # {} /\ K!Reaches(s, p, service.namespace)
             /\ e = K!Edge(service, "selects", K!OfObject(p), "selector", {})
BY DEF K!Selects

(* `selected_by` (relationship.rs): the Pod's end of a selection.          *)
LEMMA SelectedIs ==
  ASSUME NEW pod, NEW candidates, NEW e
  PROVE  e \in K!SelectedBy(pod, candidates) <=>
           \E q \in candidates :
             /\ K!Is(q, K!Core, "Service")
             /\ \E s \in K!Field(q, "selector") : DOMAIN s # {} /\ K!Reaches(s, pod, q.namespace)
             /\ e = K!Edge(pod, "selected-by", K!OfObject(q), "selector", {"reversed"})
BY DEF K!SelectedBy

(* `policy_selects` (relationship.rs): the policy's end, where it is read. *)
LEMMA PolicySelectsIs ==
  ASSUME NEW o, NEW candidates
  PROVE  LET answer == K!PolicySelects(o, candidates) IN
         /\ answer.evaluated <=> K!Evaluable(o)
         /\ \A e : e \in answer.edges <=>
              /\ K!Evaluable(o)
              /\ \E p \in candidates :
                   /\ K!Is(p, K!Core, "Pod") /\ K!Governs(o, p)
                   /\ e = K!Edge(o, "selects", K!OfObject(p), "selector", K!PolicyEvidence(o))
<1> DEFINE edge(p) == K!Edge(o, "selects", K!OfObject(p), "selector", K!PolicyEvidence(o))
           pods == {p \in candidates : K!Is(p, K!Core, "Pod") /\ K!Governs(o, p)}
           edges == {edge(p) : p \in pods}
           answer == K!PolicySelects(o, candidates)
<1>1. answer = IF ~ K!Evaluable(o) THEN K!NotEvaluated ELSE K!Evaluated(edges)
  BY DEF K!PolicySelects
<1>2. \A e : e \in edges <=> \E p \in pods : e = edge(p)
  OBVIOUS
<1> HIDE DEF edges, answer
<1>3. /\ answer.evaluated <=> K!Evaluable(o)
      /\ \A e : e \in answer.edges <=> K!Evaluable(o) /\ e \in edges
  BY <1>1, EvaluatedIs
<1> HIDE DEF edge
<1>4. /\ answer.evaluated <=> K!Evaluable(o)
      /\ \A e : e \in answer.edges <=>
              /\ K!Evaluable(o)
              /\ \E p \in candidates : K!Is(p, K!Core, "Pod") /\ K!Governs(o, p) /\ e = edge(p)
  BY <1>2, <1>3
<1> QED
  BY <1>4 DEF edge, answer

(* `protected_by` (relationship.rs): the Pod's end, where all are read.    *)
LEMMA ProtectedIs ==
  ASSUME NEW pod, NEW candidates
  PROVE  LET answer == K!ProtectedBy(pod, candidates)
             evaluated == K!Is(pod, K!Core, "Pod") /\ \A q \in candidates : K!IsPolicy(q) => K!Evaluable(q)
         IN
         /\ answer.evaluated <=> evaluated
         /\ \A e : e \in answer.edges <=>
              /\ evaluated
              /\ \E q \in candidates :
                   /\ K!IsPolicy(q) /\ K!Governs(q, pod)
                   /\ e = K!Edge(pod, "protected-by", K!OfObject(q), "selector", K!PolicyEvidence(q))
<1> DEFINE edge(q) == K!Edge(pod, "protected-by", K!OfObject(q), "selector", K!PolicyEvidence(q))
           policies == {q \in candidates : K!IsPolicy(q)}
           edges == {edge(q) : q \in {q \in policies : K!Governs(q, pod)}}
           answer == K!ProtectedBy(pod, candidates)
           evaluated == K!Is(pod, K!Core, "Pod") /\ \A q \in candidates : K!IsPolicy(q) => K!Evaluable(q)
<1>1. answer = IF ~ evaluated THEN K!NotEvaluated ELSE K!Evaluated(edges)
  BY DEF K!ProtectedBy
<1>2. \A e : e \in edges <=> \E q \in candidates : K!IsPolicy(q) /\ K!Governs(q, pod) /\ e = edge(q)
  OBVIOUS
<1> HIDE DEF edges, answer, evaluated
<1>3. /\ answer.evaluated <=> evaluated
      /\ \A e : e \in answer.edges <=> evaluated /\ e \in edges
  BY <1>1, EvaluatedIs
<1> HIDE DEF edge
<1>4. /\ answer.evaluated <=> evaluated
      /\ \A e : e \in answer.edges <=>
              evaluated /\ \E q \in candidates : K!IsPolicy(q) /\ K!Governs(q, pod) /\ e = edge(q)
  BY <1>2, <1>3
<1> QED
  BY <1>4 DEF edge, answer, evaluated

(* A Service shows what it selects, its slices, and what routes to it.     *)
LEMMA ServiceShows ==
  ASSUME NEW o, NEW cluster, NEW indexed, NEW e \in K!TwoSidedService(o, cluster, indexed)
  PROVE  /\ e.relation \in {"selects", "represented-by", "routed-from"}
         /\ e.relation = "selects" =>
              \E s \in K!Field(o, "selector") :
                DOMAIN s # {} /\ e \in K!Selects(o, K!Collection(o, K!Core, "Pod",
                                         K!Selected(K!Equalities(s)), cluster, indexed))
         /\ e.relation = "routed-from" =>
              e \in K!RoutedFrom(o, K!Collection(o, "networking", "Ingress", K!Everything, cluster, indexed))
<1> DEFINE pods(s) == K!Collection(o, K!Core, "Pod", K!Selected(K!Equalities(s)), cluster, indexed)
           slices == K!Collection(o, "discovery", "EndpointSlice",
                       K!Selected(K!Equalities([k \in {K!ServiceName} |-> o.name])), cluster, indexed)
           routers == K!Collection(o, "networking", "Ingress", K!Everything, cluster, indexed)
<1>1. \/ \E s \in K!Field(o, "selector") : DOMAIN s # {} /\ e \in K!Selects(o, pods(s))
      \/ e \in K!EndpointSlices(o, slices)
      \/ e \in K!RoutedFrom(o, routers)
  BY DEF K!TwoSidedService
<1> HIDE DEF pods, slices, routers
<1>2. \A s : \A x \in K!Selects(o, pods(s)) : x.relation = "selects"
  BY EdgeIs DEF K!Selects
<1>3. \A x \in K!EndpointSlices(o, slices) : x.relation = "represented-by"
  BY EdgeIs DEF K!EndpointSlices
<1>4. \A x \in K!RoutedFrom(o, routers) : x.relation = "routed-from"
  <2> SUFFICES ASSUME NEW x \in K!RoutedFrom(o, routers) PROVE x.relation = "routed-from"
    OBVIOUS
  <2>1. PICK r, d : x = RoutedEdge(o, r, d)
    BY RoutedIs
  <2> QED
    BY <2>1, EdgeIs DEF RoutedEdge
<1>5. /\ e.relation \in {"selects", "represented-by", "routed-from"}
      /\ e.relation = "selects" => \E s \in K!Field(o, "selector") : DOMAIN s # {} /\ e \in K!Selects(o, pods(s))
      /\ e.relation = "routed-from" => e \in K!RoutedFrom(o, routers)
  BY <1>1, <1>2, <1>3, <1>4
<1> QED
  BY <1>5 DEF pods, routers

(* A policy shows what it selects.                                         *)
LEMMA PolicyShows ==
  ASSUME NEW o, NEW candidates, NEW e \in K!PolicySelects(o, candidates).edges
  PROVE  e.relation = "selects"
BY PolicySelectsIs, EdgeIs

(* A Pod shows what protects it and what selects it.                       *)
LEMMA PodShows ==
  ASSUME NEW p, NEW candidates
  PROVE  /\ \A e \in K!ProtectedBy(p, candidates).edges : e.relation = "protected-by"
         /\ \A e \in K!SelectedBy(p, candidates) : e.relation = "selected-by"
<1>1. \A e \in K!SelectedBy(p, candidates) : e.relation = "selected-by"
  BY EdgeIs DEF K!SelectedBy
<1>2. \A e \in K!ProtectedBy(p, candidates).edges : e.relation = "protected-by"
  BY ProtectedIs, EdgeIs
<1> QED
  BY <1>1, <1>2

(* Which rule reads the second object is the kind's.                       *)
LEMMA ServiceSide ==
  ASSUME NEW o, NEW cluster, NEW indexed, K!Is(o, K!Core, "Service")
  PROVE  /\ K!TwoSided(o, cluster, indexed).edges = K!TwoSidedService(o, cluster, indexed)
         /\ K!TwoSided(o, cluster, indexed).evaluated = TRUE
<1>1. ~ K!IsPolicy(o) /\ ~ K!Is(o, K!Core, "Pod")
  BY DEF K!Is, K!IsPolicy
<1> QED
  BY <1>1, EvaluatedIs DEF K!TwoSided

(* A policy reads Pods.                                                    *)
LEMMA PolicySide ==
  ASSUME NEW o, NEW cluster, NEW indexed, K!IsPolicy(o)
  PROVE  K!TwoSided(o, cluster, indexed) = K!TwoSidedPolicy(o, cluster, indexed)
<1>1. ~ K!Is(o, K!Core, "Service") /\ ~ K!Is(o, K!Core, "Pod")
  BY DEF K!Is, K!IsPolicy
<1> QED
  BY <1>1 DEF K!TwoSided

(* A Pod reads policies and Services.                                      *)
LEMMA PodSide ==
  ASSUME NEW o, NEW cluster, NEW indexed, K!Is(o, K!Core, "Pod")
  PROVE  K!TwoSided(o, cluster, indexed) = K!TwoSidedPod(o, cluster, indexed)
<1>1. ~ K!Is(o, K!Core, "Service") /\ ~ K!IsPolicy(o)
  BY DEF K!Is, K!IsPolicy
<1> QED
  BY <1>1 DEF K!TwoSided

(* Any other kind reads its children.                                      *)
LEMMA OtherSide ==
  ASSUME NEW o, NEW cluster, NEW indexed,
         ~ K!Is(o, K!Core, "Service"), ~ K!IsPolicy(o), ~ K!Is(o, K!Core, "Pod")
  PROVE  K!TwoSided(o, cluster, indexed).edges = K!Children(o, cluster, indexed)
BY EvaluatedIs DEF K!TwoSided

(* No second object shows what only an owner reference states.             *)
LEMMA SecondShows ==
  ASSUME NEW o, NEW cluster, NEW indexed, NEW e \in K!TwoSided(o, cluster, indexed).edges
  PROVE  /\ e.relation \in {"owns", "controls", "selects", "represented-by", "routed-from",
                            "protected-by", "selected-by"}
         /\ ~ K!Is(o, K!Core, "Service") /\ ~ K!IsPolicy(o) /\ ~ K!Is(o, K!Core, "Pod") =>
              e \in K!Children(o, cluster, indexed)
<1>1. \A x \in K!TwoSidedPolicy(o, cluster, indexed).edges : x.relation = "selects"
  BY PolicyShows, EvaluatedIs DEF K!TwoSidedPolicy
<1>2. \A x \in K!TwoSidedPod(o, cluster, indexed).edges : x.relation \in {"protected-by", "selected-by"}
  BY PodIs, PodShows
<1>3. CASE K!Is(o, K!Core, "Service")
  <2>1. K!TwoSided(o, cluster, indexed).edges = K!TwoSidedService(o, cluster, indexed)
    BY <1>3, ServiceSide
  <2> QED
    BY <1>3, <2>1, ServiceShows
<1>4. CASE K!IsPolicy(o)
  BY <1>1, <1>4, PolicySide
<1>5. CASE K!Is(o, K!Core, "Pod")
  BY <1>2, <1>5, PodSide
<1>6. CASE ~ K!Is(o, K!Core, "Service") /\ ~ K!IsPolicy(o) /\ ~ K!Is(o, K!Core, "Pod")
  <2>1. K!TwoSided(o, cluster, indexed).edges = K!Children(o, cluster, indexed)
    BY <1>6, OtherSide
  <2> QED
    BY <2>1, ChildrenShow
<1> QED
  BY <1>3, <1>4, <1>5, <1>6

(* An owner reference states an owner, and a controller where it says so.  *)
LEMMA OwnersState ==
  ASSUME NEW p, NEW e \in K!OwnerEdges(p)
  PROVE  /\ e.relation \in {"owned-by", "controlled-by"}
         /\ \E r \in p.owners : /\ e.target = K!Target(r.kind, p.namespace, r.name, r.uid)
                                /\ e.relation = "controlled-by" => r.controller
<1> DEFINE named(r) == {"owned-by"} \cup IF r.controller THEN {"controlled-by"} ELSE {}
           edge(r, relation) == K!Edge(p, relation, K!Target(r.kind, p.namespace, r.name, r.uid), "owner-reference", {})
<1>1. K!OwnerEdges(p) = UNION {{edge(r, relation) : relation \in named(r)} : r \in p.owners}
  BY DEF K!OwnerEdges
<1>2. PICK r \in p.owners : \E relation \in named(r) : e = edge(r, relation)
  <2> HIDE DEF named, edge
  <2> QED
    BY <1>1
<1> QED
  BY <1>2, EdgeIs

(* What only a second object shows, and what only the object states.       *)
LEMMA ShownLeads ==
  ASSUME NEW o, NEW p, NEW cluster, NEW indexed,
         NEW relation \in {"owns", "controls", "selects", "selected-by", "protected-by", "routed-from"}
  PROVE  K!Leads(K!Derive(o, cluster, indexed).edges, relation, p)
           <=> K!Leads(K!TwoSided(o, cluster, indexed).edges, relation, p)
<1>1. \A e \in K!StatedEdges(o) : e.relation # relation
  BY StatedIs, OwnersState DEF OtherStated
<1>2. K!Derive(o, cluster, indexed).edges = K!TwoSided(o, cluster, indexed).edges \cup K!StatedEdges(o)
  BY DeriveIs
<1> QED
  BY <1>1, <1>2 DEF K!Leads

(* So a relation that only the object states leads as it states it.        *)
LEMMA StatedLeads ==
  ASSUME NEW o, NEW p, NEW cluster, NEW indexed,
         NEW relation \in {"owned-by", "controlled-by", "routes-to"}
  PROVE  K!Leads(K!Derive(o, cluster, indexed).edges, relation, p)
           <=> K!Leads(K!StatedEdges(o), relation, p)
<1>1. \A e \in K!TwoSided(o, cluster, indexed).edges : e.relation # relation
  BY SecondShows
<1>2. K!Derive(o, cluster, indexed).edges = K!TwoSided(o, cluster, indexed).edges \cup K!StatedEdges(o)
  BY DeriveIs
<1> QED
  BY <1>1, <1>2 DEF K!Leads

(* An end leads to what it is made of; and it leads to nothing else of the *)
(* kind, for a cluster has one object of a name.                           *)
LEMMA EndLeads ==
  ASSUME NEW edges, NEW e \in edges, NEW p, e.target = K!OfObject(p)
  PROVE  K!Leads(edges, e.relation, p)
BY OfObjectIs DEF K!Leads

(* The object an end names, by its kind, namespace and name, is one.       *)
LEMMA OneOfAName ==
  ASSUME NEW cluster, K!IsCluster(cluster), NEW c \in cluster, NEW p \in cluster,
         c.group = p.group, NEW t, t = K!OfObject(c),
         t.kind = p.kind, t.namespace = p.namespace, t.name = p.name
  PROVE  c = p
BY OfObjectIs DEF K!IsCluster

-----------------------------------------------------------------------------
(* Ownership, from the owner's end and from the owned object's.            *)

LEMMA ParentsAreOther ==
  ASSUME NEW o, NEW p, K!HasChildren(o, p)
  PROVE  /\ ~ K!Is(o, K!Core, "Service") /\ ~ K!IsPolicy(o) /\ ~ K!Is(o, K!Core, "Pod")
         /\ \A row \in K!ChildrenOf : K!Is(o, row[1], row[2]) => K!Is(p, row[3], row[4])
BY DEF K!HasChildren, K!ChildrenOf, K!Is, K!IsPolicy

(* `owns` leads to p exactly where p has an owner reference that says o.   *)
LEMMA OwnerLeads ==
  ASSUME NEW cluster, K!IsCluster(cluster), NEW indexed \in BOOLEAN, NEW o \in cluster, NEW p \in cluster,
         K!HasChildren(o, p), NEW controls \in BOOLEAN
  PROVE  K!Leads(K!Derive(o, cluster, indexed).edges, IF controls THEN "controls" ELSE "owns", p)
           <=> AreFamily(o, p, controls)
<1> DEFINE relation == IF controls THEN "controls" ELSE "owns"
           children == K!Children(o, cluster, indexed)
           asked(row) == K!Collection(o, row[3], row[4], K!OwnedBy(o.uid, K!Prefilter(o)), cluster, indexed)
           edge(c, name) == K!Edge(o, name, K!OfObject(c), "owner-reference", {"reversed"})
<1>1. K!Leads(K!Derive(o, cluster, indexed).edges, relation, p) <=> K!Leads(children, relation, p)
  <2>1. relation \in {"owns", "controls"}
    OBVIOUS
  <2> HIDE DEF relation
  <2>2. K!TwoSided(o, cluster, indexed).edges = children
    BY ParentsAreOther, OtherSide
  <2> QED
    BY <2>1, <2>2, ShownLeads
<1>2. ASSUME K!Leads(children, relation, p) PROVE AreFamily(o, p, controls)
  <2>1. PICK e \in children : /\ e.relation = relation
                              /\ e.target.kind = p.kind /\ e.target.name = p.name
                              /\ e.target.namespace = p.namespace
    BY <1>2 DEF K!Leads
  <2>2. PICK row \in K!ChildrenOf : K!Is(o, row[1], row[2]) /\ o.uid # K!Unstated /\ e \in K!Owns(o, asked(row))
    BY ChildrenIs
  <2> HIDE DEF children, asked
  <2>3. PICK c \in asked(row), r \in UNION {d.owners : d \in asked(row)} :
          /\ r \in c.owners
          /\ r.uid = o.uid /\ r.kind = o.kind
          /\ \E name \in {"owns"} \cup IF r.controller THEN {"controls"} ELSE {} : e = edge(c, name)
    BY <2>2, OwnsIs
  <2>4. c \in cluster /\ K!Is(c, row[3], row[4]) /\ c.namespace = o.namespace
    BY <2>3, CollectionIs, WantedIs DEF asked
  <2>5. c.group = p.group
    BY <2>2, <2>4, ParentsAreOther DEF K!Is
  <2>6. e.target = K!OfObject(c) /\ (e.relation = "controls" => r.controller)
    BY <2>3, EdgeIs
  <2>7. c = p
    BY <2>1, <2>4, <2>5, <2>6, OneOfAName
  <2>8. r \in Said(o, p)
    BY <2>2, <2>3, <2>4, <2>7 DEF Said
  <2> QED
    BY <2>1, <2>6, <2>8 DEF AreFamily
<1>3. ASSUME AreFamily(o, p, controls) PROVE K!Leads(children, relation, p)
  <2>1. PICK r \in Said(o, p) : controls => r.controller
    BY <1>3 DEF AreFamily
  <2>2. /\ r \in p.owners /\ r.uid = o.uid /\ r.kind = o.kind
        /\ p.namespace = o.namespace /\ o.uid # K!Unstated
    BY <2>1 DEF Said
  <2>3. PICK row \in K!ChildrenOf : K!Is(o, row[1], row[2]) /\ K!Is(p, row[3], row[4])
    BY DEF K!HasChildren
  <2>4. \A s \in K!Prefilter(o) : K!Matches(s, p.labels)
    BY <2>2 DEF K!IsCluster
  <2>5. p \in asked(row)
    BY <2>2, <2>3, <2>4, AdoptedAreCollected
  <2>6. relation \in {"owns"} \cup IF r.controller THEN {"controls"} ELSE {}
    BY <2>1
  <2> HIDE DEF asked, relation
  <2>7. edge(p, relation) \in K!Owns(o, asked(row))
    BY <2>2, <2>5, <2>6, OwnsIs
  <2>8. edge(p, relation) \in children
    BY <2>2, <2>3, <2>7, ChildrenIs DEF asked
  <2> HIDE DEF children
  <2>9. edge(p, relation).relation = relation /\ edge(p, relation).target = K!OfObject(p)
    BY EdgeIs
  <2> HIDE DEF edge
  <2> QED
    BY <2>8, <2>9, EndLeads
<1> QED
  BY <1>1, <1>2, <1>3

(* `owned-by` leads to o exactly then, too.                                *)
LEMMA OwnedLeads ==
  ASSUME NEW cluster, K!IsCluster(cluster), NEW indexed \in BOOLEAN, NEW o \in cluster, NEW p \in cluster,
         K!HasChildren(o, p), NEW controls \in BOOLEAN
  PROVE  K!Leads(K!Derive(p, cluster, indexed).edges, IF controls THEN "controlled-by" ELSE "owned-by", o)
           <=> AreFamily(o, p, controls)
<1> DEFINE relation == IF controls THEN "controlled-by" ELSE "owned-by"
           named(r) == {"owned-by"} \cup IF r.controller THEN {"controlled-by"} ELSE {}
           edge(r, name) == K!Edge(p, name, K!Target(r.kind, p.namespace, r.name, r.uid), "owner-reference", {})
<1>1. K!Leads(K!Derive(p, cluster, indexed).edges, relation, o) <=> K!Leads(K!StatedEdges(p), relation, o)
  <2>1. relation \in {"owned-by", "controlled-by"}
    OBVIOUS
  <2> HIDE DEF relation
  <2> QED
    BY <2>1, StatedLeads
<1>2. ASSUME K!Leads(K!StatedEdges(p), relation, o) PROVE AreFamily(o, p, controls)
  <2>1. PICK e \in K!StatedEdges(p) :
          /\ e.relation = relation
          /\ e.target.kind = o.kind /\ e.target.name = o.name /\ e.target.namespace = o.namespace
          /\ e.target.uid \in {o.uid, K!Unstated}
    BY <1>2 DEF K!Leads
  <2>2. e \in K!OwnerEdges(p)
    BY <2>1, StatedIs DEF OtherStated
  <2>3. PICK r \in p.owners : /\ e.target = K!Target(r.kind, p.namespace, r.name, r.uid)
                              /\ e.relation = "controlled-by" => r.controller
    BY <2>2, OwnersState
  <2>4. r.kind = o.kind /\ p.namespace = o.namespace /\ r.uid \in {o.uid, K!Unstated}
    BY <2>1, <2>3, TargetIs
  <2>5. r.uid # K!Unstated
    BY DEF K!IsCluster
  <2>6. r \in Said(o, p)
    BY <2>4, <2>5 DEF Said
  <2> QED
    BY <2>1, <2>3, <2>6 DEF AreFamily
<1>3. ASSUME AreFamily(o, p, controls) PROVE K!Leads(K!StatedEdges(p), relation, o)
  <2>1. PICK r \in Said(o, p) : controls => r.controller
    BY <1>3 DEF AreFamily
  <2>2. r \in p.owners /\ r.uid = o.uid /\ r.kind = o.kind /\ p.namespace = o.namespace
    BY <2>1 DEF Said
  <2>3. r.name = o.name
    BY <2>2 DEF K!IsCluster
  <2>4. relation \in named(r)
    BY <2>1
  <2>5. K!OwnerEdges(p) = UNION {{edge(s, name) : name \in named(s)} : s \in p.owners}
    BY DEF K!OwnerEdges
  <2> HIDE DEF relation, named
  <2>6. edge(r, relation) \in K!OwnerEdges(p)
    <3> HIDE DEF edge
    <3> QED
      BY <2>2, <2>4, <2>5
  <2>7. edge(r, relation) \in K!StatedEdges(p)
    <3> HIDE DEF edge
    <3> QED
      BY <2>6 DEF K!StatedEdges, K!EdgesOf
  <2>8. edge(r, relation).relation = relation /\ edge(r, relation).target = K!OfObject(o)
    BY <2>2, <2>3, EdgeIs DEF K!OfObject
  <2> HIDE DEF edge
  <2> QED
    BY <2>7, <2>8, EndLeads
<1> QED
  BY <1>1, <1>2, <1>3

-----------------------------------------------------------------------------
(* Selection: a Service or a policy and the Pods of its namespace.         *)

IsSelected(o, p) ==
  \E s \in K!Field(o, "selector") : DOMAIN s # {} /\ K!Reaches(s, p, o.namespace)

(* `selects` leads to the Pods that a selector of the Service reaches.     *)
LEMMA ServiceLeads ==
  ASSUME NEW cluster, K!IsCluster(cluster), NEW indexed \in BOOLEAN, NEW o \in cluster, NEW p \in cluster,
         K!Is(o, K!Core, "Service"), K!Is(p, K!Core, "Pod")
  PROVE  K!Leads(K!Derive(o, cluster, indexed).edges, "selects", p) <=> IsSelected(o, p)
<1> DEFINE second == K!TwoSidedService(o, cluster, indexed)
           asked(s) == K!Collection(o, K!Core, "Pod", K!Selected(K!Equalities(s)), cluster, indexed)
           edge(c) == K!Edge(o, "selects", K!OfObject(c), "selector", {})
<1>1. K!Leads(K!Derive(o, cluster, indexed).edges, "selects", p) <=> K!Leads(second, "selects", p)
  BY ShownLeads, ServiceSide
<1>2. ASSUME K!Leads(second, "selects", p) PROVE IsSelected(o, p)
  <2>1. PICK e \in second : /\ e.relation = "selects"
                            /\ e.target.kind = p.kind /\ e.target.name = p.name
                            /\ e.target.namespace = p.namespace
    BY <1>2 DEF K!Leads
  <2>2. PICK s \in K!Field(o, "selector") : e \in K!Selects(o, asked(s))
    BY <2>1, ServiceShows
  <2> HIDE DEF second, asked
  <2>3. PICK c \in asked(s) : IsSelected(o, c) /\ e = edge(c)
    BY <2>2, SelectsIs DEF IsSelected
  <2>4. c \in cluster /\ K!Is(c, K!Core, "Pod")
    BY <2>3, CollectionIs, WantedIs DEF asked
  <2>5. e.target = K!OfObject(c)
    BY <2>3, EdgeIs
  <2>6. c = p
    BY <2>1, <2>4, <2>5, OneOfAName DEF K!Is
  <2> QED
    BY <2>3, <2>6
<1>3. ASSUME IsSelected(o, p) PROVE K!Leads(second, "selects", p)
  <2>1. PICK s \in K!Field(o, "selector") : DOMAIN s # {} /\ K!Reaches(s, p, o.namespace)
    BY <1>3 DEF IsSelected
  <2>2. p.namespace = o.namespace /\ K!Satisfies(p.labels, s)
    BY <2>1 DEF K!Reaches
  <2>3. p \in asked(s)
    BY <2>2, SelectedAreCollected
  <2> HIDE DEF asked
  <2>4. edge(p) \in K!Selects(o, asked(s))
    BY <2>1, <2>3, SelectsIs
  <2> HIDE DEF edge
  <2>5. edge(p) \in second
    BY <2>1, <2>4 DEF K!TwoSidedService, asked
  <2> HIDE DEF second
  <2>6. edge(p).relation = "selects" /\ edge(p).target = K!OfObject(p)
    BY EdgeIs DEF edge
  <2> QED
    BY <2>5, <2>6, EndLeads
<1> QED
  BY <1>1, <1>2, <1>3

(* `selected-by` leads to the Services whose selector reaches the Pod.     *)
LEMMA SelectedLeads ==
  ASSUME NEW cluster, K!IsCluster(cluster), NEW indexed \in BOOLEAN, NEW o \in cluster, NEW p \in cluster,
         K!Is(o, K!Core, "Service"), K!Is(p, K!Core, "Pod")
  PROVE  K!Leads(K!Derive(p, cluster, indexed).edges, "selected-by", o) <=> IsSelected(o, p)
<1> DEFINE second == K!TwoSidedPod(p, cluster, indexed)
           services == K!Collection(p, K!Core, "Service", K!Everything, cluster, indexed)
           by == K!ProtectedBy(p, K!Collection(p, "networking", "NetworkPolicy", K!Everything, cluster, indexed))
           edge(q) == K!Edge(p, "selected-by", K!OfObject(q), "selector", {"reversed"})
<1>1. K!Leads(K!Derive(p, cluster, indexed).edges, "selected-by", o)
        <=> K!Leads(K!SelectedBy(p, services), "selected-by", o)
  <2>1. K!Leads(K!Derive(p, cluster, indexed).edges, "selected-by", o) <=> K!Leads(second.edges, "selected-by", o)
    BY ShownLeads, PodSide
  <2>2. second.edges = by.edges \cup K!SelectedBy(p, services)
    BY PodIs
  <2>3. \A e \in by.edges : e.relation # "selected-by"
    BY PodShows
  <2> HIDE DEF second, by, services
  <2> QED
    BY <2>1, <2>2, <2>3 DEF K!Leads
<1>2. ASSUME K!Leads(K!SelectedBy(p, services), "selected-by", o) PROVE IsSelected(o, p)
  <2>1. PICK e \in K!SelectedBy(p, services) :
          e.target.kind = o.kind /\ e.target.name = o.name /\ e.target.namespace = o.namespace
    BY <1>2 DEF K!Leads
  <2> HIDE DEF services
  <2>2. PICK q \in services : IsSelected(q, p) /\ e = edge(q)
    BY <2>1, SelectedIs DEF IsSelected
  <2>3. q \in cluster /\ K!Is(q, K!Core, "Service")
    BY <2>2, CollectionIs, WantedIs DEF services
  <2>4. e.target = K!OfObject(q)
    BY <2>2, EdgeIs
  <2>5. q = o
    BY <2>1, <2>3, <2>4, OneOfAName DEF K!Is
  <2> QED
    BY <2>2, <2>5
<1>3. ASSUME IsSelected(o, p) PROVE K!Leads(K!SelectedBy(p, services), "selected-by", o)
  <2>1. o.namespace = p.namespace
    BY <1>3 DEF IsSelected, K!Reaches
  <2>2. o \in services
    BY <2>1, AllAreCollected
  <2> HIDE DEF services
  <2>3. edge(o) \in K!SelectedBy(p, services)
    BY <1>3, <2>2, SelectedIs DEF IsSelected
  <2> HIDE DEF edge
  <2>4. edge(o).relation = "selected-by" /\ edge(o).target = K!OfObject(o)
    BY EdgeIs DEF edge
  <2> QED
    BY <2>3, <2>4, EndLeads
<1> QED
  BY <1>1, <1>2, <1>3

(* A policy that is read leads to the Pods it governs; a Pod whose         *)
(* policies are all read, to those that govern it.                         *)
LEMMA PolicyLeads ==
  ASSUME NEW cluster, K!IsCluster(cluster), NEW indexed \in BOOLEAN, NEW o \in cluster, NEW p \in cluster,
         K!IsPolicy(o), K!Is(p, K!Core, "Pod"), K!Derive(o, cluster, indexed).evaluated
  PROVE  K!Evaluable(o) /\ (K!Leads(K!Derive(o, cluster, indexed).edges, "selects", p) <=> K!Governs(o, p))
<1> DEFINE second == K!TwoSidedPolicy(o, cluster, indexed)
           asked(s) == K!Collection(o, K!Core, "Pod", K!Selected(K!Equalities(s.matchLabels)), cluster, indexed)
           pods == UNION {asked(s) : s \in K!Field(o, "podSelector")}
           edge(c) == K!Edge(o, "selects", K!OfObject(c), "selector", K!PolicyEvidence(o))
<1>1. second.evaluated
  BY DeriveIs, PolicySide
<1>2. K!Evaluable(o) /\ second = K!PolicySelects(o, pods)
  <2>1. second = IF ~ K!PolicySelects(o, {}).evaluated THEN K!NotEvaluated ELSE K!PolicySelects(o, pods)
    BY DEF K!TwoSidedPolicy
  <2> HIDE DEF second, pods
  <2> QED
    BY <1>1, <2>1, EvaluatedIs, PolicySelectsIs
<1>3. K!Leads(K!Derive(o, cluster, indexed).edges, "selects", p) <=> K!Leads(second.edges, "selects", p)
  BY ShownLeads, PolicySide
<1> HIDE DEF second
<1>4. ASSUME K!Leads(second.edges, "selects", p) PROVE K!Governs(o, p)
  <2>1. PICK e \in second.edges : /\ e.target.kind = p.kind /\ e.target.name = p.name
                                  /\ e.target.namespace = p.namespace
    BY <1>4 DEF K!Leads
  <2>2. PICK c \in pods : K!Is(c, K!Core, "Pod") /\ K!Governs(o, c) /\ e = edge(c)
    <3> HIDE DEF pods
    <3> QED
      BY <1>2, <2>1, PolicySelectsIs
  <2>3. c \in cluster
    <3>1. PICK s \in K!Field(o, "podSelector") : c \in asked(s)
      <4> HIDE DEF asked
      <4> QED
        BY <2>2
    <3> QED
      BY <3>1, CollectionIs, WantedIs
  <2>4. e.target = K!OfObject(c)
    BY <2>2, EdgeIs
  <2>5. c = p
    BY <2>1, <2>2, <2>3, <2>4, OneOfAName DEF K!Is
  <2> QED
    BY <2>2, <2>5
<1>5. ASSUME K!Governs(o, p) PROVE K!Leads(second.edges, "selects", p)
  <2>1. PICK s \in K!Field(o, "podSelector") : K!Reaches(s.matchLabels, p, o.namespace)
    BY <1>5 DEF K!Governs
  <2>2. p.namespace = o.namespace /\ K!Satisfies(p.labels, s.matchLabels)
    BY <2>1 DEF K!Reaches
  <2>3. p \in asked(s)
    BY <2>2, SelectedAreCollected
  <2>4. p \in pods
    <3> HIDE DEF asked
    <3> QED
      BY <2>1, <2>3
  <2> HIDE DEF pods
  <2>5. edge(p) \in second.edges
    BY <1>2, <1>5, <2>4, PolicySelectsIs
  <2> HIDE DEF edge
  <2>6. edge(p).relation = "selects" /\ edge(p).target = K!OfObject(p)
    BY EdgeIs DEF edge
  <2> QED
    BY <2>5, <2>6, EndLeads
<1> QED
  BY <1>2, <1>3, <1>4, <1>5

(* `protected-by` leads to the policies that govern the Pod.               *)
LEMMA ProtectedLeads ==
  ASSUME NEW cluster, K!IsCluster(cluster), NEW indexed \in BOOLEAN, NEW o \in cluster, NEW p \in cluster,
         K!IsPolicy(o), K!Evaluable(o), K!Is(p, K!Core, "Pod"), K!Derive(p, cluster, indexed).evaluated
  PROVE  K!Leads(K!Derive(p, cluster, indexed).edges, "protected-by", o) <=> K!Governs(o, p)
<1> DEFINE second == K!TwoSidedPod(p, cluster, indexed)
           services == K!Collection(p, K!Core, "Service", K!Everything, cluster, indexed)
           policies == K!Collection(p, "networking", "NetworkPolicy", K!Everything, cluster, indexed)
           by == K!ProtectedBy(p, policies)
           edge(q) == K!Edge(p, "protected-by", K!OfObject(q), "selector", K!PolicyEvidence(q))
<1>1. /\ by.evaluated
      /\ K!Leads(K!Derive(p, cluster, indexed).edges, "protected-by", o) <=> K!Leads(by.edges, "protected-by", o)
  <2>1. /\ K!Leads(K!Derive(p, cluster, indexed).edges, "protected-by", o) <=> K!Leads(second.edges, "protected-by", o)
        /\ second.evaluated
    BY ShownLeads, DeriveIs, PodSide
  <2>2. second.edges = by.edges \cup K!SelectedBy(p, services) /\ second.evaluated = by.evaluated
    BY PodIs
  <2>3. \A e \in K!SelectedBy(p, services) : e.relation # "protected-by"
    BY PodShows
  <2> HIDE DEF second, by, services
  <2> QED
    BY <2>1, <2>2, <2>3 DEF K!Leads
<1>2. ASSUME K!Leads(by.edges, "protected-by", o) PROVE K!Governs(o, p)
  <2>1. PICK e \in by.edges :
          e.target.kind = o.kind /\ e.target.name = o.name /\ e.target.namespace = o.namespace
    BY <1>2 DEF K!Leads
  <2> HIDE DEF policies
  <2>2. PICK q \in policies : K!IsPolicy(q) /\ K!Governs(q, p) /\ e = edge(q)
    BY <2>1, ProtectedIs
  <2>3. q \in cluster
    BY <2>2, CollectionIs, WantedIs DEF policies
  <2>4. e.target = K!OfObject(q)
    BY <2>2, EdgeIs
  <2>5. q = o
    BY <2>1, <2>2, <2>3, <2>4, OneOfAName DEF K!Is, K!IsPolicy
  <2> QED
    BY <2>2, <2>5
<1>3. ASSUME K!Governs(o, p) PROVE K!Leads(by.edges, "protected-by", o)
  <2>1. o.namespace = p.namespace
    BY <1>3 DEF K!Governs, K!Reaches
  <2>2. o \in policies
    BY <2>1, AllAreCollected DEF K!IsPolicy
  <2> HIDE DEF policies
  <2>3. edge(o) \in by.edges
    BY <1>1, <1>3, <2>2, ProtectedIs
  <2> HIDE DEF edge, by
  <2>4. edge(o).relation = "protected-by" /\ edge(o).target = K!OfObject(o)
    BY EdgeIs DEF edge
  <2> QED
    BY <2>3, <2>4, EndLeads
<1> QED
  BY <1>1, <1>2, <1>3

-----------------------------------------------------------------------------
(* Routing: an Ingress and the Services of its namespace that it names.    *)

IsRouted(o, p) ==
  \E e \in K!IngressEdges(o) : /\ e.relation = "routes-to" /\ e.target.kind = "Service"
                               /\ e.target.name = p.name /\ e.target.namespace = p.namespace

(* A route of an Ingress stays in its namespace and names no uid.          *)
LEMMA IngressRoutes ==
  ASSUME NEW o, NEW e \in K!IngressEdges(o), e.relation = "routes-to"
  PROVE  e.target.namespace = o.namespace /\ e.target.uid = K!Unstated
<1>1. \A b, also : LET t == K!BackendEdge(o, b, also).target IN
                   t.namespace = o.namespace /\ t.uid = K!Unstated
  <2> TAKE b, also
  <2>1. K!BackendEdge(o, b, also).target = K!Target("Service", o.namespace, b.name, K!Unstated)
    BY EdgeIs DEF K!BackendEdge, K!Reference, K!Beside
  <2> QED
    BY <2>1, TargetIs
<1> DEFINE classes == {K!ToCluster(o, "uses-ingress-class", "IngressClass", n, {}) : n \in K!Field(o, "ingressClassName")}
           secrets == {K!Reference(o, "uses-tls-secret", "Secret", t.secretName, t.hosts) : t \in K!Field(o, "tls")}
           default == {K!BackendEdge(o, b, {}) : b \in K!Field(o, "defaultBackend")}
           paths == UNION {{K!BackendEdge(o, p.backend, r.host \cup p.path) : p \in r.paths} : r \in K!Field(o, "rules")}
<1>2. e \in classes \cup secrets \cup default \cup paths
  BY DEF K!IngressEdges
<1>3. e \notin classes /\ e \notin secrets
  BY NamedEdges
<1>4. e \in default => \E b, also : e = K!BackendEdge(o, b, also)
  OBVIOUS
<1>5. e \in paths => \E b, also : e = K!BackendEdge(o, b, also)
  OBVIOUS
<1> HIDE DEF classes, secrets, default, paths
<1>6. PICK b, also : e = K!BackendEdge(o, b, also)
  BY <1>2, <1>3, <1>4, <1>5
<1> QED
  BY <1>1, <1>6

(* `routes-to` leads to the Services that a rule of the Ingress names.     *)
LEMMA RouterLeads ==
  ASSUME NEW cluster, K!IsCluster(cluster), NEW indexed \in BOOLEAN, NEW o \in cluster, NEW p \in cluster,
         K!Is(o, "networking", "Ingress"), K!Is(p, K!Core, "Service")
  PROVE  K!Leads(K!Derive(o, cluster, indexed).edges, "routes-to", p) <=> IsRouted(o, p)
<1>1. K!Leads(K!Derive(o, cluster, indexed).edges, "routes-to", p) <=> K!Leads(K!StatedEdges(o), "routes-to", p)
  BY StatedLeads
<1>2. \A e : e.relation = "routes-to" => (e \in K!StatedEdges(o) <=> e \in K!IngressEdges(o))
  <2> TAKE e
  <2> HAVE e.relation = "routes-to"
  <2>1. e \in K!StatedEdges(o) => e \in K!IngressEdges(o)
    BY StatedIs, OwnersState
  <2>2. e \in K!IngressEdges(o) => e \in K!StatedEdges(o)
    BY DEF K!StatedEdges
  <2> QED
    BY <2>1, <2>2
<1>3. p.kind = "Service"
  BY DEF K!Is
<1> QED
  BY <1>1, <1>2, <1>3, IngressRoutes DEF K!Leads, IsRouted

(* `routed-from` leads to the Ingresses that name the Service.             *)
LEMMA RoutedLeads ==
  ASSUME NEW cluster, K!IsCluster(cluster), NEW indexed \in BOOLEAN, NEW o \in cluster, NEW p \in cluster,
         K!Is(o, "networking", "Ingress"), K!Is(p, K!Core, "Service")
  PROVE  K!Leads(K!Derive(p, cluster, indexed).edges, "routed-from", o) <=> IsRouted(o, p)
<1> DEFINE second == K!TwoSidedService(p, cluster, indexed)
           routers == K!Collection(p, "networking", "Ingress", K!Everything, cluster, indexed)
<1>1. K!Leads(K!Derive(p, cluster, indexed).edges, "routed-from", o) <=> K!Leads(second, "routed-from", o)
  BY ShownLeads, ServiceSide
<1>2. RouterEdges(o) = K!IngressEdges(o)
  <2>1. K!Adapted(o) = {}
    BY DEF K!Is, K!Adapted, K!Compatibility
  <2> QED
    BY <2>1 DEF RouterEdges
<1>3. ASSUME K!Leads(second, "routed-from", o) PROVE IsRouted(o, p)
  <2>1. PICK e \in second : /\ e.relation = "routed-from"
                            /\ e.target.kind = o.kind /\ e.target.name = o.name
                            /\ e.target.namespace = o.namespace
    BY <1>3 DEF K!Leads
  <2>2. e \in K!RoutedFrom(p, routers)
    BY <2>1, ServiceShows
  <2> HIDE DEF second, routers
  <2>3. PICK r \in routers : \E d \in RouterEdges(r) : RoutesTo(d, p) /\ e = RoutedEdge(p, r, d)
    BY <2>2, RoutedIs
  <2>4. r \in cluster /\ K!Is(r, "networking", "Ingress")
    BY <2>3, CollectionIs, WantedIs DEF routers
  <2>5. e.target = K!OfObject(r)
    BY <2>3, EdgeIs DEF RoutedEdge
  <2>6. r = o
    BY <2>1, <2>4, <2>5, OneOfAName DEF K!Is
  <2> QED
    BY <1>2, <2>3, <2>6 DEF RoutesTo, IsRouted
<1>4. ASSUME IsRouted(o, p) PROVE K!Leads(second, "routed-from", o)
  <2>1. PICK d \in K!IngressEdges(o) : RoutesTo(d, p)
    BY <1>4 DEF IsRouted, RoutesTo
  <2>2. o.namespace = p.namespace
    BY <2>1, IngressRoutes DEF RoutesTo
  <2>3. o \in routers
    BY <2>2, AllAreCollected
  <2>4. K!RoutedFrom(p, routers) \subseteq second
    BY DEF K!TwoSidedService
  <2> HIDE DEF second, routers
  <2>5. RoutedEdge(p, o, d) \in second
    BY <1>2, <2>1, <2>3, <2>4, RoutedIs
  <2>6. RoutedEdge(p, o, d).relation = "routed-from" /\ RoutedEdge(p, o, d).target = K!OfObject(o)
    BY EdgeIs DEF RoutedEdge
  <2> QED
    BY <2>5, <2>6, EndLeads
<1> QED
  BY <1>1, <1>3, <1>4

-----------------------------------------------------------------------------
(* The two ends of each pair are two views of one fact, so of a cluster    *)
(* neither claims what the other does not.                                 *)
LEMMA EndsOfClusters ==
  ASSUME NEW cluster, K!IsCluster(cluster), NEW indexed \in BOOLEAN
  PROVE  K!EndsAgree(cluster, indexed)
<1> SUFFICES ASSUME NEW o \in cluster, NEW p \in cluster, NEW pair \in K!Pairs(o, p),
                    K!Claims(K!Derive(o, cluster, indexed), pair[1]),
                    K!Claims(K!Derive(p, cluster, indexed), pair[2])
             PROVE  K!Leads(K!Derive(o, cluster, indexed).edges, pair[1], p)
                      <=> K!Leads(K!Derive(p, cluster, indexed).edges, pair[2], o)
  BY DEF K!EndsAgree
<1>1. ASSUME K!HasChildren(o, p), pair = <<"owns", "owned-by">>
      PROVE  K!Leads(K!Derive(o, cluster, indexed).edges, pair[1], p)
               <=> K!Leads(K!Derive(p, cluster, indexed).edges, pair[2], o)
  <2>1. K!Leads(K!Derive(o, cluster, indexed).edges, "owns", p) <=> AreFamily(o, p, FALSE)
    BY <1>1, OwnerLeads
  <2>2. K!Leads(K!Derive(p, cluster, indexed).edges, "owned-by", o) <=> AreFamily(o, p, FALSE)
    BY <1>1, OwnedLeads
  <2> QED
    BY <1>1, <2>1, <2>2
<1>2. ASSUME K!HasChildren(o, p), pair = <<"controls", "controlled-by">>
      PROVE  K!Leads(K!Derive(o, cluster, indexed).edges, pair[1], p)
               <=> K!Leads(K!Derive(p, cluster, indexed).edges, pair[2], o)
  <2>1. K!Leads(K!Derive(o, cluster, indexed).edges, "controls", p) <=> AreFamily(o, p, TRUE)
    BY <1>2, OwnerLeads
  <2>2. K!Leads(K!Derive(p, cluster, indexed).edges, "controlled-by", o) <=> AreFamily(o, p, TRUE)
    BY <1>2, OwnedLeads
  <2> QED
    BY <1>2, <2>1, <2>2
<1>3. ASSUME K!Is(p, K!Core, "Pod"), K!Is(o, K!Core, "Service"), pair = <<"selects", "selected-by">>
      PROVE  K!Leads(K!Derive(o, cluster, indexed).edges, pair[1], p)
               <=> K!Leads(K!Derive(p, cluster, indexed).edges, pair[2], o)
  BY <1>3, ServiceLeads, SelectedLeads
<1>4. ASSUME K!Is(p, K!Core, "Pod"), K!IsPolicy(o), pair = <<"selects", "protected-by">>
      PROVE  K!Leads(K!Derive(o, cluster, indexed).edges, pair[1], p)
               <=> K!Leads(K!Derive(p, cluster, indexed).edges, pair[2], o)
  <2>1. K!Derive(o, cluster, indexed).evaluated /\ K!Derive(p, cluster, indexed).evaluated
    BY <1>4 DEF K!Claims
  <2> QED
    BY <1>4, <2>1, PolicyLeads, ProtectedLeads
<1>5. ASSUME K!Is(o, "networking", "Ingress"), K!Is(p, K!Core, "Service"), pair = <<"routes-to", "routed-from">>
      PROVE  K!Leads(K!Derive(o, cluster, indexed).edges, pair[1], p)
               <=> K!Leads(K!Derive(p, cluster, indexed).edges, pair[2], o)
  BY <1>5, RouterLeads, RoutedLeads
<1>6. \/ K!HasChildren(o, p) /\ pair \in {<<"owns", "owned-by">>, <<"controls", "controlled-by">>}
      \/ K!Is(p, K!Core, "Pod") /\ K!Is(o, K!Core, "Service") /\ pair = <<"selects", "selected-by">>
      \/ K!Is(p, K!Core, "Pod") /\ K!IsPolicy(o) /\ pair = <<"selects", "protected-by">>
      \/ K!Is(o, "networking", "Ingress") /\ K!Is(p, K!Core, "Service") /\ pair = <<"routes-to", "routed-from">>
  BY DEF K!Pairs
<1> QED
  BY <1>1, <1>2, <1>3, <1>4, <1>5, <1>6

(* §24, Appendix B: a relationship is the same one from both of its ends,  *)
(* in every cluster, whether the second object is looked for in an index   *)
(* or at the API server (relations.rs, relationship.rs): "so that the two  *)
(* directions cannot disagree".                                            *)
THEOREM EndsAlwaysAgree == AskingKin => []EndsAgree
<1> DEFINE Asked == question.about = "kin" => question.cluster \in Clusters /\ question.live \in BOOLEAN
<1>1. question = Nothing => Asked
  BY DEF Nothing
<1>2. Asked /\ [AskKin]_question => Asked'
  BY DEF AskKin
<1>3. Asked => EndsAgree
  BY ClustersAssumption, EndsOfClusters DEF EndsAgree
<1> QED
  BY <1>1, <1>2, <1>3, PTL DEF AskingKin
=============================================================================
