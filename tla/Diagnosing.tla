------------------------------ MODULE Diagnosing ------------------------------
(***************************************************************************)
(* The cluster diagnostic: what one provider instance asks its API server  *)
(* about itself, and what it says it does not know (diagnostics.rs,        *)
(* cluster.rs).                                                            *)
(*                                                                         *)
(* A world is the cluster, and how it answers: the code of each path, the  *)
(* bodies that cannot be read, what it serves, and after how many requests *)
(* the connection is lost.  A digest is what it is the digest of.          *)
(***************************************************************************)
EXTENDS Naturals, Sequences, SequencesExt, FiniteSets

-----------------------------------------------------------------------------
(* What is known, and the fingerprint of a cluster.                        *)

Obtained(v)          == [known |-> "obtained", value |-> {v}, outcome |-> {}]
Unavailable(outcome) == [known |-> "unavailable", value |-> {}, outcome |-> {outcome}]
(* A mutated form of the next: what was shown is taken for what was sent.  *)
UnverifiedIsObtained(v) == Obtained(v)
Unverified(v)        == [known |-> "unverified", value |-> {}, outcome |-> {}]
NotQueried           == Unavailable("not-queried")
IsObtained(k)        == k.known = "obtained"

Signals == {"origin", "server-public-key", "kube-system-uid"}
IsDecisive(signal) == signal \in {"server-public-key", "kube-system-uid"}

UnknownFingerprint == [s \in Signals |-> NotQueried]
ObtainedSignals(f) == {s \in Signals : IsObtained(f[s])}

Compare(f, g) ==
  LET common    == ObtainedSignals(f) \cap ObtainedSignals(g)
      agreed    == {s \in common : f[s].value = g[s].value}
      disagreed == common \ agreed
  IN [agreed |-> agreed, disagreed |-> disagreed,
      verdict |-> IF \E s \in disagreed : IsDecisive(s) THEN "distinct"
                  ELSE IF agreed # {} THEN "possible" ELSE "undetermined"]

DefaultPort(scheme) == IF scheme = "https" THEN 443 ELSE 80
NormalisedOrigin(scheme, host, port) ==
  [scheme |-> scheme, host |-> host.name,
   port |-> IF port = DefaultPort(scheme) THEN {} ELSE {port}]

-----------------------------------------------------------------------------
(* The key of a certificate: its elements are skipped by their lengths.    *)

Sequence == 48     \* the tag of a SEQUENCE
Explicit == 160    \* the tag of the version of a certificate
Nothing == {}

(* The total of an element and where its contents begin.                   *)
SplitElement(der) ==
  IF Len(der) < 2 THEN Nothing
  ELSE IF der[2] < 128
  THEN IF 2 + der[2] > Len(der) THEN Nothing ELSE {[header |-> 2, total |-> 2 + der[2]]}
  ELSE LET count == der[2] - 128
           body  == FoldLeft(LAMBDA length, byte : length * 256 + byte, 0, SubSeq(der, 3, 2 + count))
       IN IF count = 0 \/ count > 4 \/ 2 + count > Len(der) \/ 2 + count + body > Len(der)
          THEN Nothing ELSE {[header |-> 2 + count, total |-> 2 + count + body]}

SequenceBody(der) ==
  IF der = << >> \/ der[1] # Sequence THEN Nothing
  ELSE {SubSeq(der, e.header + 1, e.total) : e \in SplitElement(der)}

FirstOf(der) == {SubSeq(der, 1, e.total) : e \in SplitElement(der)}
After(der)   == {SubSeq(der, e.total + 1, Len(der)) : e \in SplitElement(der)}
Skip(n, ders) ==
  FoldLeft(LAMBDA rest, i : UNION {After(d) : d \in rest}, ders, [i \in 1..n |-> i])

Skipped(first) == IF first[1] = Explicit THEN 6 ELSE 5

SubjectPublicKeyInfo(der) ==
  UNION {UNION {UNION {FirstOf(key) : key \in Skip(Skipped(tbs), {tbs})} :
                  tbs \in UNION {SequenceBody(e) : e \in FirstOf(certificate)}} :
           certificate \in SequenceBody(der)}

-----------------------------------------------------------------------------
(* One request.                                                            *)

Refusal(code) ==
  CASE code \in {401, 403} -> "read-denied" [] code = 404 -> "type-not-served" [] OTHER -> "request-failed"

Answer(world, probes, path) ==
  IF Len(probes) >= world.lasts THEN [is |-> "unreachable", code |-> 0, readable |-> FALSE]
  ELSE IF world.answers[path] = 200
  THEN [is |-> "body", code |-> 200, readable |-> path \notin world.garbled]
  ELSE [is |-> "refused", code |-> world.answers[path], readable |-> FALSE]

Ask(world, probes, path) ==
  LET answer == Answer(world, probes, path) IN
  Append(probes, [source |-> path, answered |-> answer.is # "unreachable", code |-> answer.code])

IsReachable(probes) == \E i \in DOMAIN probes : probes[i].answered

(* What is obtained of one request, or why it is not.                      *)
Read(answer, value, refused) ==
  CASE answer.is = "unreachable" -> Unavailable("disconnected")
    [] answer.is = "refused"     -> Unavailable(refused)
    [] answer.readable           -> Obtained(value)
    [] OTHER                     -> Unavailable("request-failed")

-----------------------------------------------------------------------------
(* The questions, each with the probes it adds.                            *)

FingerprintOf(endpoint, peer) ==
  [UnknownFingerprint EXCEPT
     !["origin"] = Obtained(NormalisedOrigin(endpoint.scheme, endpoint.host, endpoint.port)),
     !["server-public-key"] =
       CASE peer = {} -> NotQueried
         [] \E c \in peer : SubjectPublicKeyInfo(c.der) = Nothing -> Unavailable("unavailable")
         [] OTHER -> LET c == CHOOSE c \in peer : TRUE
                         key == CHOOSE k \in SubjectPublicKeyInfo(c.der) : TRUE
                     IN IF c.verified THEN Obtained(key) ELSE Unverified(key)]

(* The two root documents are asked for before either is parsed.           *)
Discover(world, probes) ==
  LET paths == << "/api", "/apis", "/api/v1" >>
      asked[n \in 0..3] == IF n = 0 THEN probes ELSE Ask(world, asked[n - 1], paths[n])
      answer(n) == Answer(world, asked[n - 1], paths[n])
      unread(n) == answer(n).is # "body"
      garbled(n) == ~ answer(n).readable
      stopped  == {n \in 1..3 : unread(n)}
                  \cup {IF n = 3 THEN 3 ELSE 2 : n \in {n \in 1..3 : garbled(n)}}
                  \cup {2 : x \in {"core"} \ world.serves}
      last     == IF stopped = {} THEN 3 ELSE CHOOSE n \in stopped : \A m \in stopped : n <= m
  IN [served |-> stopped = {}, probes |-> asked[last]]

KubeSystemUid(world, probes, served) ==
  LET path == "kube-system" answer == Answer(world, probes, path) IN
  IF ~ served THEN [known |-> Unavailable("disconnected"), probes |-> probes]
  ELSE IF "namespaces" \notin world.serves
  THEN [known |-> Unavailable("type-not-served"), probes |-> probes]
  ELSE [known  |-> Read(answer, world.uid, IF answer.code = 404 THEN "namespace-absent"
                                           ELSE Refusal(answer.code)),
        probes |-> Ask(world, probes, path)]

EffectiveIdentity(world, probes, served) ==
  LET listed == Ask(world, probes, "authentication")
      answer == Answer(world, listed, "review")
  IN CASE ~ served -> [known |-> Unavailable("disconnected"), probes |-> probes]
       [] served /\ "authentication" \notin world.serves ->
            [known |-> Unavailable("type-not-served"), probes |-> probes]
       [] OTHER ->
            IF ~ Answer(world, probes, "authentication").readable
            THEN [known |-> Unavailable("request-failed"), probes |-> listed]
            ELSE IF "review" \notin world.serves
            THEN [known |-> Unavailable("type-not-served"), probes |-> listed]
            ELSE [known  |-> Read(answer, world.user, Refusal(answer.code)),
                  probes |-> Ask(world, listed, "review")]

-----------------------------------------------------------------------------
(* Capabilities.                                                           *)

Capabilities == {"watch", "relationships", "mutations", "remote-logs", "subject-access-review",
                 "remote-exec", "attach", "port-forward", "kubeconfig-merge"}
NotByProvider == {"remote-exec", "attach", "port-forward"}

NotDetermined(outcome) == "not determined: " \o outcome
Statement(capability, availability) ==
  CASE capability = "kubeconfig-merge" -> "deviates"
    [] capability \in NotByProvider    -> "unavailable in any session"
    [] OTHER                           -> availability
Undetermined(outcome) == [c \in Capabilities |-> Statement(c, NotDetermined(outcome))]

LocalGrant(check) ==
  CASE check = "granted" -> "held" [] check \in {"denied", "ask"} -> "withheld" [] OTHER -> "undetermined"
FromGrant(grant) ==
  CASE grant = "held"     -> "granted by local policy"
    [] grant = "withheld" -> "blocked by local policy"
    [] OTHER              -> NotDetermined("not-queried")

Offered(world, what) == IF what \in world.serves THEN "available" ELSE "not served by cluster"

AccessReview(world, probes) ==
  LET answer == Answer(world, probes, "authorization") IN
  CASE "authorization" \notin world.serves -> "not served by cluster"
    [] answer.is = "body" /\ answer.readable -> Offered(world, "access-review")
    [] answer.is = "refused" /\ answer.code \in {401, 403} -> "denied for current user"
    [] answer.is = "refused" /\ answer.code = 404 -> "not served by cluster"
    [] answer.is = "unreachable" -> NotDetermined("disconnected")
    [] OTHER -> NotDetermined("request-failed")

CapabilitiesOf(world, probes, served, relations) ==
  [c \in Capabilities |-> Statement(c,
     CASE c = "relationships" -> FromGrant(relations)
       [] ~ served /\ c \in {"watch", "mutations", "remote-logs", "subject-access-review"} ->
            NotDetermined("request-failed")
       [] c = "watch"       -> Offered(world, "watch")
       [] c = "mutations"   -> Offered(world, "patch")
       [] c = "remote-logs" -> Offered(world, "log")
       [] c = "subject-access-review" -> AccessReview(world, probes)
       [] OTHER -> NotDetermined("not-queried"))]
CapabilityProbes(world, probes, served) ==
  IF served /\ "authorization" \in world.serves THEN Ask(world, probes, "authorization") ELSE probes

-----------------------------------------------------------------------------
(* The whole answer.                                                       *)

Posture(endpoint) ==
  IF endpoint.scheme = "http" THEN "none"
  ELSE IF endpoint.verifies THEN "verified" ELSE "insecure"

Unreachable(endpoint, source, relations) ==
  LET lost == Unavailable("disconnected") IN
  [tls |-> Posture(endpoint),
   fingerprint |-> [FingerprintOf(endpoint, {}) EXCEPT !["kube-system-uid"] = lost],
   version |-> lost, credential |-> lost, effective |-> lost,
   probes |-> << [source |-> source, answered |-> FALSE, code |-> 0] >>,
   capabilities |-> [Undetermined("disconnected") EXCEPT !["relationships"] = FromGrant(relations)],
   served |-> FALSE]

Interrogate(endpoint, world, relations, peer) ==
  LET version == Read(Answer(world, << >>, "/version"), "v1.31", Refusal(world.answers["/version"]))
      found == Discover(world, Ask(world, << >>, "/version"))
      uid   == KubeSystemUid(world, found.probes, found.served)
      who   == EffectiveIdentity(world, uid.probes, found.served)
  IN [tls |-> Posture(endpoint),
      fingerprint |-> [FingerprintOf(endpoint, peer) EXCEPT !["kube-system-uid"] = uid.known],
      version |-> version, credential |-> who.known, effective |-> who.known,
      probes |-> CapabilityProbes(world, who.probes, found.served),
      capabilities |-> CapabilitiesOf(world, who.probes, found.served, relations),
      served |-> found.served]

(* The certificate a session over TLS settled on, if there is one.         *)
Peer(endpoint, world) ==
  IF endpoint.scheme = "http" THEN {}
  ELSE {[der |-> IF endpoint.verifies THEN world.certificate ELSE world.shown,
         verified |-> endpoint.verifies]}

(* A connection the host did not grant is an error and no diagnostic.      *)
Observe(endpoint, world, check) ==
  LET relations == LocalGrant(check) IN
  CASE world.connects = "not granted" -> {}
    [] world.connects = "no" -> {Unreachable(endpoint, "connect", relations)}
    [] world.connects = "no handshake" /\ endpoint.scheme = "https" ->
         {Unreachable(endpoint, "handshake", relations)}
    [] OTHER -> {Interrogate(endpoint, world, relations, Peer(endpoint, world))}

Unknowns(d) ==
  UNION {{<< s, o >> : o \in d.fingerprint[s].outcome} : s \in Signals}
  \cup {<< s, "unverified" >> : s \in {s \in Signals : d.fingerprint[s].known = "unverified"}}
  \cup {<< "version", o >> : o \in d.version.outcome}
  \cup {<< "credential", o >> : o \in d.credential.outcome}
  \cup {<< "effective", o >> : o \in d.effective.outcome}
  \cup {<< d.probes[i].source, "disconnected" >> : i \in {i \in DOMAIN d.probes : ~ d.probes[i].answered}}
=============================================================================
