-------------------------------- MODULE Wire --------------------------------
(***************************************************************************)
(* What comes off a connection: the frames of a watch body put together    *)
(* again from reads that end anywhere (watch.rs `WatchDecoder`), and what  *)
(* an answer that is not the one asked for means (transport.rs).           *)
(*                                                                         *)
(* A byte of a body is a newline, or a numbered part of one frame; a       *)
(* frame is JSON only when it is whole.                                    *)
(***************************************************************************)
EXTENDS Integers, Sequences, SequencesExt, FiniteSets

CONSTANT Limit       \* how much of an unfinished frame is held (FRAME_LIMIT)

Newline == [of |-> {}, part |-> 0]

-----------------------------------------------------------------------------
(* A `Status`, as far as anything is decided by it.                        *)

(* §19.4: the code inside an ERROR frame is the one that matters.          *)
FailureOf(status) ==
  IF status.code = 410 \/ status.reason = "Expired" THEN "expired"
  ELSE IF status.code \in {401, 403} THEN "denied"
  ELSE "interrupted"

(* One frame: the event it states, or why it states none.                  *)
FrameOf(f) ==
  CASE f.class \in {"ADDED", "MODIFIED", "DELETED"} ->
         IF f.object THEN [fault |-> "none", event |-> << f.class, f.version >>]
         ELSE [fault |-> "not-an-object", event |-> << >>]
    [] f.class = "BOOKMARK" ->
         IF f.version = 0 THEN [fault |-> "uncheckpointed", event |-> << >>]
         ELSE [fault |-> "none",
               event |-> << IF f.ends_initial THEN "INITIAL-EVENTS-END" ELSE "BOOKMARK",
                            f.version >>]
    [] f.class = "ERROR" -> [fault |-> "none", event |-> << "ERROR", FailureOf(f.status) >>]
    [] OTHER -> [fault |-> "unknown-class", event |-> << >>]

Bytes(f) == [i \in 1..f.size |-> [of |-> {f}, part |-> i]]

Parse(line) ==
  LET frame == CHOOSE f \in line[1].of : TRUE IN
  IF line = Bytes(frame) THEN FrameOf(frame) ELSE [fault |-> "malformed", event |-> << >>]

IsBlank(line) == line = << >>

(* The lines that have ended, and what has not.                            *)
Ends(buffer) == SetToSortSeq({i \in 1..Len(buffer) : buffer[i] = Newline}, <)

LinesOf(buffer) ==
  LET ends == Ends(buffer) IN
  SelectSeq([n \in 1..Len(ends) |->
               SubSeq(buffer, IF n = 1 THEN 1 ELSE ends[n - 1] + 1, ends[n] - 1)],
            LAMBDA line : ~ IsBlank(line))

(* What has not ended.                                                      *)
ResidueOfTheChunk(buffer, chunk) ==
  LET ends == Ends(chunk) IN
  IF ends = << >> THEN chunk ELSE SubSeq(chunk, ends[Len(ends)] + 1, Len(chunk))

Residue(buffer, chunk) ==
  LET all == buffer \o chunk
      ends == Ends(all)
  IN  IF ends = << >> THEN all ELSE SubSeq(all, ends[Len(ends)] + 1, Len(all))

(* What a chunk makes whole.  A fault gives up what else the chunk held:   *)
(* the stream is suspended, and resumed from what it has observed.         *)
Decoded(read, rest) ==
  LET faulty == {n \in DOMAIN read : read[n].fault # "none"}
      first  == CHOOSE n \in faulty : \A m \in faulty : n <= m
  IN  IF faulty # {} THEN [fault |-> read[first].fault, events |-> << >>, buffer |-> << >>]
      ELSE IF Len(rest) > Limit
      THEN [fault |-> "oversized", events |-> << >>, buffer |-> << >>]
      ELSE [fault |-> "none", buffer |-> rest, events |-> [n \in DOMAIN read |-> read[n].event]]

ParseAll(lines) == [n \in 1..Len(lines) |-> Parse(lines[n])]

Decode(buffer, chunk) ==
  Decoded(ParseAll(LinesOf(buffer \o chunk)), Residue(buffer, chunk))

(* The end of the body: a last frame may lack its newline.                 *)
Finish(buffer) ==
  IF IsBlank(buffer) THEN [fault |-> "none", events |-> << >>]
  ELSE LET read == Parse(buffer) IN
       IF read.fault = "none" THEN [fault |-> "none", events |-> << read.event >>]
       ELSE [fault  |-> IF read.fault = "malformed" THEN "truncated" ELSE read.fault,
             events |-> << >>]

(* A whole body, read in those chunks: a fault is one interruption, and    *)
(* nothing after it is read (changes.rs `Live`).                           *)
Onward(events, decoded) == [decoded EXCEPT !.events = events \o @]

ReadChunk(r, chunk) ==
  IF r.fault # "none" THEN r ELSE Onward(r.events, Decode(r.buffer, chunk))

ReadEnd(r) ==
  IF r.fault # "none" THEN r ELSE Onward(r.events, Finish(r.buffer))

ReadBody(chunks) ==
  ReadEnd(FoldLeft(ReadChunk, [fault |-> "none", events |-> << >>, buffer |-> << >>], chunks))

-----------------------------------------------------------------------------
(* The answer to a request.  An error is "stream", "quiet", "protocol",    *)
(* "malformed", or the code and the Status of a response.                  *)

NoStatus == [code |-> 0, reason |-> "none", details |-> "none", retry_after |-> 0]

(* A body that is not a Status leaves the status of the response.          *)
StatusFrom(response) ==
  IF response.body = {} THEN [NoStatus EXCEPT !.code = response.code]
  ELSE CHOOSE s \in response.body : TRUE

Classify(response) ==
  CASE response.code \in 200..299 -> [is |-> "answered"]
    [] response.code = 403 -> [is |-> "denied", code |-> 403, status |-> StatusFrom(response)]
    [] response.code = 404 -> [is |-> "not-found", code |-> 404, status |-> StatusFrom(response)]
    [] response.code = 410 -> [is |-> "expired", code |-> 410, status |-> StatusFrom(response)]
    [] response.code = 429 ->
         [is |-> "rate-limited", code |-> 429, status |-> StatusFrom(response)]
    [] OTHER -> [is |-> "failed", code |-> response.code, status |-> StatusFrom(response)]

Absence(operation) == IF operation = "get" THEN "not-found" ELSE "api-not-served"

(* A set of one kind, or of none for a reason there is no rule for.        *)
FromReason(reason, operation) ==
  CASE reason = "Unauthorized" -> {"unauthenticated"}
    [] reason = "Forbidden" -> {"authorization-denied"}
    [] reason = "NotFound" -> {Absence(operation)}
    [] reason \in {"AlreadyExists", "Conflict"} -> {"conflict"}
    [] reason \in {"Gone", "Expired", "ResourceExpired"} -> {"watch-expired"}
    [] reason \in {"Invalid", "BadRequest", "RequestEntityTooLarge"} -> {"invalid"}
    [] reason = "ServerTimeout" -> {"server-timeout"}
    [] reason \in {"Timeout", "StoreReadError"} -> {"timeout"}
    [] reason = "TooManyRequests" -> {"rate-limited"}
    [] reason \in {"ServiceUnavailable", "InternalError"} -> {"service-unavailable"}
    [] reason = "MethodNotAllowed" -> {"api-not-served"}
    [] reason \in {"NotAcceptable", "UnsupportedMediaType"} -> {"schema-error"}
    [] OTHER -> {}

FromCode(code, operation) ==
  CASE code \in {400, 413, 422} -> "invalid"
    [] code = 401 -> "unauthenticated"
    [] code = 403 -> "authorization-denied"
    [] code = 404 -> Absence(operation)
    [] code = 405 -> "api-not-served"
    [] code \in {406, 415} -> "schema-error"
    [] code = 409 -> "conflict"
    [] code = 410 -> "watch-expired"
    [] code = 429 -> "rate-limited"
    [] code = 504 -> "timeout"
    [] code \in 400..499 \ {400, 401, 403, 404, 405, 406, 409, 410, 413, 415, 422, 429} -> "invalid"
    [] code >= 500 /\ code # 504 -> "service-unavailable"
    [] OTHER -> "transport-error"

(* An error that never reached a Kubernetes answer is the transport's; the *)
(* server's reason is believed before its code.                            *)
NeverAnswered == {"stream", "quiet", "protocol", "malformed"}

KindOf(error, operation) ==
  IF error.is \in NeverAnswered THEN "transport-error"
  ELSE LET stated == FromReason(error.status.reason, operation) IN
       IF stated # {} THEN CHOOSE k \in stated : TRUE ELSE FromCode(error.code, operation)

Retryability(kind) ==
  CASE kind \in {"rate-limited", "server-timeout", "service-unavailable"} -> "yes"
    [] kind \in {"timeout", "transport-error", "partial-result"} -> "unknown"
    [] OTHER -> "no"

(* §21.4: what an error lets a coverage report say.                        *)
OutcomeOf(error, operation) ==
  CASE error.is = "stream" -> "disconnected"
    [] error.is = "quiet" -> "not-queried"
    [] error.is \in {"protocol", "malformed"} -> "request-failed"
    [] error.is = "denied" -> IF operation = "get" THEN "read-denied" ELSE "list-denied"
    [] error.is = "not-found" ->
         IF error.status.details = "namespaces" THEN "namespace-absent"
         ELSE IF operation = "get" THEN "absent" ELSE "type-not-served"
    [] OTHER -> "request-failed"

IsAnyAbsence(outcome) == outcome \in {"absent", "namespace-absent", "type-not-served"}

IsEvidenceOfAbsence(outcome) == outcome = "absent"

(* One object read by name (query.rs `fetched`): it is there, it is not,   *)
(* or the question was not answered.                                       *)
Fetched(error) ==
  IF IsEvidenceOfAbsence(OutcomeOf(error, "get")) THEN "absent" ELSE "failed"

IsUnauthenticated(error, operation) == KindOf(error, operation) = "unauthenticated"
=============================================================================
