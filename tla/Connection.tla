------------------------------- MODULE Connection ------------------------------
(***************************************************************************)
(* One response body, from the host's broker (broker.rs) up through the    *)
(* HTTP framing over it (transport.rs).  The server's bytes arrive in      *)
(* whatever pieces the network makes of them, and between them there are   *)
(* windows in which nothing does: the broker notices a cancellation there, *)
(* a watch hands control back there, and a request counts them.            *)
(*                                                                         *)
(* A body is a sequence of symbols.  Chunked, it travels as chunks, each   *)
(* announced by its size and ended by a CRLF, one token each, and the last *)
(* of size 0; or it is announced by its length in the head, or by nothing  *)
(* and ends with the connection.                                           *)
(***************************************************************************)
EXTENDS Naturals, SequencesExt

CONSTANTS
  Symbols,
  Bodies,      \* the chunk sequences a server may answer with
  Framings,    \* out of "chunked", "length" and "to_end"
  MaxPull,     \* the most tokens that arrive in one window
  IdleWindows  \* ReadPolicy::request: the silent windows a request survives

ASSUME ConnectionAssumption ==
  /\ Bodies \subseteq Seq(Seq(Symbols) \ {<< >>})
  /\ Framings \subseteq {"chunked", "length", "to_end"}
  /\ MaxPull \in Nat \ {0} /\ IdleWindows \in Nat \ {0}

VARIABLES
  body,       \* the chunks the server answers with
  framing,    \* and how it frames them
  wire,       \* the tokens that have not arrived
  buffer,     \* HttpConnection: the tokens that have, and are in no frame yet
  policy,     \* ReadPolicy: "request" or "watch"
  idle,       \* the silent windows of the read under way
  peer,       \* BrokeredStream: "open", "closed", or "failed"
  finished,   \* ResponseStream: whether nothing more is to be read
  cancelled   \* whether the operator has stopped the invocation

served     == << body, framing >>
connection == << served, wire, buffer, policy, idle, peer, finished >>

Whole == FlattenSeq(body)

-----------------------------------------------------------------------------
(* Framing.                                                                *)

Size(n) == << "size", n >>
Crlf    == << "crlf", 0 >>
Byte(s) == << "byte", s >>

Bytes(symbols) == [n \in DOMAIN symbols |-> Byte(symbols[n])]
Text(tokens)   == [n \in DOMAIN tokens |-> tokens[n][2]]

Chunk(symbols) == << Size(Len(symbols)) >> \o Bytes(symbols) \o << Crlf >>

OnTheWire(chunks, how) ==
  IF how = "chunked"
  THEN FlattenSeq([n \in DOMAIN chunks |-> Chunk(chunks[n])]) \o << Size(0), Crlf >>
  ELSE Bytes(FlattenSeq(chunks))

ConnectionTypeOK ==
  /\ body \in Bodies /\ framing \in Framings
  /\ IsSuffix(wire, OnTheWire(body, framing))
  /\ policy \in {"request", "watch"} /\ idle \in 0..IdleWindows
  /\ peer \in {"open", "closed", "failed"} /\ finished \in BOOLEAN
  /\ cancelled \in BOOLEAN

Connected(how) ==
  /\ body \in Bodies
  /\ framing \in Framings
  /\ wire = OnTheWire(body, framing)
  /\ buffer = << >>
  /\ policy = how
  /\ idle = 0
  /\ peer = "open"
  /\ finished = FALSE

(* `next_chunk_bytes`, `take` and `take_to_end`: the tokens the next frame *)
(* takes off the buffer, or 0 while it is not whole.                       *)
FrameLength ==
  CASE framing = "chunked" /\ buffer # << >> ->
         LET whole == buffer[1][2] + 2
         IN  IF Len(buffer) >= whole THEN whole ELSE 0
    [] framing = "length" /\ Len(buffer) >= Len(Whole) -> Len(buffer)
    [] framing = "to_end" /\ peer = "closed" -> Len(buffer)
    [] OTHER -> 0

Frame == SubSeq(buffer, 1, FrameLength)

FrameText == Text(SelectSeq(Frame, LAMBDA token : token[1] = "byte"))

(* A body is over at its chunk of size 0, after its only frame, or with    *)
(* the connection.                                                         *)
IsLast ==
  \/ finished
  \/ CASE framing = "chunked" -> Frame # << >> /\ FrameText = << >>
       [] framing = "length"  -> Whole = << >>
       [] OTHER               -> peer = "closed" /\ buffer = << >>

Ready == FrameLength > 0 \/ IsLast

TakeFrame ==
  /\ ~ IsLast /\ FrameLength > 0
  /\ buffer' = SubSeq(buffer, FrameLength + 1, Len(buffer))
  /\ finished' = (framing = "length")
  /\ UNCHANGED << served, wire, policy, idle, peer >>

(* A mutated form of the next: a window is handed back wherever it falls,  *)
(* and what had begun of a frame goes with it.                             *)
BoundaryAnywhere == policy = "watch"

(* A quiet window is handed back between two chunks, and nowhere else.     *)
Boundary == policy = "watch" /\ framing = "chunked" /\ buffer = << >>

-----------------------------------------------------------------------------
(* Reading (`pull`, `read`, `fill` and `fill_waiting`).                    *)

Needs == ~ Ready /\ peer = "open"

(* Bytes arrive, possibly the last ones before the peer closes.            *)
Arrive ==
  /\ Needs
  /\ \E n \in 1..MaxPull :
       /\ n <= Len(wire)
       /\ buffer' = buffer \o SubSeq(wire, 1, n)
       /\ wire' = SubSeq(wire, n + 1, Len(wire))
  /\ peer' \in {"open", "closed"}
  /\ idle' = 0
  /\ UNCHANGED << served, policy, finished >>

(* The peer closes, at its end or before it; or the connection fails, and  *)
(* what arrived with the failure is not read.                              *)
Hangup ==
  /\ Needs
  /\ peer' \in {"closed", "failed"}
  /\ UNCHANGED << served, wire, buffer, policy, idle, finished >>

(* A mutated form of the next: a read does not look for a cancellation.    *)
Unnoticed == FALSE

Noticed == cancelled

(* A window passes, and the read waits on: a watch within a frame, and a   *)
(* request until it has waited long enough.                                *)
Wait ==
  /\ Needs
  /\ ~ Noticed
  /\ ~ Boundary
  /\ policy = "request" => idle + 1 < IdleWindows
  /\ idle' = IF policy = "request" THEN idle + 1 ELSE 0
  /\ UNCHANGED << served, wire, buffer, policy, peer, finished >>

(* It is given up: cancelled, or silent for too long.                      *)
GiveUp ==
  /\ Needs
  /\ Noticed \/ (policy = "request" /\ idle + 1 >= IdleWindows)
  /\ peer' = "failed"
  /\ UNCHANGED << served, wire, buffer, policy, idle, finished >>

(* The window is handed back, and the next read goes on from there.        *)
Yield ==
  /\ Needs
  /\ ~ Noticed
  /\ Boundary
  /\ buffer' = << >>
  /\ UNCHANGED << served, wire, policy, idle, peer, finished >>

(* The stream has failed, or has closed within a frame.                    *)
Lost == ~ Ready /\ peer # "open"
=============================================================================
