-------------------------------- MODULE Follow -------------------------------
(***************************************************************************)
(* A `k8s-log` invocation (logs.rs of both crates): one container's log,   *)
(* read whole and then answered, or followed and answered line by line     *)
(* while its body is open.  Either way the bytes become lines where there  *)
(* are newlines, pieces where there are none for too long, and what is     *)
(* left of a body that ended without one.                                  *)
(*                                                                         *)
(* A body is of three symbols: a newline, an instant with the space after  *)
(* it, and anything else.                                                  *)
(***************************************************************************)
EXTENDS Connection

CONSTANTS
  Limit,        \* LINE_LIMIT, in symbols
  Asked         \* what may be asked for: follow, previous, timestamps

ASSUME FollowAssumption ==
  /\ Symbols = {"newline", "instant", "text"}
  /\ Limit \in Nat \ {0}
  /\ Asked \subseteq [follow : BOOLEAN, previous : BOOLEAN, timestamps : BOOLEAN]

VARIABLES
  asked,      \* what is asked for
  pc,
  held,       \* LogDecoder: the symbols of a line that has not ended
  lines,      \* the lines decoded and not yet emitted
  emitted,    \* the lines emitted
  gathered,   \* of a read that is not followed: its body so far
  state,      \* FollowState
  outcome     \* of the invocation

local == << held, lines, emitted, gathered, state, outcome >>
vars  == << connection, cancelled, asked, pc, local >>

Place == {"prepare", "open", "read", "emit", "finish", "end", "done"}

TypeOK ==
  /\ ConnectionTypeOK
  /\ asked \in Asked
  /\ pc \in Place
  /\ held \in Seq(Symbols) /\ gathered \in Seq(Symbols)
  /\ state \in {"streaming", "cancelled", "closed", "failed"}
  /\ outcome \in {"none", "completed", "cancelled", "failed", "inconclusive"}

Init ==
  /\ asked \in Asked
  /\ Connected(IF asked.follow THEN "watch" ELSE "request")
  /\ cancelled = FALSE
  /\ pc = "prepare"
  /\ held = << >> /\ lines = << >> /\ emitted = << >> /\ gathered = << >>
  /\ state = "streaming" /\ outcome = "none"

-----------------------------------------------------------------------------
(* LogDecoder.                                                             *)

(* `line` and `split_stamp`.                                               *)
Line(raw, terminated, cut) ==
  LET stamped == asked.timestamps /\ raw # << >> /\ raw[1] = "instant"
  IN  [stamped    |-> stamped,
       bytes      |-> IF stamped THEN Tail(raw) ELSE raw,
       terminated |-> terminated,
       cut        |-> cut]

FirstOf(raw, n) == SubSeq(raw, 1, n)
RestOf(raw, n) == SubSeq(raw, n + 1, Len(raw))

EndOfLine(raw) == SelectInSeq(raw, LAMBDA symbol : symbol = "newline")

(* `decode`: the lines and pieces of what is held, and what remains of it. *)
Decoded[raw \in Seq(Symbols)] ==
  CASE EndOfLine(raw) > 0 ->
         LET end  == EndOfLine(raw)
             rest == Decoded[RestOf(raw, end)]
         IN  [rest EXCEPT !.lines = << Line(FirstOf(raw, end - 1), TRUE, FALSE) >> \o @]
    [] EndOfLine(raw) = 0 /\ Len(raw) > Limit ->
         LET rest == Decoded[RestOf(raw, Limit)]
         IN  [rest EXCEPT !.lines = << Line(FirstOf(raw, Limit), FALSE, TRUE) >> \o @]
    [] OTHER -> [lines |-> << >>, held |-> raw]

(* `LogDecoder::finish`.                                                   *)
Remainder == IF held = << >> THEN << >> ELSE << Line(held, FALSE, FALSE) >>

-----------------------------------------------------------------------------
Ends(how) ==
  /\ pc' = "done"
  /\ outcome' = how

Rests == UNCHANGED << connection, cancelled, asked, held, lines, emitted, gathered, state >>

(* A fault the operator caused: a follow says so, a bounded read does not. *)
Fails == Ends(IF cancelled /\ asked.follow THEN "cancelled" ELSE "failed")

(* `answer` and `prepare`: it is cancelled, the Pod is not there, or its   *)
(* log cannot be asked for.                                                *)
Unprepared ==
  /\ pc = "prepare"
  /\ \/ cancelled /\ Ends("cancelled")
     \/ Ends("completed")
     \/ Fails
  /\ Rests

(* The prior run cannot be followed.                                       *)
Prepare ==
  /\ pc = "prepare"
  /\ IF asked.follow /\ asked.previous
     THEN Fails
     ELSE pc' = "open" /\ UNCHANGED outcome
  /\ Rests

(* The log is asked for: any status but 200 is the end of it.              *)
Open ==
  /\ pc = "open"
  /\ \/ pc' = "read" /\ UNCHANGED outcome
     \/ Fails
  /\ Rests

-----------------------------------------------------------------------------
(* The body is read.                                                       *)

Reading == pc = "read" /\ UNCHANGED << cancelled, asked, pc, local >>

(* The server or the network does something, and may never.                *)
Peer == Reading /\ (Arrive \/ Hangup)

(* A window passes in which they do not.                                   *)
Silence == Reading /\ (Wait \/ GiveUp \/ Yield)

(* At the head of its loop a follow looks for a cancellation.              *)
NoticeCancel ==
  /\ pc = "read" /\ asked.follow /\ cancelled
  /\ buffer = << >> \/ Ready
  /\ state' = "cancelled"
  /\ Ends("cancelled")
  /\ UNCHANGED << connection, cancelled, asked, held, lines, emitted, gathered >>

(* `receive`: a chunk becomes lines.  The body of a read is gathered.      *)
Receive ==
  /\ pc = "read"
  /\ ~ (asked.follow /\ cancelled)
  /\ TakeFrame
  /\ IF asked.follow
     THEN LET decoded == Decoded[held \o FrameText]
          IN  /\ held' = decoded.held
              /\ lines' = decoded.lines
              /\ pc' = IF decoded.lines = << >> THEN "read" ELSE "emit"
              /\ UNCHANGED gathered
     ELSE /\ gathered' = gathered \o FrameText
          /\ UNCHANGED << held, lines, pc >>
  /\ UNCHANGED << cancelled, asked, emitted, state, outcome >>

(* The body is over.  A follow hands over what it ended on; a read is      *)
(* decoded, and answered if there is a line of it.                         *)
BodyEnds ==
  /\ pc = "read"
  /\ ~ (asked.follow /\ cancelled)
  /\ IsLast
  /\ state' = "closed"
  /\ pc' = "finish"
  /\ held' = IF asked.follow THEN held ELSE gathered
  /\ UNCHANGED << connection, cancelled, asked, lines, emitted, gathered, outcome >>

(* The stream failed.  A follow hands over what it had read, unless it was *)
(* cancelled; a read that is not whole answers nothing.                    *)
BodyFails ==
  /\ pc = "read"
  /\ Lost
  /\ state' = IF asked.follow /\ cancelled THEN "cancelled" ELSE "failed"
  /\ IF asked.follow /\ ~ cancelled THEN pc' = "finish" /\ UNCHANGED outcome ELSE Fails
  /\ UNCHANGED << connection, cancelled, asked, held, lines, emitted, gathered >>

(* `finish`: what is held, or the whole of a read, and then the rest.      *)
Finish ==
  /\ pc = "finish"
  /\ LET decoded == Decoded[held]
     IN  IF decoded.lines # << >>
         THEN lines' = decoded.lines /\ held' = decoded.held /\ pc' = "emit"
         ELSE lines' = Remainder /\ held' = << >> /\ pc' = IF Remainder = << >> THEN "end" ELSE "emit"
  /\ UNCHANGED << connection, cancelled, asked, emitted, gathered, state, outcome >>

-----------------------------------------------------------------------------
(* Lines are emitted, each under the host's credit.                        *)

Emit ==
  /\ pc = "emit" /\ ~ cancelled
  /\ emitted' = Append(emitted, Head(lines))
  /\ lines' = Tail(lines)
  /\ pc' = CASE Len(lines) > 1                -> "emit"
             [] Len(lines) = 1 /\ state = "streaming" -> "read"
             [] OTHER                         -> "finish"
  /\ UNCHANGED << connection, cancelled, asked, held, gathered, state, outcome >>

(* The invocation was cancelled, or the host refuses the record.           *)
EmitRefused ==
  /\ pc = "emit"
  /\ Ends(IF cancelled THEN "cancelled" ELSE "failed")
  /\ Rests

(* `ended`: a stream that failed is a failure, and one that carried no     *)
(* line is no evidence of silence.                                         *)
Ended ==
  /\ pc = "end"
  /\ Ends(IF state = "failed" THEN "failed"
          ELSE IF emitted # << >> THEN "completed" ELSE "inconclusive")
  /\ Rests

Cancel ==
  /\ ~ cancelled
  /\ cancelled' = TRUE
  /\ UNCHANGED << connection, asked, pc, local >>

Step ==
  \/ Prepare \/ Unprepared \/ Open
  \/ Silence \/ NoticeCancel \/ Receive \/ BodyEnds \/ BodyFails \/ Finish
  \/ Emit \/ EmitRefused \/ Ended

Next == Step \/ Peer \/ Cancel

Spec == Init /\ [][Next]_vars

(* Every window of a read passes and the host answers every call, and      *)
(* nothing is asked of the server: it may say nothing for ever.            *)
FairSpec == Spec /\ WF_vars(Step)

-----------------------------------------------------------------------------
(* Properties.                                                             *)

(* The symbols a line was made of.                                         *)
Symbolised(line) ==
  (IF line.stamped THEN << "instant" >> ELSE << >>) \o line.bytes
    \o (IF line.terminated THEN << "newline" >> ELSE << >>)

Written(some) == FlattenSeq([n \in DOMAIN some |-> Symbolised(some[n])])

(* What has been read of the body, frame by frame.                         *)
Taken ==
  LET tokens == OnTheWire(body, framing)
      frames == SubSeq(tokens, 1, Len(tokens) - Len(wire) - Len(buffer))
  IN  Text(SelectSeq(frames, LAMBDA token : token[1] = "byte"))

(* §42.1, §12.5: however the body was cut up on its way, and wherever the  *)
(* read was left and taken up again, every symbol that was read has been   *)
(* answered or is about to be, once, in its order and in a line that ended *)
(* where the container ended it; an answer that completed is the whole     *)
(* log, as far as the framing can tell; and an empty one was empty.        *)
LinesAreTheLog ==
  /\ IsPrefix(Written(emitted), Whole)
  /\ asked.follow \/ pc = "end" =>
       Written(emitted) \o Written(lines) \o held = Taken
  /\ framing # "to_end" =>
       /\ outcome = "completed" /\ emitted # << >> => Written(emitted) = Whole
       /\ outcome = "inconclusive" => Whole = << >>
  /\ \A n \in DOMAIN emitted :
       ~ emitted[n].terminated /\ ~ emitted[n].cut => n = Len(emitted)

(* Gate L, §62.12: an invocation that is cancelled ends, wherever in its   *)
(* body it stands and however silent its container is.                     *)
CancelEnds == cancelled ~> pc = "done"
=============================================================================
