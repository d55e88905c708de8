----------------------------- MODULE StreamParse -----------------------------
(***************************************************************************)
(* The request direction of a Connection4 (agent/conn/conntrack.go): each  *)
(* data event is added to the stream buffer and parseStreamBuffer runs     *)
(* until it stops; it also runs for the events of the other direction.     *)
(* The parser is the HTTP request parser (agent/protocol/http.go).         *)
(*                                                                         *)
(* A byte is its position in the stream.  The kernel reports a segment     *)
(* with the 32-bit sequence number of its first byte (here SeqMod numbers) *)
(* and the time of its system call.  Events may be lost, and one may be    *)
(* held back while later ones overtake it.                                 *)
(***************************************************************************)
EXTENDS StreamBuffer

CONSTANTS Messages,     \* the requests in the stream: <<[first, header, last], ...>>
          Cuts,         \* positions in headers after which nothing is malformed: the end
                        \* of a line, or a place in it past the colon
          FirstPos,     \* position of the first byte captured
          SegLens,      \* lengths of segments
          SeqMod,       \* sequence numbers wrap here
          MaxLost,      \* bound: events lost
          MaxHeld,      \* bound: events held back
          MaxSendTime,  \* bound: no segment is sent after this time
          MaxStuck      \* MaxAllowStuckTimeMills

ASSUME ParseAssumption ==
  /\ \A k \in DOMAIN Messages : /\ Messages[k].first <= Messages[k].header
                              /\ Messages[k].header <= Messages[k].last
  /\ \A len \in SegLens : len \in 1..capacity

VARIABLES sb,         \* reqStreamBuffer
          reqQueue,   \* ReqQueue: the messages parsed, oldest first
          progress,   \* whether lastReqMadeProgressTime is set
          pc,         \* "receive", or "parse" inside the loop of parseStreamBuffer
          keLen,      \* in the loop: Len of the event being handled
          originPos,  \* in the loop: Position0 when it began
          now,        \* the clock
          nextPos,    \* position of the next byte to be sent
          held,       \* the event held back, or NoSegment
          heldCount,  \* how many events were held back
          arrived,    \* positions of the bytes that reached the stream buffer
          carrier,    \* position -> the segment that carried it
          lost        \* how many events were lost

vars == <<sb, reqQueue, progress, pc, keLen, originPos, now, nextPos, held, heldCount,
          arrived, carrier, lost>>

StreamEnd == Messages[Len(Messages)].last
MaxTime   == MaxSendTime + MaxStuck + 1

NoSegment == [pos |-> 0, len |-> 0, ts |-> 0]

SentAt(p) == carrier[p].ts

MessageBytes(m) == m.first..m.last

Init ==
  /\ sb = Empty
  /\ reqQueue = <<>>
  /\ progress = FALSE
  /\ pc = "receive"
  /\ keLen = 0
  /\ originPos = 0
  /\ now = 1
  /\ nextPos = FirstPos
  /\ held = NoSegment
  /\ heldCount = 0
  /\ arrived = {}
  /\ carrier = [p \in {} |-> NoSegment]
  /\ lost = 0

-----------------------------------------------------------------------------
(* The parser, on the bytes of the head buffer.                            *)

HeadBytes(s) == Head0(s).buf

\* Whether the bytes from..to of the stream are in buf, from index i on.
Holds(buf, i, from, to) ==
  /\ i + (to - from) <= Len(buf)
  /\ \A k \in 0..(to - from) : buf[i + k] = from + k

\* Where a request with a complete header begins in the head, at startPos
\* (0-based) or after; -1 when there is none.
FindBoundary(s, startPos) ==
  LET starts == {i \in startPos..(Len(HeadBytes(s)) - 1) :
                   \E k \in DOMAIN Messages :
                     Holds(HeadBytes(s), i + 1, Messages[k].first, Messages[k].header)}
  IN  IF starts = {} THEN -1 ELSE CHOOSE i \in starts : \A j \in starts : i <= j

\* A request that begins the head and is there to its end.
Complete(s) ==
  {k \in DOMAIN Messages : Holds(HeadBytes(s), 1, Messages[k].first, Messages[k].last)}

\* http.ReadRequest reports the end of input only for a request that is well formed
\* as far as it goes.  A line that is cut is read like a whole one, so that a request
\* line, or a header line before its colon, is malformed when it is cut, and so is all
\* that does not begin a request.
EndsEarly(s) ==
  LET buf == HeadBytes(s)
  IN  \E k \in DOMAIN Messages :
        /\ buf[1] = Messages[k].first
        /\ \/ Holds(buf, 1, Messages[k].first, Messages[k].header)
           \/ buf[Len(buf)] \in Cuts

ParseStream(s) ==
  IF ~FindTimestampBySeq(s, LeftBoundary(Head0(s)))[2] THEN "Invalid"
  ELSE IF Complete(s) # {} THEN "Success"
  ELSE IF EndsEarly(s) THEN "NeedsMoreData" ELSE "Invalid"

ParsedRequest(s) ==
  LET m == Messages[CHOOSE k \in Complete(s) : TRUE]
  IN  [first |-> m.first, last |-> m.last,
       ts |-> FindTimestampBySeq(s, LeftBoundary(Head0(s)))[1]]

-----------------------------------------------------------------------------
\* parseStreamBuffer up to its loop: what precedes the first boundary goes.
BeginParse(s, len) ==
  LET startPos == IF IsEmpty(s) THEN 0 ELSE FindBoundary(s, 0)
      trimmed  == IF startPos > 0 THEN RemovePrefix(s, startPos) ELSE s
  IN  /\ sb' = trimmed
      /\ keLen' = IF IsEmpty(s) THEN 0 ELSE len
      /\ originPos' = Position0(trimmed)
      /\ pc' = IF IsEmpty(s) THEN "receive" ELSE "parse"

\* addDataToBufferAndTryParse for a segment of this direction.  A segment whose
\* sequence number is known is dropped, and nothing is parsed.
Receive(segment) ==
  LET seq  == segment.pos % SeqMod
      data == [i \in 1..segment.len |-> segment.pos + i - 1]
  IN  /\ pc = "receive"
      /\ arrived' = arrived \cup {data[i] : i \in DOMAIN data}
      /\ IF IsDuplicate(sb, seq) THEN UNCHANGED <<sb, keLen, originPos, pc>>
         ELSE BeginParse(Add(sb, seq, data, segment.ts), segment.len)
      /\ UNCHANGED <<reqQueue, progress, now>>

NextSegment(len) == [pos |-> nextPos, len |-> len, ts |-> now]

\* The program writes the next len bytes.
Send(len) ==
  /\ now <= MaxSendTime
  /\ nextPos + len - 1 <= StreamEnd
  /\ nextPos' = nextPos + len
  /\ carrier' = [p \in DOMAIN carrier \cup (nextPos..(nextPos + len - 1)) |->
                   IF p < nextPos THEN carrier[p] ELSE NextSegment(len)]

Capture(len) ==
  /\ Send(len)
  /\ Receive(NextSegment(len))
  /\ UNCHANGED <<held, heldCount, lost>>

\* A full perf buffer loses the event.
Lose(len) ==
  /\ pc = "receive"
  /\ lost < MaxLost
  /\ Send(len)
  /\ lost' = lost + 1
  /\ UNCHANGED <<sb, reqQueue, progress, pc, keLen, originPos, now, held, heldCount, arrived>>

\* The event waits in another CPU's perf buffer.
Hold(len) ==
  /\ pc = "receive"
  /\ heldCount < MaxHeld /\ held = NoSegment
  /\ Send(len)
  /\ held' = NextSegment(len)
  /\ heldCount' = heldCount + 1
  /\ UNCHANGED <<sb, reqQueue, progress, pc, keLen, originPos, now, arrived, lost>>

ReleaseHeld ==
  /\ held # NoSegment
  /\ Receive(held)
  /\ held' = NoSegment
  /\ UNCHANGED <<heldCount, nextPos, carrier, lost>>

\* An event of the other direction: this direction's buffer is parsed as well.
OtherDirection(len) ==
  /\ pc = "receive"
  /\ BeginParse(sb, len)
  /\ UNCHANGED <<reqQueue, progress, now, nextPos, held, heldCount, arrived, carrier, lost>>

Tick ==
  /\ now < MaxTime
  /\ now' = now + 1
  /\ UNCHANGED <<sb, reqQueue, progress, pc, keLen, originPos, nextPos, held, heldCount,
                 arrived, carrier, lost>>

-----------------------------------------------------------------------------
(* The loop of parseStreamBuffer: one action per case.                     *)

\* No timestamp for the head, or one older than MaxAllowStuckTimeMills.
Stuck(s) ==
  LET headTime == FindTimestampBySeq(s, Position0(s))
  IN  ~headTime[2] \/ now - headTime[1] > MaxStuck

\* The next iteration, or the end of the loop; the clock of progress is set when
\* the buffer's position moved or it is empty.
Iterate(s, stop, asked) ==
  LET ends == stop \/ IsEmpty(s)
  IN  /\ sb' = s
      /\ pc' = IF ends THEN "receive" ELSE "parse"
      /\ progress' = (progress \/ asked \/ (ends /\ (IsEmpty(s) \/ Position0(s) # originPos)))
      /\ keLen' = IF ends THEN 0 ELSE keLen
      /\ originPos' = IF ends THEN 0 ELSE originPos
      /\ UNCHANGED <<now, nextPos, held, heldCount, arrived, carrier, lost>>

\* Mutant: the bytes of the request stay in the buffer.
ParseSuccessKeepingBytes ==
  /\ pc = "parse" /\ ParseStream(sb) = "Success"
  /\ reqQueue' = Append(reqQueue, ParsedRequest(sb))
  /\ Iterate(sb, TRUE, FALSE)

\* Mutant: the loop ends with the first request.
ParseSuccessOnce ==
  /\ pc = "parse" /\ ParseStream(sb) = "Success"
  /\ reqQueue' = Append(reqQueue, ParsedRequest(sb))
  /\ Iterate(RemovePrefix(sb, ParsedRequest(sb).last - ParsedRequest(sb).first + 1), TRUE, FALSE)

ParseSuccess ==
  /\ pc = "parse" /\ ParseStream(sb) = "Success"
  /\ reqQueue' = Append(reqQueue, ParsedRequest(sb))
  /\ Iterate(RemovePrefix(sb, ParsedRequest(sb).last - ParsedRequest(sb).first + 1), FALSE, FALSE)

\* Mutant: a stuck head as long as the event loses 0 bytes.
ParseInvalidAtLength ==
  /\ pc = "parse" /\ ParseStream(sb) = "Invalid"
  /\ LET pos == FindBoundary(sb, 1)
     IN  IF pos # -1 THEN Iterate(RemovePrefix(sb, pos), FALSE, FALSE)
         ELSE IF ~progress THEN Iterate(sb, TRUE, TRUE)
         ELSE IF ~Stuck(sb) THEN Iterate(sb, TRUE, FALSE)
         ELSE IF Len(HeadBytes(sb)) >= keLen
         THEN Iterate(RemovePrefix(sb, Len(HeadBytes(sb)) - keLen), FALSE, FALSE)
         ELSE Iterate(RemoveHead(sb), FALSE, FALSE)
  /\ UNCHANGED reqQueue

\* checkProgress and progressIsStucked only note the time when none was noted.
ParseInvalid ==
  /\ pc = "parse" /\ ParseStream(sb) = "Invalid"
  /\ LET pos == FindBoundary(sb, 1)
     IN  IF pos # -1 THEN Iterate(RemovePrefix(sb, pos), FALSE, FALSE)
         ELSE IF ~progress THEN Iterate(sb, TRUE, TRUE)
         ELSE IF ~Stuck(sb) THEN Iterate(sb, TRUE, FALSE)
         ELSE IF Len(HeadBytes(sb)) > keLen
         THEN Iterate(RemovePrefix(sb, Len(HeadBytes(sb)) - keLen), FALSE, FALSE)
         ELSE Iterate(RemoveHead(sb), FALSE, FALSE)
  /\ UNCHANGED reqQueue

\* Mutant: a head that waits for a lost segment is never given up.
ParseNeedsMoreDataForever ==
  /\ pc = "parse" /\ ParseStream(sb) = "NeedsMoreData"
  /\ Iterate(sb, TRUE, TRUE)
  /\ UNCHANGED reqQueue

ParseNeedsMoreData ==
  /\ pc = "parse" /\ ParseStream(sb) = "NeedsMoreData"
  /\ IF ~progress THEN Iterate(sb, TRUE, TRUE)
     ELSE IF Stuck(sb) THEN Iterate(RemoveHead(sb), FALSE, FALSE)
     ELSE Iterate(sb, TRUE, FALSE)
  /\ UNCHANGED reqQueue

ParseStep == ParseSuccess \/ ParseInvalid \/ ParseNeedsMoreData

Next ==
  \/ \E len \in SegLens : Capture(len) \/ Lose(len) \/ Hold(len) \/ OtherDirection(len)
  \/ ReleaseHeld
  \/ Tick
  \/ ParseStep

Spec == Init /\ [][Next]_vars

\* The Processor goroutine runs the loop to its end, time passes, and both
\* directions of the connection go on reporting events.
Fairness ==
  /\ WF_vars(ParseStep)
  /\ WF_vars(Tick)
  /\ SF_vars(ReleaseHeld)
  /\ WF_vars(\E len \in SegLens : OtherDirection(len))

FairSpec == Spec /\ Fairness

-----------------------------------------------------------------------------
Positions == 0..StreamEnd

TypeOK ==
  /\ sb.buffers \in Seq([seq : 0..(SeqMod - 1 + StreamEnd), buf : Seq(Positions)])
  /\ DOMAIN sb.timestamps \subseteq 0..(SeqMod - 1)
  /\ \A s \in DOMAIN sb.timestamps : sb.timestamps[s] \in 1..MaxTime
  /\ reqQueue \in Seq([first : Positions, last : Positions, ts : 1..MaxTime])
  /\ progress \in BOOLEAN
  /\ pc \in {"receive", "parse"}
  /\ now \in 1..MaxTime

\* The variables keep their types and Add keeps the buffers within the capacity.
\* Whatever the order segments arrive in and whatever is missing, the buffers
\* are in stream order, no two of them touch or overlap, and each holds the
\* consecutive bytes that its sequence number says: a request that arrived
\* whole, in pieces, is in one buffer.
BuffersWellFormed ==
  LET bs == sb.buffers
  IN  /\ TypeOK
      /\ PositionN(sb) - Position0(sb) <= capacity
      /\ \A i \in DOMAIN bs : /\ bs[i].buf # <<>>
                              /\ bs[i].seq % SeqMod = bs[i].buf[1] % SeqMod
                              /\ Holds(bs[i].buf, 1, bs[i].buf[1], bs[i].buf[Len(bs[i].buf)])
      /\ \A i \in 1..(Len(bs) - 1) : RightBoundary(bs[i]) < LeftBoundary(bs[i + 1])

Segments == {carrier[p] : p \in DOMAIN carrier}

\* Every byte in the buffer is dated by the system call that carried it, after
\* segments were fused, partly consumed or removed: the times of requests, on
\* which matching and all durations rest, are those of their first bytes.  Once
\* there were more segments than maxTimestampEntries, trimming the map can leave
\* a byte without a time, which makes its request unparsable, but never with the
\* time of another segment.
BytesKeepTheirTime ==
  \A i \in DOMAIN sb.buffers : \A j \in DOMAIN sb.buffers[i].buf :
    LET found == FindTimestampBySeq(sb, sb.buffers[i].seq + j - 1)
    IN  IF found[2] THEN found[1] = SentAt(sb.buffers[i].buf[j])
        ELSE Cardinality(Segments) > maxTimestampEntries

\* No request is parsed twice, however its bytes arrived.  Requests come out with
\* the time of their first byte and, when no event was
\* overtaken, in the order they were sent: a lost segment, numbers that wrap and
\* a trimmed map can swallow requests but never reorder or misdate them.
ParsedInOrder ==
  /\ \A i, j \in DOMAIN reqQueue : reqQueue[i].first = reqQueue[j].first => i = j
  /\ heldCount = 0 =>
       \A i, j \in DOMAIN reqQueue : i < j => reqQueue[i].last < reqQueue[j].first
  /\ \A i \in DOMAIN reqQueue : reqQueue[i].ts = SentAt(reqQueue[i].first)

\* The bytes of m arrived, and were sent within the time the parser waits.
Prompt(m) ==
  /\ MessageBytes(m) \subseteq arrived
  /\ \A p, q \in MessageBytes(m) : SentAt(q) - SentAt(p) <= MaxStuck

Parsed(m) == \E i \in DOMAIN reqQueue : reqQueue[i].first = m.first

\* The buffer has room for the stream and the map for its times.
Roomy ==
  /\ StreamEnd - FirstPos < capacity
  /\ Cardinality(Segments) <= maxTimestampEntries

\* Nothing precedes m in the buffer: the request before it was parsed, or the capture
\* began with m.
Follows(m) ==
  \/ m.first = FirstPos
  \/ \E i \in DOMAIN reqQueue : reqQueue[i].last + 1 = m.first

\* When nothing was lost or held back, the loop leaves no complete request behind:
\* each that follows another parsed one is parsed by the event that completes it,
\* in whatever pieces it came, and though events of the other direction made the
\* parser try in between.
NothingLeftBehind ==
  (pc = "receive" /\ lost = 0 /\ heldCount = 0 /\ Roomy) =>
    \A k \in DOMAIN Messages :
      Prompt(Messages[k]) /\ Follows(Messages[k]) => Parsed(Messages[k])

\* parseStreamBuffer ends for every content of the buffer.
ParsingEnds == (pc = "parse") ~> (pc = "receive")

HeaderInOneSegment(m) == carrier[m.first] = carrier[m.header]

\* After a loss the parser finds its way again: a request whose header came in
\* one segment and whose other bytes came in time is parsed in the end, though
\* the head may have to be given up first.  (Of a stale head in which there is no
\* complete header parseStreamBuffer keeps at most as many bytes as the last event
\* has, so that part of a header that is split may go with the bytes before it.)
Resynchronises ==
  \A k \in DOMAIN Messages :
    (Prompt(Messages[k]) /\ HeaderInOneSegment(Messages[k])) ~> Parsed(Messages[k])
=============================================================================
