---------------------------- MODULE StreamBuffer ----------------------------
(***************************************************************************)
(* agent/buffer/stream_buffer.go: the captured bytes of one direction of a *)
(* connection.  Segments come with a sequence number, in any order and     *)
(* with gaps; adjacent and overlapping ones are fused into one buffer, and *)
(* the timestamp of each segment is kept under its sequence number.        *)
(*                                                                         *)
(* The methods are operators from a stream buffer sb to the next one.  A   *)
(* buffer is [seq, buf]; buf is a sequence of bytes.                       *)
(***************************************************************************)
EXTENDS Integers, Sequences, FiniteSets

CONSTANTS capacity,            \* the capacity given to New
          maxBytesGap,         \* a larger gap starts the buffer afresh
          overflowGap,         \* maxBytesGapIndicateTcpSeqOverflow
          maxTimestampEntries  \* bound on the timestamps kept

ASSUME BufferAssumption ==
  /\ capacity \in Nat \ {0}
  /\ maxBytesGap \in Nat \ {0}
  /\ overflowGap \in Nat \ {0}
  /\ maxTimestampEntries \in Nat \ {0}

Empty == [buffers |-> <<>>, timestamps |-> [s \in {} |-> 0]]

IsEmpty(sb) == sb.buffers = <<>>

LeftBoundary(b)  == b.seq
RightBoundary(b) == b.seq + Len(b.buf)

Head0(sb) == sb.buffers[1]

Position0(sb) == IF IsEmpty(sb) THEN 0 ELSE LeftBoundary(Head0(sb))
PositionN(sb) == IF IsEmpty(sb) THEN 0 ELSE RightBoundary(sb.buffers[Len(sb.buffers)])

updateTimestamp(sb, seq, ts) ==
  [sb EXCEPT !.timestamps = [s \in DOMAIN @ \cup {seq} |-> IF s = seq THEN ts ELSE @[s]]]

WithoutTimestamps(sb, seqs) ==
  [sb EXCEPT !.timestamps = [s \in DOMAIN @ \ seqs |-> @[s]]]

\* Keeps the entry at targetSeq itself.
cleanTimestampMapBySeqNoMoreThan(sb, targetSeq) ==
  WithoutTimestamps(sb, {s \in DOMAIN sb.timestamps : s < targetSeq})

\* Mutant: the newer half goes.
cleanNewTimestamps(sb) ==
  LET keys   == DOMAIN sb.timestamps
      newest == {s \in keys : Cardinality({t \in keys : t > s}) < Cardinality(keys) \div 2}
  IN  IF Cardinality(keys) <= maxTimestampEntries THEN sb ELSE WithoutTimestamps(sb, newest)

\* Above the bound the older half of the entries goes.
cleanOldTimestamps(sb) ==
  LET keys   == DOMAIN sb.timestamps
      oldest == {s \in keys : Cardinality({t \in keys : t < s}) < Cardinality(keys) \div 2}
  IN  IF Cardinality(keys) <= maxTimestampEntries THEN sb ELSE WithoutTimestamps(sb, oldest)

\* The timestamp of the last segment that begins at targetSeq or before, and
\* whether there is one.
FindTimestampBySeq(sb, targetSeq) ==
  LET below == {s \in DOMAIN sb.timestamps : s <= targetSeq}
  IN  IF below = {} THEN <<0, FALSE>>
      ELSE <<sb.timestamps[CHOOSE s \in below : \A t \in below : t <= s], TRUE>>

shrinkHeadBuffer(sb) ==
  cleanTimestampMapBySeqNoMoreThan([sb EXCEPT !.buffers = Tail(@)], Head0(sb).seq)

\* The head loses its first length bytes, or goes, and the rest of length is
\* taken from the next buffer.  The code dereferences nil when length exceeds
\* all the bytes there are; callers are shown not to ask for that.
RemovePrefix(sb, length) ==
  LET Remove[n \in 0..Len(sb.buffers)] ==
        \* the stream buffer and the bytes left to remove after n buffers
        IF n = 0 THEN <<sb, length>>
        ELSE LET s    == Remove[n - 1][1]
                 left == Remove[n - 1][2]
             IN  IF left = 0 THEN <<s, 0>>
                 ELSE IF Len(Head0(s).buf) > left
                 THEN <<[s EXCEPT !.buffers[1] =
                           [seq |-> @.seq + left, buf |-> SubSeq(@.buf, left + 1, Len(@.buf))]], 0>>
                 ELSE <<shrinkHeadBuffer(s), left - Len(Head0(s).buf)>>
  IN  Remove[Len(sb.buffers)][1]

RemoveHead(sb) == RemovePrefix(sb, Len(Head0(sb).buf))

\* Whole buffers go from the front until the rest spans at most capacity.
shrinkBufferUntilSizeBelowCapacity(sb) ==
  LET bs   == sb.buffers
      keep == {k \in 0..Len(bs) : k = Len(bs) \/
                 RightBoundary(bs[Len(bs)]) - LeftBoundary(bs[k + 1]) <= capacity}
      k    == CHOOSE i \in keep : \A j \in keep : i <= j
  IN  IF k = 0 THEN sb
      ELSE cleanTimestampMapBySeqNoMoreThan(
             [sb EXCEPT !.buffers = SubSeq(@, k + 1, Len(@))], bs[k].seq)

-----------------------------------------------------------------------------
CanFuseAsLeft(b, seq, len) ==
  RightBoundary(b) >= seq /\ LeftBoundary(b) <= seq /\ seq + len >= RightBoundary(b)

CanFuseAsRight(b, seq, len) ==
  LeftBoundary(b) <= seq + len /\ RightBoundary(b) >= seq + len /\ LeftBoundary(b) >= seq

\* Only called when CanFuseAsLeft holds, which excludes the panic.
FuseAsLeft(b, seq, data) ==
  [b EXCEPT !.buf = @ \o SubSeq(data, RightBoundary(b) - seq + 1, Len(data))]

\* Only called when CanFuseAsRight holds, which excludes the panic.
FuseAsRight(b, seq, data) ==
  [seq |-> seq, buf |-> SubSeq(data, 1, Len(data) - (seq + Len(data) - LeftBoundary(b))) \o b.buf]

\* Mutant: the right neighbour is not fused when the left one was.
PlacedWithoutJoining(buffers, seq, data) ==
  LET leftIndex == Cardinality({i \in DOMAIN buffers : LeftBoundary(buffers[i]) <= seq})
      hasLeft   == leftIndex > 0
      canLeft   == hasLeft /\ CanFuseAsLeft(buffers[leftIndex], seq, Len(data))
  IN  IF canLeft THEN [buffers EXCEPT ![leftIndex] = FuseAsLeft(@, seq, data)]
      ELSE SubSeq(buffers, 1, leftIndex) \o <<[seq |-> seq, buf |-> data]>>
             \o SubSeq(buffers, leftIndex + 1, Len(buffers))

\* Where the segment goes: fused with the last buffer that begins at seq or
\* before, with the first one that begins after seq, with both, or as a buffer
\* of its own between them.  In particular a segment that lies wholly inside the
\* left buffer is not fused and becomes a buffer that repeats bytes.
Placed(buffers, seq, data) ==
  LET leftIndex == Cardinality({i \in DOMAIN buffers : LeftBoundary(buffers[i]) <= seq})
      n         == Len(buffers)
      canLeft   == leftIndex > 0 /\ CanFuseAsLeft(buffers[leftIndex], seq, Len(data))
      canRight  == leftIndex < n /\ CanFuseAsRight(buffers[leftIndex + 1], seq, Len(data))
      fused     == FuseAsLeft(buffers[leftIndex], seq, data)
  IN  IF canLeft /\ canRight
      THEN SubSeq(buffers, 1, leftIndex - 1)
             \o <<FuseAsRight(buffers[leftIndex + 1], fused.seq, fused.buf)>>
             \o SubSeq(buffers, leftIndex + 2, n)
      ELSE IF canLeft THEN [buffers EXCEPT ![leftIndex] = fused]
      ELSE IF canRight THEN [buffers EXCEPT ![leftIndex + 1] = FuseAsRight(@, seq, data)]
      ELSE SubSeq(buffers, 1, leftIndex) \o <<[seq |-> seq, buf |-> data]>>
             \o SubSeq(buffers, leftIndex + 1, n)

\* Clear, then the segment alone.
StartAfresh(seq, data, ts) ==
  updateTimestamp([Empty EXCEPT !.buffers = <<[seq |-> seq, buf |-> data]>>], seq, ts)

\* Add answers false, and does nothing, for a sequence number it has seen.
IsDuplicate(sb, seq) == seq \in DOMAIN sb.timestamps

Add(sb, seq, data, ts) ==
  IF IsDuplicate(sb, seq) THEN sb
  ELSE IF IsEmpty(sb)
  THEN updateTimestamp([sb EXCEPT !.buffers = <<[seq |-> seq, buf |-> data]>>], seq, ts)
  ELSE IF PositionN(sb) - seq >= overflowGap THEN StartAfresh(seq, data, ts)
  ELSE IF Position0(sb) - seq >= maxBytesGap THEN sb
  ELSE IF seq - PositionN(sb) >= maxBytesGap THEN StartAfresh(seq, data, ts)
  ELSE cleanOldTimestamps(shrinkBufferUntilSizeBelowCapacity(
         updateTimestamp([sb EXCEPT !.buffers = Placed(@, seq, data)], seq, ts)))
=============================================================================
