--------------------------- MODULE KernEventStream ---------------------------
(***************************************************************************)
(* agent/conn/kern_event_handler.go: the kernel events of one connection,  *)
(* one ring per step ordered by sequence number, and the TLS events of     *)
(* each direction in a slice.  The Processor goroutine adds events; the    *)
(* RecordsProcessor goroutine looks events up by byte range and marks the  *)
(* sequence number below which they are no longer needed, and the next add *)
(* discards them.  A ring is the bounded queue of maxLen elements that     *)
(* RingBuffer implements, and its BinarySearch answers a rank.             *)
(***************************************************************************)
EXTENDS Integers, Sequences, FiniteSets

CONSTANTS EgressSteps,   \* steps up to NIC_OUT whose events are recorded
          IngressSteps,  \* steps from NIC_IN on whose events are recorded
          NicSteps,      \* DEV_OUT and DEV_IN: events that carry an interface
          SslInputs,     \* direction -> the TLS events a connection reports
          Seqs,          \* sequence numbers of events, all positive
          Lens,          \* lengths of events; 0 is a FIN or a pure ACK
          Times,         \* timestamps, all positive
          Ifaces,        \* network interfaces
          maxLen         \* capacity of each ring and slice

Steps == EgressSteps \cup IngressSteps

Directions == {"egress", "ingress"}

\* kernSeq and kernLen are those of the syscall that carried the TLS record, 0
\* when it was served from data read before.
SslEvent == [seq : Seqs, len : Lens, kernSeq : Seqs \cup {0}, kernLen : Lens]

KnowsSyscall(event) == event.kernSeq # 0 \/ event.kernLen # 0

ASSUME StreamAssumption ==
  /\ EgressSteps \cap IngressSteps = {}
  /\ NicSteps \subseteq Steps
  /\ {"SSL_OUT", "SSL_IN"} \cap Steps = {}
  /\ Seqs \subseteq Nat \ {0}
  /\ Lens \subseteq Nat
  /\ Times \subseteq Nat \ {0}
  /\ maxLen \in Nat \ {0}

ASSUME SslInputsAssumption == SslInputs \in [Directions -> SUBSET SslEvent]

\* The bytes that the TLS events of a direction name for themselves do not overlap.  They
\* may: a probe takes the length of its own system calls from a counter that every call of
\* the connection advances.
Disjoint(dir) ==
  \A e, f \in SslInputs[dir] :
    e.seq < f.seq /\ KnowsSyscall(e) /\ KnowsSyscall(f) => e.kernSeq + e.kernLen <= f.kernSeq

VARIABLES kernEvents,     \* step -> events in increasing seq
          sslEvents,      \* direction -> TLS events in increasing seq
          discardSeq,     \* direction -> egressDiscardSeq, ingressDiscardSeq
          sslDiscardSeq   \* direction -> egressSslDiscardSeq, ingressSslDiscardSeq

streamVars == <<kernEvents, sslEvents, discardSeq, sslDiscardSeq>>

DirectionOf(step) == IF step \in EgressSteps THEN "egress" ELSE "ingress"

\* attributes: interface -> its time- attribute, 0 when there is none.  The
\* event's own time takes no part in keeping, finding or discarding it.
KernEvent == [seq : Seqs, len : Lens \ {0}, attributes : [Ifaces -> Times \cup {0}]]

Init ==
  /\ kernEvents = [step \in Steps |-> <<>>]
  /\ sslEvents = [dir \in Directions |-> <<>>]
  /\ discardSeq = [dir \in Directions |-> 0]
  /\ sslDiscardSeq = [dir \in Directions |-> 0]

-----------------------------------------------------------------------------
\* What a binary search for seq answers on events ordered by seq.
Rank(events, seq) ==
  CHOOSE r \in 0..Len(events) : \A i \in DOMAIN events : events[i].seq < seq <=> i <= r

Found(events, seq) == \E i \in DOMAIN events : events[i].seq = seq

\* Mutant: one element too many goes.
DiscardInclusive(events, index) ==
  IF index < Len(events) THEN SubSeq(events, index + 2, Len(events)) ELSE events

\* RingBuffer.DiscardBeforeIndex: an index that is not of an element is an
\* error, which the caller ignores, and nothing is discarded.
DiscardBeforeIndex(events, index) ==
  IF index < Len(events) THEN SubSeq(events, index + 1, Len(events)) ELSE events

\* Mutant: the event goes behind the one it should precede.
InsertAfter(events, index, event) ==
  [i \in 1..(Len(events) + 1) |->
     IF i <= index + 1 /\ i <= Len(events) THEN events[i]
     ELSE IF i = index + 2 \/ i = Len(events) + 1 THEN event ELSE events[i - 1]]

\* events with event put in front of the element at index (0-based).
InsertAt(events, index, event) ==
  [i \in 1..(Len(events) + 1) |->
     IF i <= index THEN events[i] ELSE IF i = index + 1 THEN event ELSE events[i - 1]]

discardEventsBySeq(events, seq) ==
  IF Rank(events, seq) > 0 THEN DiscardBeforeIndex(events, Rank(events, seq)) ELSE events

\* Both directions, under the lock that AddKernEvent holds.
discardEventsIfNeeded ==
  [step \in Steps |->
     IF discardSeq[DirectionOf(step)] # 0
     THEN discardEventsBySeq(kernEvents[step], discardSeq[DirectionOf(step)])
     ELSE kernEvents[step]]

NewKernEvent(seq, len) ==
  [seq |-> seq, len |-> len, attributes |-> [i \in Ifaces |-> 0]]

\* UpdateIfTimestampAttr: the attributes are a map that all copies of the event
\* share; an earlier time replaces a later one.
UpdateIfTimestampAttr(event, iface, ts) ==
  IF event.attributes[iface] # 0 /\ event.attributes[iface] < ts THEN event
  ELSE [event EXCEPT !.attributes[iface] = ts]

\* Only segments with data are recorded.
HasData(len) == len > 0

\* A duplicate of a plain event changes nothing, not even when it is earlier:
\* the code then updates a copy that it drops.  A full ring refuses the event.
AddKernEvent(step, seq, len, ts, iface) ==
  LET discarded == discardEventsIfNeeded
      events    == discarded[step]
      index     == Rank(events, seq)
      stored    == IF step \in NicSteps
                   THEN UpdateIfTimestampAttr(NewKernEvent(seq, len), iface, ts)
                   ELSE NewKernEvent(seq, len)
      added     == IF ~HasData(len) THEN events
                   ELSE IF Found(events, seq)
                   THEN IF step \in NicSteps
                        THEN [events EXCEPT ![index + 1] = UpdateIfTimestampAttr(@, iface, ts)]
                        ELSE events
                   ELSE IF Len(events) = maxLen THEN events
                   ELSE InsertAt(events, index, stored)
  IN  /\ kernEvents' = [discarded EXCEPT ![step] = added]
      /\ UNCHANGED <<sslEvents, discardSeq, sslDiscardSeq>>

\* The slice is cut by re-slicing, so here everything before the mark goes.
discardSslEventsBySeq(events, seq) ==
  SubSeq(events, Rank(events, seq) + 1, Len(events))

\* The trimming loop drops the oldest events, the one just added included.
Newest(events) ==
  IF Len(events) > maxLen THEN SubSeq(events, Len(events) - maxLen + 1, Len(events))
  ELSE events

AddSslEvent(dir, event) ==
  LET events == IF sslDiscardSeq[dir] # 0
                THEN discardSslEventsBySeq(sslEvents[dir], sslDiscardSeq[dir])
                ELSE sslEvents[dir]
      added  == IF Found(events, event.seq) THEN events
                ELSE Newest(InsertAt(events, Rank(events, event.seq), event))
  IN  /\ sslEvents' = [sslEvents EXCEPT ![dir] = added]
      /\ UNCHANGED <<kernEvents, discardSeq, sslDiscardSeq>>

MaxOf(a, b) == IF a > b THEN a ELSE b

-----------------------------------------------------------------------------
\* The three tests of the lookup loop, for the bytes from start up to end.
Hit(event, start, end) ==
  \/ event.seq <= start /\ event.seq + event.len > start
  \/ event.seq < end /\ event.seq + event.len >= end
  \/ event.seq >= start /\ event.seq + event.len <= end

\* The loop stops at the first event that is no hit and begins after end.
Stops(event, start, end) == ~Hit(event, start, end) /\ event.seq > end

\* Mutant: the loop stops at the first event that begins at start or later.
FindEventsStoppingEarly(events, start, end) ==
  {events[i] : i \in {i \in DOMAIN events :
                        /\ Hit(events[i], start, end)
                        /\ \A j \in 1..(i - 1) : events[j].seq < start}}

FindEvents(events, start, end) ==
  {events[i] : i \in {i \in DOMAIN events :
                        /\ Hit(events[i], start, end)
                        /\ \A j \in 1..(i - 1) : ~Stops(events[j], start, end)}}

FindEventsBySeqAndLen(step, seq, len) == FindEvents(kernEvents[step], seq, seq + len)

\* The positions of the TLS events that begin in the range.
FindSslEventsBySeqAndLen(dir, seq, len) ==
  {i \in DOMAIN sslEvents[dir] : sslEvents[dir][i].seq >= seq /\ sslEvents[dir][i].seq < seq + len}

-----------------------------------------------------------------------------
Increasing(events) == \A i, j \in DOMAIN events : i < j => events[i].seq < events[j].seq

Overlaps(event, r) == event.seq < r.seq + r.len /\ event.seq + event.len > r.seq
=============================================================================
