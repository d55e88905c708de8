-------------------------- MODULE RecordAnnotation --------------------------
(***************************************************************************)
(* agent/analysis/stat.go, ReceiveRecord and prepareEvents, together with  *)
(* the KernEventStream they read.  The RecordsProcessor goroutine looks a  *)
(* record's kernel events up step by step, each lookup under its own read  *)
(* lock, and then marks the record's bytes for discarding; the connection's *)
(* Processor goroutine keeps adding events in between.                     *)
(*                                                                         *)
(* Records come in stream order: each one's bytes lie after those of the   *)
(* record before it in both directions, as for every protocol that matches *)
(* requests and responses first in, first out.                             *)
(***************************************************************************)
EXTENDS KernEventStream

CONSTANTS Setups,      \* the connections looked at: [ssl, steps, seqs]
          Messages,    \* the messages records are made of: [seq, len]
          MaxRecords   \* bound: records submitted in a behaviour

ASSUME SetupAssumption ==
  /\ Setups \subseteq [ssl : BOOLEAN, steps : SUBSET Steps, seqs : SUBSET Seqs]
  /\ Messages \subseteq [seq : Seqs, len : Lens \ {0}]

VARIABLES setup,     \* ssl: whether the connection carries TLS, from its start or
                     \* never; steps: those recorded under the tracing options;
                     \* seqs: bound on the sequence numbers its events have
          pc,        \* "idle", or "lookup" while a record is being annotated
          todo,      \* the lookups still to make, as positions in LookupOrder
          message,   \* direction -> the record's message: its seq and byte size
          range,     \* direction -> the message's bytes in kernel sequence numbers
          found,     \* step -> the events looked up
          owed,      \* step -> the events that began in the record's bytes when
                     \*         its range became known
          consumed,  \* direction -> where the next message may begin
          records    \* how many records were submitted

recordVars == <<setup, pc, todo, message, range, found, owed, consumed, records>>
vars == <<kernEvents, sslEvents, discardSeq, sslDiscardSeq, setup, pc, todo, message,
          range, found, owed, consumed, records>>

\* prepareEvents makes its lookups in this order.  DEV_* and NIC_IN are looked
\* up when traceDevEvent is on, USER_COPY and TCP_IN when traceSocketEvent is:
\* a step that is not in setup.steps stands for an option that is off.
LookupOrder ==
  <<"SSL_OUT", "SSL_IN", "SYSCALL_OUT", "SYSCALL_IN", "DEV_OUT",
    "NIC_IN", "DEV_IN", "USER_COPY", "TCP_IN">>

\* The positions in LookupOrder of the lookups that a record of the connection needs.
Lookups ==
  {i \in DOMAIN LookupOrder :
     \/ LookupOrder[i] \in setup.steps
     \/ setup.ssl /\ LookupOrder[i] \in {"SSL_OUT", "SSL_IN"}}

IsNext(step) == \E i \in todo : LookupOrder[i] = step /\ \A j \in todo : i <= j

After(step) == {i \in todo : LookupOrder[i] # step}

NoRange == [seq |-> 0, len |-> 0]

NoEvents == [step \in Steps |-> {}]

EventsOf(step) == {kernEvents[step][i] : i \in DOMAIN kernEvents[step]}

\* The recorded events that begin in the bytes r of a record.  Bytes that TLS events of
\* two records name belong to the earlier record, which has marked them.
Owed(r) ==
  [step \in Steps |->
     {e \in EventsOf(step) :
        LET dir == DirectionOf(step)
        IN  /\ e.seq >= r[dir].seq
            /\ e.seq < r[dir].seq + r[dir].len
            /\ setup.ssl /\ ~Disjoint(dir) => e.seq >= discardSeq[dir]}]

RecordInit ==
  /\ Init
  /\ setup \in Setups
  /\ pc = "idle"
  /\ todo = {}
  /\ message = [dir \in Directions |-> NoRange]
  /\ range = [dir \in Directions |-> NoRange]
  /\ found = NoEvents
  /\ owed = NoEvents
  /\ consumed = [dir \in Directions |-> 1]
  /\ records = 0

\* Mutant: the bytes are marked before the events are looked up.
BeginRecordMarking(out, in) ==
  LET m == [dir \in Directions |-> IF dir = "egress" THEN out ELSE in]
  IN  /\ pc = "idle"
      /\ records < MaxRecords
      /\ out.seq >= consumed["egress"] /\ in.seq >= consumed["ingress"]
      /\ pc' = "lookup"
      /\ todo' = Lookups
      /\ message' = m
      /\ range' = m
      /\ owed' = Owed(m)
      /\ discardSeq' = [dir \in Directions |-> MaxOf(discardSeq[dir], m[dir].seq + m[dir].len)]
      /\ consumed' = [dir \in Directions |-> m[dir].seq + m[dir].len]
      /\ records' = records + 1
      /\ UNCHANGED <<kernEvents, sslEvents, sslDiscardSeq, setup, found>>

\* Without TLS the kernel's sequence numbers are the message's own.
BeginRecord(out, in) ==
  LET m == [dir \in Directions |-> IF dir = "egress" THEN out ELSE in]
  IN  /\ pc = "idle"
      /\ records < MaxRecords
      /\ out.seq >= consumed["egress"] /\ in.seq >= consumed["ingress"]
      /\ pc' = "lookup"
      /\ todo' = Lookups
      /\ message' = m
      /\ range' = IF setup.ssl THEN [dir \in Directions |-> NoRange] ELSE m
      /\ owed' = IF setup.ssl THEN NoEvents ELSE Owed(m)
      /\ consumed' = [dir \in Directions |-> m[dir].seq + m[dir].len]
      /\ records' = records + 1
      /\ UNCHANGED <<streamVars, setup, found>>

\* getKernSeqAndLen: from the first to the last TLS event that knows its syscall.
getKernSeqAndLen(events, positions) ==
  LET known == {i \in positions : KnowsSyscall(events[i])}
      first == events[CHOOSE i \in known : \A j \in known : i <= j]
      last  == events[CHOOSE i \in known : \A j \in known : i >= j]
  IN  IF known = {} THEN NoRange
      ELSE [seq |-> first.kernSeq, len |-> last.kernLen + last.kernSeq - first.kernSeq]

LookupSsl(step, dir) ==
  LET positions == FindSslEventsBySeqAndLen(dir, message[dir].seq, message[dir].len)
      r == [range EXCEPT ![dir] = getKernSeqAndLen(sslEvents[dir], positions)]
  IN  /\ pc = "lookup" /\ IsNext(step)
      /\ range' = r
      /\ owed' = IF dir = "ingress" THEN Owed(r) ELSE owed
      /\ todo' = After(step)
      /\ UNCHANGED <<streamVars, setup, pc, message, found, consumed, records>>

\* DEV_IN is only looked up when nothing was found at NIC_IN.
LookupKern(step) ==
  LET r == range[DirectionOf(step)]
  IN  /\ pc = "lookup" /\ IsNext(step)
      /\ found' = [found EXCEPT ![step] =
                     IF step = "DEV_IN" /\ "NIC_IN" \in setup.steps /\ found["NIC_IN"] # {} THEN {}
                     ELSE FindEventsBySeqAndLen(step, r.seq, r.len)]
      /\ todo' = After(step)
      /\ UNCHANGED <<streamVars, setup, pc, message, range, owed, consumed, records>>

MarkNeedDiscardSeq(dir, seq) == MaxOf(discardSeq[dir], seq)
MarkNeedDiscardSslSeq(dir, seq) == MaxOf(sslDiscardSeq[dir], seq)

\* The bytes of the record are marked.  (Its durations and sizes, which are computed from
\* what was found and change no state, are left out.)  The marks are plain writes without
\* a lock; an add that sees only some of them discards the rest one add later.
FinishRecord ==
  /\ pc = "lookup" /\ todo = {}
  /\ discardSeq' = [dir \in Directions |->
       MarkNeedDiscardSeq(dir, range[dir].seq + range[dir].len)]
  /\ sslDiscardSeq' = IF setup.ssl
       THEN [dir \in Directions |->
               MarkNeedDiscardSslSeq(dir, message[dir].seq + message[dir].len)]
       ELSE sslDiscardSeq
  /\ pc' = "idle"
  /\ message' = [dir \in Directions |-> NoRange]
  /\ range' = [dir \in Directions |-> NoRange]
  /\ found' = NoEvents
  /\ owed' = NoEvents
  /\ UNCHANGED <<kernEvents, sslEvents, setup, todo, consumed, records>>

Next ==
  \/ \E step \in setup.steps, seq \in setup.seqs, len \in Lens, iface \in Ifaces :
     \E ts \in IF step \in NicSteps THEN Times ELSE {0} :
       AddKernEvent(step, seq, len, ts, iface) /\ UNCHANGED recordVars
  \/ setup.ssl /\ \E dir \in Directions : \E event \in SslInputs[dir] :
       AddSslEvent(dir, event) /\ UNCHANGED recordVars
  \/ \E out, in \in Messages : BeginRecord(out, in)
  \/ LookupSsl("SSL_OUT", "egress") \/ LookupSsl("SSL_IN", "ingress")
  \/ \E step \in Steps : LookupKern(step)
  \/ FinishRecord

Spec == RecordInit /\ [][Next]_vars

-----------------------------------------------------------------------------
\* The variables keep their types.
TypeOK ==
  /\ kernEvents \in [Steps -> Seq(KernEvent)]
  /\ sslEvents \in [Directions -> Seq(SslEvent)]
  /\ discardSeq \in [Directions -> Nat]
  /\ sslDiscardSeq \in [Directions -> Nat]
  /\ pc \in {"idle", "lookup"}
  /\ range \in [Directions -> [seq : Nat, len : Int]]

\* The variables keep their types, and every ring and slice stays strictly
\* ordered by sequence number and within
\* maxLen, whatever the order events arrive in and whatever was discarded: the
\* binary searches of AddKernEvent, AddSslEvent and the discards rely on it.
OrderedAndBounded ==
  /\ TypeOK
  /\ \A step \in Steps : Increasing(kernEvents[step]) /\ Len(kernEvents[step]) <= maxLen
  /\ \A dir \in Directions : Increasing(sslEvents[dir]) /\ Len(sslEvents[dir]) <= maxLen

\* FindEventsBySeqAndLen returns exactly the events that share a byte with the
\* range asked for: its three tests and its early stop together neither miss an
\* event nor return a neighbour.
FindsExactlyOverlaps ==
  \A step \in setup.steps, r \in [seq : Seqs, len : Lens \ {0}] :
    FindEventsBySeqAndLen(step, r.seq, r.len) = {e \in EventsOf(step) : Overlaps(e, r)}

\* An event at or above the mark of its direction stays: an add discards only what a
\* record has marked, so that what one record leaves behind never costs the records
\* after it an event of theirs.  Where times are kept per interface they only move
\* to earlier ones, in whatever order the reports of the same segment come in.
UnmarkedEventsStay ==
  [][\A step \in Steps : \A e \in EventsOf(step) :
       e.seq >= discardSeq[DirectionOf(step)] =>
         \E i \in DOMAIN kernEvents'[step] :
           LET f == kernEvents'[step][i]
           IN  /\ f.seq = e.seq
               /\ \A iface \in Ifaces : step \in NicSteps /\ e.attributes[iface] # 0 =>
                    f.attributes[iface] \in 1..e.attributes[iface]]_vars

SkipsDevIn(step) == step = "DEV_IN" /\ "NIC_IN" \in setup.steps /\ found["NIC_IN"] # {}

\* Although the lookups of one record are separate critical sections, between
\* which the Processor adds and discards events, the record is annotated with
\* every event that was recorded, and began in its bytes, when they started.  (Of bytes
\* that TLS events of two records name, the later record may miss the events.)
AnnotatedWithAllOwed ==
  (pc = "lookup" /\ todo = {}) =>
    \A i \in Lookups :
      (LookupOrder[i] \in Steps /\ ~SkipsDevIn(LookupOrder[i])) =>
        \A e \in owed[LookupOrder[i]] :
          \E f \in found[LookupOrder[i]] : f.seq = e.seq /\ f.len = e.len
=============================================================================
