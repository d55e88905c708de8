----------------------- MODULE RecordAnnotationProofs -----------------------
(***************************************************************************)
(* Proofs about RecordAnnotation: the rings and slices stay ordered and    *)
(* bounded, the lookup loop finds exactly the events of a range, an add    *)
(* discards only what was marked, and a record is annotated with all the   *)
(* events it is owed.                                                      *)
(***************************************************************************)
EXTENDS RecordAnnotation, KernEventStreamProofs

-----------------------------------------------------------------------------
(* The inductive invariant.                                                *)

\* The types of what TypeOK leaves out.
Shape ==
  /\ setup \in Setups
  /\ \A dir \in Directions : sslEvents[dir] \in Seq(SslInputs[dir])
  /\ message \in [Directions -> [seq : Nat, len : Nat]]
  /\ consumed \in [Directions -> Nat]
  /\ found \in [Steps -> SUBSET KernEvent]
  /\ owed \in [Steps -> SUBSET KernEvent]
  /\ todo \in SUBSET Lookups
  /\ pc = "idle" => todo = {} /\ found = NoEvents /\ owed = NoEvents

\* x is where bytes end that precede the byte b of the stream the messages are in;
\* with TLS, b counts bytes of the plain text and x those of the cipher text.
EndsBelow(dir, x, b) ==
  IF setup.ssl
  THEN x = 0 \/ \E e \in SslInputs[dir] :
                  KnowsSyscall(e) /\ e.seq < b /\ x = e.kernSeq + e.kernLen
  ELSE x <= b

\* Where the bytes begin that no finished record has had.
Fresh(dir) == IF pc = "idle" THEN consumed[dir] ELSE message[dir].seq

\* Only bytes of finished records are marked, and a record's bytes are not unless TLS
\* events name bytes twice.
Marks ==
  \A dir \in Directions :
    /\ EndsBelow(dir, discardSeq[dir], Fresh(dir))
    /\ pc = "lookup" =>
         /\ consumed[dir] = message[dir].seq + message[dir].len
         /\ EndsBelow(dir, range[dir].seq + range[dir].len, consumed[dir])
         /\ \/ range[dir] = NoRange
            \/ discardSeq[dir] <= range[dir].seq
            \/ setup.ssl /\ ~Disjoint(dir)

\* The lookups are made in their order, and with TLS nothing is owed before the
\* range of the record is known.
InOrder ==
  pc = "lookup" =>
    /\ \A i \in todo, j \in Lookups : i <= j => j \in todo
    /\ setup.ssl /\ 2 \in todo => owed = NoEvents

\* What is owed lies in the record's bytes and above the marks; as long as it has not
\* been looked up it is in its ring, and then it is among what was found.
OwedIsKept ==
  pc = "lookup" =>
    /\ \A step \in Steps : \A e \in owed[step] :
         LET r == range[DirectionOf(step)]
         IN  /\ e.seq >= r.seq /\ e.seq < r.seq + r.len
             /\ e.seq >= discardSeq[DirectionOf(step)]
    /\ \A i \in Lookups : LookupOrder[i] \in Steps =>
         \A e \in owed[LookupOrder[i]] :
           IF i \in todo THEN \E f \in EventsOf(LookupOrder[i]) : Same(e, f)
           ELSE \/ SkipsDevIn(LookupOrder[i])
                \/ \E f \in found[LookupOrder[i]] : Same(e, f)

IInv == OrderedAndBounded /\ Shape /\ Marks /\ InOrder /\ OwedIsKept

-----------------------------------------------------------------------------
(* The steps of a record.                                                  *)

LEMMA PositionsDiffer ==
  /\ DOMAIN LookupOrder = 1..9
  /\ \A i, j \in 1..9 : LookupOrder[i] = LookupOrder[j] => i = j
  /\ LookupOrder[1] = "SSL_OUT" /\ LookupOrder[2] = "SSL_IN"
  /\ LookupOrder[6] = "NIC_IN" /\ LookupOrder[7] = "DEV_IN"
BY DEF LookupOrder

LEMMA InitIInv == RecordInit => IInv
<1> SUFFICES ASSUME RecordInit PROVE IInv
  BY Zenon
<1> USE DEF RecordInit, Init
<1>1. OrderedAndBounded
  <2>1. << >> \in Seq(KernEvent) /\ << >> \in Seq(SslEvent) /\ Len(<< >>) = 0 /\ Increasing(<< >>)
    BY DEF Increasing
  <2>2. range \in [Directions -> [seq : Nat, len : Int]]
    BY DEF NoRange
  <2> QED BY <2>1, <2>2, StreamAssumption DEF OrderedAndBounded, TypeOK
<1>2. Shape
  <2>1. message \in [Directions -> [seq : Nat, len : Nat]]
    BY Zenon DEF NoRange
  <2> QED BY <2>1 DEF Shape, NoEvents
<1>3. Marks
  BY DEF Marks, EndsBelow, Fresh
<1>4. InOrder /\ OwedIsKept
  BY Zenon DEF InOrder, OwedIsKept
<1> QED BY <1>1, <1>2, <1>3, <1>4, Zenon DEF IInv

\* Adding an event in the middle of a record costs the record nothing it is owed.
LEMMA AddKernIInv ==
  ASSUME IInv, UNCHANGED recordVars,
         NEW step \in Steps, NEW seq \in Seqs, NEW len \in Lens, NEW iface \in Ifaces,
         NEW ts \in IF step \in NicSteps THEN Times ELSE {0},
         AddKernEvent(step, seq, len, ts, iface)
  PROVE  IInv'
<1>1. UNCHANGED <<sslEvents, discardSeq, sslDiscardSeq>>
  BY Zenon DEF AddKernEvent
<1>2. OrderedAndBounded /\ Shape /\ Marks /\ InOrder /\ OwedIsKept
  BY Zenon DEF IInv
<1>3. /\ kernEvents' \in [Steps -> Seq(KernEvent)]
      /\ \A s \in Steps :
           /\ Increasing(kernEvents'[s])
           /\ Len(kernEvents'[s]) <= maxLen
           /\ \A i \in 1..Len(kernEvents[s]) :
                kernEvents[s][i].seq >= discardSeq[DirectionOf(s)]
                  => \E j \in 1..Len(kernEvents'[s]) :
                       Evolves(kernEvents[s][i], kernEvents'[s][j])
  <2>1. RingsOrdered
    BY <1>2, Zenon DEF OrderedAndBounded, TypeOK, RingsOrdered
  <2> QED BY <2>1, AddKernKeeps, Zenon
<1> USE DEF recordVars
<1>4. OrderedAndBounded'
  BY <1>1, <1>2, <1>3, Zenon DEF OrderedAndBounded, TypeOK
<1>5. Shape'
  BY <1>1, <1>2, Zenon DEF Shape, Lookups, NoEvents
<1>6. Marks'
  BY <1>1, <1>2, Zenon DEF Marks, EndsBelow, Fresh
<1>7. InOrder'
  BY <1>2, Zenon DEF InOrder, Lookups, NoEvents
<1>8. OwedIsKept'
  <2> SUFFICES ASSUME pc = "lookup" PROVE OwedIsKept'
    BY Zenon DEF OwedIsKept
  <2>1. \A s \in Steps : \A e \in owed'[s] :
          LET r == range'[DirectionOf(s)]
          IN  /\ e.seq >= r.seq /\ e.seq < r.seq + r.len
              /\ e.seq >= discardSeq'[DirectionOf(s)]
    BY <1>1, <1>2, Zenon DEF OwedIsKept
  <2>2. ASSUME NEW i \in Lookups, LookupOrder[i] \in Steps, NEW e \in owed[LookupOrder[i]],
               i \in todo
        PROVE  \E f \in EventsOf(LookupOrder[i])' : Same(e, f)
    <3> DEFINE s == LookupOrder[i]
    <3> HIDE DEF s
    <3>1. PICK f \in EventsOf(s) : Same(e, f)
      BY <1>2, <2>2, Zenon DEF OwedIsKept, s
    <3>2. s \in Steps /\ e \in owed[s]
      BY <2>2, Zenon DEF s
    <3>3. PICK k \in DOMAIN kernEvents[s] : f = kernEvents[s][k]
      BY Zenon DEF EventsOf
    <3>4. k \in 1..Len(kernEvents[s])
      BY <1>2, <3>2 DEF OrderedAndBounded, TypeOK
    <3>5. kernEvents[s][k].seq >= discardSeq[DirectionOf(s)]
      BY <1>2, <3>1, <3>2, <3>3, Zenon DEF OwedIsKept, Same
    <3>6. PICK j \in 1..Len(kernEvents'[s]) : Evolves(kernEvents[s][k], kernEvents'[s][j])
      BY <1>3, <3>2, <3>4, <3>5, Zenon
    <3>7. Same(e, kernEvents'[s][j])
      BY <3>1, <3>3, <3>6, Zenon DEF Evolves, Same
    <3>8. kernEvents'[s][j] \in EventsOf(s)'
      <4>1. DOMAIN kernEvents'[s] = 1..Len(kernEvents'[s])
        BY <1>3, <3>2
      <4> QED BY <4>1, Zenon DEF EventsOf
    <3> QED BY <3>7, <3>8, Zenon DEF s
  <2>3. ASSUME NEW i \in Lookups, LookupOrder[i] \in Steps, NEW e \in owed[LookupOrder[i]],
               i \notin todo
        PROVE  \/ SkipsDevIn(LookupOrder[i])
               \/ \E f \in found[LookupOrder[i]] : Same(e, f)
    BY <1>2, <2>3, Zenon DEF OwedIsKept
  <2>4. Lookups' = Lookups /\ \A s : SkipsDevIn(s)' <=> SkipsDevIn(s)
    BY Zenon DEF Lookups, SkipsDevIn
  <2> QED BY <2>1, <2>2, <2>3, <2>4, Zenon DEF OwedIsKept
<1> QED BY <1>4, <1>5, <1>6, <1>7, <1>8, Zenon DEF IInv

LEMMA AddSslIInv ==
  ASSUME IInv, UNCHANGED recordVars, NEW dir \in Directions, NEW event \in SslInputs[dir],
         AddSslEvent(dir, event)
  PROVE  IInv'
<1>1. UNCHANGED <<kernEvents, discardSeq, sslDiscardSeq>>
  BY Zenon DEF AddSslEvent
<1>2. OrderedAndBounded /\ Shape /\ Marks /\ InOrder /\ OwedIsKept
  BY Zenon DEF IInv
<1>3. /\ sslEvents' \in [Directions -> Seq(SslEvent)]
      /\ \A d \in Directions : /\ sslEvents'[d] \in Seq(SslInputs[d])
                               /\ Increasing(sslEvents'[d])
                               /\ Len(sslEvents'[d]) <= maxLen
  BY <1>2, AddSslKeeps, Zenon DEF OrderedAndBounded, TypeOK, Shape, SlicesOrdered
<1> USE DEF recordVars
<1>4. OrderedAndBounded'
  BY <1>1, <1>2, <1>3, Zenon DEF OrderedAndBounded, TypeOK
<1>5. Shape'
  BY <1>1, <1>2, <1>3, Zenon DEF Shape, Lookups, NoEvents
<1>6. Marks'
  BY <1>1, <1>2, Zenon DEF Marks, EndsBelow, Fresh
<1>7. InOrder'
  BY <1>2, Zenon DEF InOrder, Lookups, NoEvents
<1>8. OwedIsKept'
  BY <1>1, <1>2 DEF OwedIsKept, Lookups, EventsOf, SkipsDevIn
<1> QED BY <1>4, <1>5, <1>6, <1>7, <1>8, Zenon DEF IInv

\* What is owed is recorded, and lies in the bytes asked for and above the marks.
LEMMA OwedRecorded ==
  ASSUME TypeOK, NEW r \in [Directions -> [seq : Nat, len : Int]], NEW step \in Steps,
         LET dir == DirectionOf(step)
         IN  \/ r[dir] = NoRange
             \/ discardSeq[dir] <= r[dir].seq
             \/ setup.ssl /\ ~Disjoint(dir)
  PROVE  /\ Owed(r)[step] \subseteq EventsOf(step)
         /\ EventsOf(step) \subseteq KernEvent
         /\ \A e \in Owed(r)[step] : /\ e.seq >= r[DirectionOf(step)].seq
                                     /\ e.seq < r[DirectionOf(step)].seq + r[DirectionOf(step)].len
                                     /\ e.seq >= discardSeq[DirectionOf(step)]
<1> DEFINE dir == DirectionOf(step)
<1>1. kernEvents[step] \in Seq(KernEvent)
  BY Zenon DEF TypeOK
<1>2. EventsOf(step) \subseteq KernEvent
  BY <1>1 DEF EventsOf
<1>3. dir \in Directions /\ discardSeq[dir] \in Nat /\ r[dir].seq \in Nat /\ r[dir].len \in Int
  <2>1. dir \in Directions
    BY Zenon DEF DirectionOf, Directions
  <2> QED BY <2>1, Zenon DEF TypeOK
<1>4. ASSUME NEW e \in Owed(r)[step]
      PROVE  /\ e \in EventsOf(step)
             /\ e.seq >= r[dir].seq /\ e.seq < r[dir].seq + r[dir].len
             /\ setup.ssl /\ ~Disjoint(dir) => e.seq >= discardSeq[dir]
  BY <1>4, Zenon DEF Owed
<1>5. ASSUME NEW e \in Owed(r)[step] PROVE e.seq >= discardSeq[dir]
  <2>1. e.seq \in Nat
    BY <1>2, <1>4, <1>5, KernTypes, Zenon
  <2>2. r[dir] # NoRange
    BY <1>4, <1>5, <2>1 DEF NoRange
  <2>3. CASE setup.ssl /\ ~Disjoint(dir)
    BY <1>4, <1>5, <2>3, Zenon
  <2>4. CASE discardSeq[dir] <= r[dir].seq
    <3>1. e.seq >= r[dir].seq
      BY <1>4, <1>5, Zenon
    <3> HIDE DEF dir
    <3> QED BY <1>3, <2>1, <2>4, <3>1
  <2> QED BY <2>2, <2>3, <2>4, Zenon
<1> QED BY <1>2, <1>4, <1>5, Zenon

LEMMA BeginRecordIInv ==
  ASSUME IInv, NEW out \in Messages, NEW in \in Messages, BeginRecord(out, in)
  PROVE  IInv'
<1> DEFINE m == [dir \in Directions |-> IF dir = "egress" THEN out ELSE in]
<1>1. OrderedAndBounded /\ Shape /\ Marks /\ TypeOK
  BY Zenon DEF IInv, OrderedAndBounded
<1>2. /\ pc = "idle"
      /\ out.seq >= consumed["egress"] /\ in.seq >= consumed["ingress"]
      /\ pc' = "lookup"
      /\ todo' = Lookups
      /\ message' = m
      /\ range' = IF setup.ssl THEN [dir \in Directions |-> NoRange] ELSE m
      /\ owed' = IF setup.ssl THEN NoEvents ELSE Owed(m)
      /\ consumed' = [dir \in Directions |-> m[dir].seq + m[dir].len]
      /\ UNCHANGED <<streamVars, setup, found>>
  BY Zenon DEF BeginRecord
<1>3. UNCHANGED <<kernEvents, sslEvents, discardSeq, sslDiscardSeq, setup, found>>
  BY <1>2, Zenon DEF streamVars
<1>4. /\ m \in [Directions -> [seq : Nat, len : Nat]]
      /\ \A dir \in Directions : m[dir].seq >= consumed[dir]
  <2>1. Seqs \subseteq Nat /\ Lens \subseteq Nat
    BY StreamAssumption, Zenon
  <2>2. out \in [seq : Nat, len : Nat] /\ in \in [seq : Nat, len : Nat]
    BY <2>1, SetupAssumption, Zenon
  <2> QED BY <1>2, <2>2, Zenon DEF Directions
<1>5. \A step \in Steps : Owed(m)[step] \subseteq EventsOf(step) /\ EventsOf(step) \subseteq KernEvent
  <2>1. ASSUME NEW step \in Steps PROVE EventsOf(step) \subseteq KernEvent
    <3>1. kernEvents[step] \in Seq(KernEvent)
      BY <1>1, Zenon DEF TypeOK
    <3> QED BY <3>1 DEF EventsOf
  <2> QED BY <2>1, Zenon DEF Owed
<1>6. setup \in Setups /\ consumed \in [Directions -> Nat] /\ discardSeq \in [Directions -> Nat]
  BY <1>1, Zenon DEF Shape, TypeOK
<1> HIDE DEF m
<1>7. Lookups' = Lookups
  BY <1>3, Zenon DEF Lookups
<1>8. OrderedAndBounded'
  <2>1. range' \in [Directions -> [seq : Nat, len : Int]]
    BY <1>2, <1>4 DEF NoRange
  <2> QED BY <1>1, <1>2, <1>3, <2>1, Zenon DEF OrderedAndBounded, TypeOK
<1>9. Shape'
  <2>1. consumed' \in [Directions -> Nat]
    BY <1>2, <1>4
  <2>2. owed' \in [Steps -> SUBSET KernEvent]
    <3>1. NoEvents \in [Steps -> SUBSET KernEvent]
      BY Zenon DEF NoEvents
    <3>2. Owed(m) \in [Steps -> SUBSET KernEvent]
      BY <1>5, Zenon DEF Owed
    <3> QED BY <1>2, <3>1, <3>2, Zenon
  <2> QED BY <1>1, <1>2, <1>3, <1>4, <1>7, <2>1, <2>2, Zenon DEF Shape
<1>10. Marks'
  <2> SUFFICES ASSUME NEW dir \in Directions
               PROVE  /\ EndsBelow(dir, discardSeq[dir], m[dir].seq)
                      /\ EndsBelow(dir, range'[dir].seq + range'[dir].len, m[dir].seq + m[dir].len)
                      /\ range'[dir] = NoRange \/ discardSeq[dir] <= range'[dir].seq
    BY <1>2, <1>3, Zenon DEF Marks, EndsBelow, Fresh, Disjoint
  <2>1. EndsBelow(dir, discardSeq[dir], consumed[dir])
    BY <1>1, <1>2, Zenon DEF Marks, Fresh
  <2>2. m[dir].seq \in Nat /\ m[dir].len \in Nat /\ consumed[dir] \in Nat /\ discardSeq[dir] \in Nat
        /\ m[dir].seq >= consumed[dir]
    BY <1>4, <1>6, Zenon
  <2>3. CASE setup.ssl
    <3>1. range'[dir] = NoRange /\ NoRange.seq + NoRange.len = 0
      BY <1>2, <2>3 DEF NoRange
    <3>2. discardSeq[dir] = 0 \/ \E e \in SslInputs[dir] :
            /\ KnowsSyscall(e) /\ e.seq < consumed[dir]
            /\ discardSeq[dir] = e.kernSeq + e.kernLen
      BY <2>1, <2>3, Zenon DEF EndsBelow
    <3>3. \A e \in SslInputs[dir] : e.seq \in Nat
      BY SslTypes, SslInputsAssumption, Zenon
    <3>4. EndsBelow(dir, discardSeq[dir], m[dir].seq)
      BY <2>2, <2>3, <3>2, <3>3 DEF EndsBelow
    <3> QED BY <2>3, <3>1, <3>4, Zenon DEF EndsBelow
  <2>4. CASE ~setup.ssl
    <3>1. range'[dir] = m[dir]
      BY <1>2, <2>4, Zenon
    <3> QED BY <2>1, <2>2, <2>4, <3>1 DEF EndsBelow
  <2> QED BY <2>3, <2>4, Zenon
<1>11. InOrder'
  BY <1>2, <1>3, <1>7, Zenon DEF InOrder, NoEvents
<1>12. OwedIsKept'
  <2>1. ASSUME NEW s \in Steps, NEW e \in owed'[s]
        PROVE  /\ e \in EventsOf(s)
               /\ e.seq >= range'[DirectionOf(s)].seq
               /\ e.seq < range'[DirectionOf(s)].seq + range'[DirectionOf(s)].len
               /\ e.seq >= discardSeq'[DirectionOf(s)]
    <3>1. ~setup.ssl /\ e \in Owed(m)[s] /\ range' = m
      BY <1>2, <2>1, Zenon DEF NoEvents
    <3>2. DirectionOf(s) \in Directions
      BY Zenon DEF DirectionOf, Directions
    <3>3. m[DirectionOf(s)] = NoRange \/ discardSeq[DirectionOf(s)] <= m[DirectionOf(s)].seq
      BY <1>2, <1>3, <1>10, <3>1, <3>2, Zenon DEF Marks
    <3>4. m \in [Directions -> [seq : Nat, len : Int]]
      BY <1>4
    <3> QED BY <1>1, <1>3, <3>1, <3>3, <3>4, OwedRecorded, Zenon
  <2>2. \A s : EventsOf(s)' = EventsOf(s)
    BY <1>3, Zenon DEF EventsOf
  <2>3. \A e : Same(e, e)
    BY Zenon DEF Same
  <2> QED BY <1>2, <1>7, <2>1, <2>2, <2>3, Zenon DEF OwedIsKept
<1> QED BY <1>8, <1>9, <1>10, <1>11, <1>12, Zenon DEF IInv

\* The next lookup is the first that is left.
LEMMA NextLookup ==
  ASSUME Shape, InOrder, pc = "lookup", NEW step, IsNext(step)
  PROVE  \E i \in todo :
           /\ LookupOrder[i] = step
           /\ After(step) = todo \ {i}
           /\ \A j \in todo : i <= j
           /\ \A j \in Lookups : i <= j => j \in todo
           /\ \A k \in After(step), j \in Lookups : k <= j => j \in After(step)
<1>1. PICK i \in todo : LookupOrder[i] = step /\ \A j \in todo : i <= j
  BY Zenon DEF IsNext
<1>2. todo \subseteq 1..9 /\ Lookups \subseteq 1..9
  BY PositionsDiffer, Zenon DEF Shape, Lookups
<1>3. After(step) = todo \ {i}
  BY <1>1, <1>2, PositionsDiffer, Zenon DEF After
<1>4. \A k \in todo, j \in Lookups : k <= j => j \in todo
  BY Zenon DEF InOrder
<1>5. \A k \in todo \ {i}, j \in Lookups : k <= j => j \in todo \ {i}
  BY <1>1, <1>2, <1>4
<1> QED BY <1>1, <1>3, <1>4, <1>5, Zenon

\* The range getKernSeqAndLen answers reaches from the syscall of one TLS event of
\* the message to that of another.
LEMMA KernRange ==
  ASSUME OrderedAndBounded, Shape, NEW dir \in Directions, NEW b \in Nat, NEW n \in Nat
  PROVE  LET r == getKernSeqAndLen(sslEvents[dir], FindSslEventsBySeqAndLen(dir, b, n))
         IN  \/ r = NoRange
             \/ \E e, f \in SslInputs[dir] :
                  /\ KnowsSyscall(e) /\ KnowsSyscall(f)
                  /\ e.seq >= b /\ f.seq < b + n
                  /\ r = [seq |-> e.kernSeq, len |-> f.kernLen + f.kernSeq - e.kernSeq]
<1> DEFINE events == sslEvents[dir]
           positions == FindSslEventsBySeqAndLen(dir, b, n)
           known == {i \in positions : KnowsSyscall(events[i])}
           lo == CHOOSE i \in known : \A j \in known : i <= j
           hi == CHOOSE i \in known : \A j \in known : i >= j
           r == getKernSeqAndLen(events, positions)
<1>1. events \in Seq(SslInputs[dir]) /\ Len(events) \in Nat /\ DOMAIN events = 1..Len(events)
  BY DEF Shape
<1>2. positions = {i \in DOMAIN events : events[i].seq >= b /\ events[i].seq < b + n}
  BY Zenon DEF FindSslEventsBySeqAndLen
<1>3. CASE known = {}
  BY <1>3, Zenon DEF getKernSeqAndLen
<1>4. CASE known # {}
  <2>1. known \in SUBSET (1..Len(events)) /\ known \in SUBSET Nat
    BY <1>1, <1>2
  <2>2. r = [seq |-> events[lo].kernSeq,
             len |-> events[hi].kernLen + events[hi].kernSeq - events[lo].kernSeq]
    BY <1>4, Zenon DEF getKernSeqAndLen
  <2>3. lo \in known
    <3> HIDE DEF known
    <3>1. \E i \in known : \A j \in known : i <= j
      BY <1>4, <2>1, Least, Zenon
    <3> QED BY <3>1, Zenon
  <2>4. hi \in known
    <3> HIDE DEF known
    <3>1. PICK i \in known : \A j \in known : j <= i
      BY <1>1, <1>4, <2>1, Greatest, Zenon
    <3>2. \A j \in known : i >= j
      BY <2>1, <3>1, Zenon
    <3> QED BY <3>1, <3>2, Zenon
  <2> HIDE DEF lo, hi
  <2>5. /\ events[lo] \in SslInputs[dir] /\ KnowsSyscall(events[lo]) /\ events[lo].seq >= b
        /\ events[hi] \in SslInputs[dir] /\ KnowsSyscall(events[hi]) /\ events[hi].seq < b + n
    BY <1>1, <1>2, <2>3, <2>4
  <2> HIDE DEF r, events
  <2> QED BY <2>2, <2>5, Zenon DEF r, events
<1> QED BY <1>3, <1>4, Zenon

LEMMA LookupSslIInv ==
  ASSUME IInv, NEW step, NEW dir,
         \/ step = "SSL_OUT" /\ dir = "egress"
         \/ step = "SSL_IN" /\ dir = "ingress",
         LookupSsl(step, dir)
  PROVE  IInv'
<1> DEFINE q == getKernSeqAndLen(sslEvents[dir],
                  FindSslEventsBySeqAndLen(dir, message[dir].seq, message[dir].len))
           r == [range EXCEPT ![dir] = q]
<1>1. OrderedAndBounded /\ Shape /\ Marks /\ InOrder /\ OwedIsKept /\ TypeOK
  BY Zenon DEF IInv, OrderedAndBounded
<1>2. /\ pc = "lookup" /\ IsNext(step)
      /\ range' = r
      /\ owed' = IF dir = "ingress" THEN Owed(r) ELSE owed
      /\ todo' = After(step)
      /\ UNCHANGED <<streamVars, setup, pc, message, found, consumed, records>>
  BY Zenon DEF LookupSsl
<1>3. UNCHANGED <<kernEvents, sslEvents, discardSeq, sslDiscardSeq, setup, pc, message, found, consumed>>
  BY <1>2, Zenon DEF streamVars
<1>4. PICK i \in todo :
         /\ LookupOrder[i] = step
         /\ After(step) = todo \ {i}
         /\ \A j \in Lookups : i <= j => j \in todo
         /\ \A k \in After(step), j \in Lookups : k <= j => j \in After(step)
  BY <1>1, <1>2, NextLookup, Zenon
<1>5. todo \subseteq 1..9 /\ Lookups \subseteq 1..9 /\ todo \subseteq Lookups
  BY <1>1, PositionsDiffer, Zenon DEF Shape, Lookups
<1>6. i = IF dir = "egress" THEN 1 ELSE 2
  BY <1>4, <1>5, PositionsDiffer
<1>7. setup.ssl
  <2>1. setup.steps \subseteq Steps
    BY <1>1, SetupAssumption, Zenon DEF Shape
  <2> QED BY <1>4, <1>5, <2>1, StreamAssumption, Zenon DEF Lookups
<1>8. 2 \in Lookups /\ 2 \in todo
  <2>1. 2 \in Lookups
    BY <1>7, PositionsDiffer DEF Lookups
  <2> QED BY <1>4, <1>6, <2>1
<1>9. owed = NoEvents
  BY <1>1, <1>2, <1>7, <1>8, Zenon DEF InOrder
<1>10. /\ dir \in Directions /\ message[dir].seq \in Nat /\ message[dir].len \in Nat
       /\ discardSeq[dir] \in Nat
       /\ range \in [Directions -> [seq : Nat, len : Int]]
  BY <1>1, Zenon DEF Shape, TypeOK, Directions
<1>11. \/ q = NoRange
       \/ \E e, f \in SslInputs[dir] :
            /\ KnowsSyscall(e) /\ KnowsSyscall(f)
            /\ e.seq >= message[dir].seq /\ f.seq < message[dir].seq + message[dir].len
            /\ q = [seq |-> e.kernSeq, len |-> f.kernLen + f.kernSeq - e.kernSeq]
  BY <1>1, <1>10, KernRange, Zenon
<1> HIDE DEF q
<1>12. \A e \in SslInputs[dir] : e.seq \in Nat /\ e.kernSeq \in Nat /\ e.kernLen \in Nat
  BY <1>10, SslTypes, SslInputsAssumption, Zenon
<1>13. q \in [seq : Nat, len : Int]
  BY <1>11, <1>12 DEF NoRange
<1>14. Lookups' = Lookups /\ \A s : EventsOf(s)' = EventsOf(s)
  BY <1>3, Zenon DEF Lookups, EventsOf
<1>15. range' \in [Directions -> [seq : Nat, len : Int]]
  BY <1>2, <1>10, <1>13, Zenon
<1>16. OrderedAndBounded'
  BY <1>1, <1>3, <1>15, Zenon DEF OrderedAndBounded, TypeOK
<1>17. Marks'
  <2> SUFFICES ASSUME NEW d \in Directions
               PROVE  /\ EndsBelow(d, range'[d].seq + range'[d].len, consumed[d])
                      /\ \/ range'[d] = NoRange
                         \/ discardSeq[d] <= range'[d].seq
                         \/ setup.ssl /\ ~Disjoint(d)
    BY <1>1, <1>2, <1>3, Zenon DEF Marks, EndsBelow, Fresh, Disjoint
  <2>1. CASE d # dir
    <3>1. range'[d] = range[d]
      BY <1>2, <1>10, <2>1, Zenon
    <3> QED BY <1>1, <1>2, <3>1, Zenon DEF Marks
  <2>2. CASE d = dir /\ q = NoRange
    <3>1. range'[d] = NoRange
      BY <1>2, <1>10, <2>2, Zenon
    <3>2. NoRange.seq + NoRange.len = 0
      BY DEF NoRange
    <3> QED BY <1>7, <3>1, <3>2, Zenon DEF EndsBelow
  <2>3. CASE d = dir /\ q # NoRange
    <3>1. PICK e \in SslInputs[dir], f \in SslInputs[dir] :
            /\ KnowsSyscall(e) /\ KnowsSyscall(f)
            /\ e.seq >= message[dir].seq /\ f.seq < message[dir].seq + message[dir].len
            /\ q = [seq |-> e.kernSeq, len |-> f.kernLen + f.kernSeq - e.kernSeq]
      BY <1>11, <2>3, Zenon
    <3>2. range'[d] = q
      BY <1>2, <1>10, <2>3, Zenon
    <3>3. q.seq = e.kernSeq /\ q.seq + q.len = f.kernSeq + f.kernLen
      BY <1>12, <3>1
    <3>4. consumed[dir] = message[dir].seq + message[dir].len
          /\ EndsBelow(dir, discardSeq[dir], message[dir].seq)
      BY <1>1, <1>2, <1>10, Zenon DEF Marks, Fresh
    <3>5. EndsBelow(d, range'[d].seq + range'[d].len, consumed[d])
      BY <1>7, <2>3, <3>1, <3>2, <3>3, <3>4, Zenon DEF EndsBelow
    <3>6. ASSUME Disjoint(dir) PROVE discardSeq[dir] <= e.kernSeq
      <4>1. CASE discardSeq[dir] = 0
        BY <1>12, <4>1
      <4>2. CASE discardSeq[dir] # 0
        <5>1. PICK g \in SslInputs[dir] : /\ KnowsSyscall(g) /\ g.seq < message[dir].seq
                                          /\ discardSeq[dir] = g.kernSeq + g.kernLen
          BY <1>7, <3>4, <4>2, Zenon DEF EndsBelow
        <5>2. g.seq < e.seq
          BY <1>10, <1>12, <3>1, <5>1
        <5> QED BY <3>1, <3>6, <5>1, <5>2, Zenon DEF Disjoint
      <4> QED BY <4>1, <4>2, Zenon
    <3> QED BY <1>7, <2>3, <3>2, <3>3, <3>5, <3>6, Zenon
  <2> QED BY <2>1, <2>2, <2>3, Zenon
<1>18. \A s \in Steps : /\ owed'[s] \subseteq EventsOf(s)
                        /\ EventsOf(s) \subseteq KernEvent
                        /\ \A e \in owed'[s] :
                             /\ e.seq >= r[DirectionOf(s)].seq
                             /\ e.seq < r[DirectionOf(s)].seq + r[DirectionOf(s)].len
                             /\ e.seq >= discardSeq[DirectionOf(s)]
  <2> HIDE DEF r
  <2> SUFFICES ASSUME NEW s \in Steps
               PROVE  /\ owed'[s] \subseteq EventsOf(s)
                      /\ EventsOf(s) \subseteq KernEvent
                      /\ \A e \in owed'[s] :
                           /\ e.seq >= r[DirectionOf(s)].seq
                           /\ e.seq < r[DirectionOf(s)].seq + r[DirectionOf(s)].len
                           /\ e.seq >= discardSeq[DirectionOf(s)]
    BY Zenon
  <2>0. /\ r \in [Directions -> [seq : Nat, len : Int]]
        /\ \/ r[DirectionOf(s)] = NoRange
           \/ discardSeq[DirectionOf(s)] <= r[DirectionOf(s)].seq
           \/ setup.ssl /\ ~Disjoint(DirectionOf(s))
    <3>1. DirectionOf(s) \in Directions
      BY Zenon DEF DirectionOf, Directions
    <3> QED BY <1>2, <1>3, <1>15, <1>17, <3>1, Zenon DEF Marks, Disjoint
  <2>1. CASE dir = "ingress"
    BY <1>1, <1>2, <2>0, <2>1, OwedRecorded, Zenon
  <2>2. CASE dir # "ingress"
    BY <1>1, <1>2, <1>9, <2>0, <2>2, OwedRecorded, Zenon DEF NoEvents
  <2> QED BY <2>1, <2>2, Zenon
<1>19. Shape'
  <2>1. owed' \in [Steps -> SUBSET KernEvent]
    <3> HIDE DEF r
    <3>1. DOMAIN owed' = Steps /\ owed' = [s \in Steps |-> owed'[s]]
      BY <1>2, <1>9, Zenon DEF Owed, NoEvents
    <3> QED BY <1>18, <3>1, Zenon
  <2>2. todo' \in SUBSET Lookups'
    BY <1>2, <1>4, <1>5, <1>14, Zenon
  <2> QED BY <1>1, <1>2, <1>3, <2>1, <2>2, Zenon DEF Shape
<1>20. InOrder'
  <2>1. setup.ssl /\ 2 \in todo' => owed' = NoEvents
    BY <1>2, <1>4, <1>6, <1>9, Zenon
  <2> QED BY <1>2, <1>3, <1>4, <1>14, <2>1, Zenon DEF InOrder, NoEvents
<1>21. OwedIsKept'
  <2>1. ASSUME NEW j \in Lookups, LookupOrder[j] \in Steps, j \notin todo'
        PROVE  owed'[LookupOrder[j]] = {}
    <3>1. CASE dir = "egress"
      BY <1>2, <1>9, <2>1, <3>1, Zenon DEF NoEvents
    <3>2. CASE dir # "egress"
      <4>1. j \in 1..9 /\ (j = 1 \/ j = 2)
        BY <1>2, <1>4, <1>5, <1>6, <2>1, <3>2
      <4> QED BY <2>1, <4>1, PositionsDiffer, StreamAssumption, Zenon
    <3> QED BY <3>1, <3>2, Zenon
  <2>2. \A e : Same(e, e)
    BY Zenon DEF Same
  <2> HIDE DEF r
  <2> QED BY <1>2, <1>3, <1>14, <1>18, <2>1, <2>2, Zenon DEF OwedIsKept
<1> QED BY <1>16, <1>17, <1>19, <1>20, <1>21, Zenon DEF IInv

-----------------------------------------------------------------------------
(* The lookups and the end of a record.                                    *)

\* The lookup finds what is owed.
LEMMA FindsOwed ==
  ASSUME OrderedAndBounded, NEW step \in Steps, NEW f \in EventsOf(step),
         NEW r \in [seq : Nat, len : Int], f.seq >= r.seq, f.seq < r.seq + r.len
  PROVE  f \in FindEventsBySeqAndLen(step, r.seq, r.len)
<1>1. kernEvents[step] \in Seq(KernEvent) /\ Increasing(kernEvents[step])
  BY Zenon DEF OrderedAndBounded, TypeOK
<1>2. f \in KernEvent
  BY <1>1 DEF EventsOf
<1>3. r.seq \in Nat /\ r.len \in Nat \ {0} /\ f.seq + f.len > r.seq
  BY <1>2, KernTypes
<1>4. Overlaps(f, [seq |-> r.seq, len |-> r.len])
  BY <1>3, Zenon DEF Overlaps
<1> QED BY <1>1, <1>3, <1>4, FindsOverlaps DEF FindEventsBySeqAndLen, EventsOf

LEMMA LookupKernIInv ==
  ASSUME IInv, NEW step \in Steps, LookupKern(step)
  PROVE  IInv'
<1> DEFINE r == range[DirectionOf(step)]
           skips == step = "DEV_IN" /\ "NIC_IN" \in setup.steps /\ found["NIC_IN"] # {}
           got == IF skips THEN {} ELSE FindEventsBySeqAndLen(step, r.seq, r.len)
<1>1. OrderedAndBounded /\ Shape /\ Marks /\ InOrder /\ OwedIsKept /\ TypeOK
  BY Zenon DEF IInv, OrderedAndBounded
<1>2. /\ pc = "lookup" /\ IsNext(step)
      /\ found' = [found EXCEPT ![step] = got]
      /\ todo' = After(step)
      /\ UNCHANGED <<streamVars, setup, pc, message, range, owed, consumed, records>>
  BY Zenon DEF LookupKern
<1>3. UNCHANGED <<kernEvents, sslEvents, discardSeq, sslDiscardSeq, setup, pc, message, range,
                  owed, consumed>>
  BY <1>2, Zenon DEF streamVars
<1>4. PICK i \in todo :
         /\ LookupOrder[i] = step
         /\ After(step) = todo \ {i}
         /\ \A j \in Lookups : i <= j => j \in todo
         /\ \A k \in After(step), j \in Lookups : k <= j => j \in After(step)
  BY <1>1, <1>2, NextLookup, Zenon
<1>5. todo \subseteq 1..9 /\ Lookups \subseteq 1..9 /\ todo \subseteq Lookups
  BY <1>1, PositionsDiffer, Zenon DEF Shape, Lookups
<1>6. found \in [Steps -> SUBSET KernEvent] /\ setup.steps \subseteq Steps
  BY <1>1, SetupAssumption, Zenon DEF Shape
<1>7. Lookups' = Lookups /\ \A s : EventsOf(s)' = EventsOf(s)
  BY <1>3, Zenon DEF Lookups, EventsOf
<1>8. OrderedAndBounded'
  BY <1>1, <1>3, Zenon DEF OrderedAndBounded, TypeOK
<1>9. Shape'
  <2>1. kernEvents[step] \in Seq(KernEvent)
    BY <1>1, Zenon DEF TypeOK
  <2>2. got \subseteq KernEvent
    BY <2>1 DEF FindEventsBySeqAndLen, FindEvents
  <2> HIDE DEF got
  <2>3. found' \in [Steps -> SUBSET KernEvent]
    BY <1>2, <1>6, <2>2, Zenon
  <2>4. todo' \in SUBSET Lookups'
    BY <1>2, <1>4, <1>5, <1>7, Zenon
  <2> QED BY <1>1, <1>2, <1>3, <2>3, <2>4, Zenon DEF Shape
<1>10. Marks'
  BY <1>1, <1>3, Zenon DEF Marks, EndsBelow, Fresh
<1>11. InOrder'
  BY <1>1, <1>2, <1>3, <1>4, <1>7, Zenon DEF InOrder, NoEvents
<1>12. OwedIsKept'
  <2>1. ASSUME NEW j \in Lookups, LookupOrder[j] \in Steps, NEW e \in owed[LookupOrder[j]],
               j \in todo'
        PROVE  \E f \in EventsOf(LookupOrder[j]) : Same(e, f)
    <3>1. j \in todo
      BY <1>2, <1>4, <2>1, Zenon
    <3> QED BY <1>1, <1>2, <2>1, <3>1, Zenon DEF OwedIsKept
  <2>2. ASSUME NEW e \in owed[step]
        PROVE  SkipsDevIn(step)' \/ \E f \in found'[step] : Same(e, f)
    <3>1. CASE skips
      <4>1. found'["NIC_IN"] = found["NIC_IN"]
        BY <1>2, <1>6, <3>1, Zenon
      <4> QED BY <1>3, <3>1, <4>1, Zenon DEF SkipsDevIn
    <3>2. CASE ~skips
      <4>1. PICK f \in EventsOf(step) : Same(e, f)
        BY <1>1, <1>2, <1>4, <1>5, Zenon DEF OwedIsKept
      <4>2. e.seq >= r.seq /\ e.seq < r.seq + r.len
        BY <1>1, <1>2, Zenon DEF OwedIsKept
      <4>3. r \in [seq : Nat, len : Int]
        BY <1>1, Zenon DEF TypeOK, DirectionOf, Directions
      <4>4. f \in FindEventsBySeqAndLen(step, r.seq, r.len)
        BY <1>1, <4>1, <4>2, <4>3, FindsOwed, Zenon DEF Same
      <4>5. found'[step] = FindEventsBySeqAndLen(step, r.seq, r.len)
        BY <1>2, <1>6, <3>2, Zenon
      <4> QED BY <4>1, <4>4, <4>5, Zenon
    <3> QED BY <3>1, <3>2, Zenon
  <2>3. ASSUME NEW j \in Lookups, LookupOrder[j] \in Steps, NEW e \in owed[LookupOrder[j]],
               j \notin todo', j # i
        PROVE  SkipsDevIn(LookupOrder[j])' \/ \E f \in found'[LookupOrder[j]] : Same(e, f)
    <3>1. j \notin todo
      BY <1>2, <1>4, <2>3, Zenon
    <3>2. SkipsDevIn(LookupOrder[j]) \/ \E f \in found[LookupOrder[j]] : Same(e, f)
      BY <1>1, <1>2, <2>3, <3>1, Zenon DEF OwedIsKept
    <3>3. LookupOrder[j] # step
      BY <1>4, <1>5, <2>3, PositionsDiffer, Zenon
    <3>4. found'[LookupOrder[j]] = found[LookupOrder[j]]
      BY <1>2, <1>6, <2>3, <3>3, Zenon
    <3>5. ASSUME SkipsDevIn(LookupOrder[j]) PROVE SkipsDevIn(LookupOrder[j])'
      <4>1. LookupOrder[j] = "DEV_IN" /\ "NIC_IN" \in setup.steps /\ found["NIC_IN"] # {}
        BY <3>5, Zenon DEF SkipsDevIn
      <4>2. j = 7
        BY <1>5, <4>1, PositionsDiffer
      <4>3. i # 6
        BY <1>4, <3>1, <4>2
      <4>4. step # "NIC_IN"
        BY <1>4, <1>5, <4>3, PositionsDiffer
      <4>5. found'["NIC_IN"] = found["NIC_IN"]
        BY <1>2, <1>6, <4>1, <4>4, Zenon
      <4> QED BY <1>3, <4>1, <4>5, Zenon DEF SkipsDevIn
    <3> QED BY <3>2, <3>4, <3>5, Zenon
  <2>4. \A s \in Steps : \A e \in owed'[s] :
          LET q == range'[DirectionOf(s)]
          IN  /\ e.seq >= q.seq /\ e.seq < q.seq + q.len
              /\ e.seq >= discardSeq'[DirectionOf(s)]
    BY <1>1, <1>2, <1>3, Zenon DEF OwedIsKept
  <2> QED BY <1>3, <1>4, <1>7, <2>1, <2>2, <2>3, <2>4, Zenon DEF OwedIsKept
<1> QED BY <1>8, <1>9, <1>10, <1>11, <1>12, Zenon DEF IInv

LEMMA FinishRecordIInv ==
  ASSUME IInv, FinishRecord
  PROVE  IInv'
<1>1. OrderedAndBounded /\ Shape /\ Marks /\ TypeOK
  BY Zenon DEF IInv, OrderedAndBounded
<1>2. /\ pc = "lookup" /\ todo = {} /\ pc' = "idle" /\ todo' = todo
      /\ UNCHANGED <<kernEvents, sslEvents, setup, consumed>>
      /\ message' = [dir \in Directions |-> NoRange]
      /\ range' = [dir \in Directions |-> NoRange]
      /\ found' = NoEvents /\ owed' = NoEvents
      /\ discardSeq' = [dir \in Directions |->
                          MarkNeedDiscardSeq(dir, range[dir].seq + range[dir].len)]
      /\ sslDiscardSeq' = IF setup.ssl
           THEN [dir \in Directions |->
                   MarkNeedDiscardSslSeq(dir, message[dir].seq + message[dir].len)]
           ELSE sslDiscardSeq
  BY Zenon DEF FinishRecord
<1>3. \A dir \in Directions :
        /\ discardSeq[dir] \in Nat /\ sslDiscardSeq[dir] \in Nat
        /\ range[dir].seq + range[dir].len \in Int
        /\ message[dir].seq \in Nat /\ message[dir].len \in Nat
        /\ consumed[dir] = message[dir].seq + message[dir].len
  BY <1>1, <1>2 DEF TypeOK, Shape, Marks
<1>4. discardSeq' \in [Directions -> Nat] /\ sslDiscardSeq' \in [Directions -> Nat]
  <2>1. \A dir \in Directions : MarkNeedDiscardSeq(dir, range[dir].seq + range[dir].len) \in Nat
    BY <1>3 DEF MarkNeedDiscardSeq, MaxOf
  <2>2. \A dir \in Directions : MarkNeedDiscardSslSeq(dir, message[dir].seq + message[dir].len) \in Nat
    BY <1>3 DEF MarkNeedDiscardSslSeq, MaxOf
  <2> QED BY <1>1, <1>2, <2>1, <2>2, Zenon DEF TypeOK
<1>5. NoRange \in [seq : Nat, len : Int] /\ NoRange \in [seq : Nat, len : Nat]
  BY DEF NoRange
<1>6. OrderedAndBounded'
  BY <1>1, <1>2, <1>4, <1>5, Zenon DEF OrderedAndBounded, TypeOK
<1>7. Shape'
  <2>1. NoEvents \in [Steps -> SUBSET KernEvent] /\ NoEvents' = NoEvents
    BY Zenon DEF NoEvents
  <2> QED BY <1>1, <1>2, <1>5, <2>1, Zenon DEF Shape
<1>8. Marks'
  <2> SUFFICES ASSUME NEW dir \in Directions
               PROVE  EndsBelow(dir, discardSeq'[dir], consumed[dir])
    BY <1>2, Zenon DEF Marks, Fresh, EndsBelow
  <2>1. /\ EndsBelow(dir, discardSeq[dir], message[dir].seq)
        /\ EndsBelow(dir, range[dir].seq + range[dir].len, consumed[dir])
    BY <1>1, <1>2, Zenon DEF Marks, Fresh
  <2>2. discardSeq'[dir] = discardSeq[dir] \/ discardSeq'[dir] = range[dir].seq + range[dir].len
    BY <1>2, Zenon DEF MarkNeedDiscardSeq, MaxOf
  <2>3. EndsBelow(dir, discardSeq[dir], consumed[dir])
    <3>1. \A e \in SslInputs[dir] : e.seq \in Nat
      BY SslTypes, SslInputsAssumption, Zenon
    <3> QED BY <1>3, <2>1, <3>1 DEF EndsBelow
  <2> QED BY <2>1, <2>2, <2>3, Zenon
<1>9. InOrder' /\ OwedIsKept'
  BY <1>2, Zenon DEF InOrder, OwedIsKept
<1> QED BY <1>6, <1>7, <1>8, <1>9, Zenon DEF IInv

LEMMA StutterIInv ==
  ASSUME IInv, UNCHANGED vars PROVE IInv'
<1> USE DEF vars
<1>1. OrderedAndBounded'
  BY Zenon DEF IInv, OrderedAndBounded, TypeOK
<1>2. Shape'
  BY Zenon DEF IInv, Shape, Lookups, NoEvents
<1>3. Marks'
  BY Zenon DEF IInv, Marks, EndsBelow, Fresh
<1>4. InOrder'
  BY Zenon DEF IInv, InOrder, Lookups, NoEvents
<1>5. OwedIsKept'
  BY Zenon DEF IInv, OwedIsKept, Lookups, EventsOf, SkipsDevIn
<1> QED BY <1>1, <1>2, <1>3, <1>4, <1>5, Zenon DEF IInv

\* The parameters with which Next adds an event are those of the lemmas.
LEMMA StepTypes ==
  ASSUME IInv PROVE setup.steps \subseteq Steps /\ setup.seqs \subseteq Seqs
BY SetupAssumption, Zenon DEF IInv, Shape

LEMMA NextIInv == IInv /\ [Next]_vars => IInv'
<1> SUFFICES ASSUME IInv, [Next]_vars PROVE IInv'
  BY Zenon
<1>1. ASSUME NEW step \in setup.steps, NEW seq \in setup.seqs, NEW len \in Lens,
             NEW iface \in Ifaces, NEW ts \in IF step \in NicSteps THEN Times ELSE {0},
             AddKernEvent(step, seq, len, ts, iface), UNCHANGED recordVars
      PROVE  IInv'
  BY <1>1, StepTypes, AddKernIInv, Zenon
<1>2. ASSUME NEW dir \in Directions, NEW event \in SslInputs[dir],
             AddSslEvent(dir, event), UNCHANGED recordVars
      PROVE  IInv'
  BY <1>2, AddSslIInv, Zenon
<1>3. ASSUME NEW out \in Messages, NEW in \in Messages, BeginRecord(out, in)
      PROVE  IInv'
  BY <1>3, BeginRecordIInv, Zenon
<1>4. CASE LookupSsl("SSL_OUT", "egress") \/ LookupSsl("SSL_IN", "ingress")
  BY <1>4, LookupSslIInv, Zenon
<1>5. ASSUME NEW step \in Steps, LookupKern(step)
      PROVE  IInv'
  BY <1>5, LookupKernIInv, Zenon
<1>6. CASE FinishRecord
  BY <1>6, FinishRecordIInv, Zenon
<1>7. CASE UNCHANGED vars
  BY <1>7, StutterIInv, Zenon
<1> QED BY <1>1, <1>2, <1>3, <1>4, <1>5, <1>6, <1>7, Zenon DEF Next

THEOREM Inductive == Spec => []IInv
BY InitIInv, NextIInv, PTL DEF Spec

-----------------------------------------------------------------------------
(* The properties.                                                         *)

\* The rings and slices of a KernEventStream stay strictly ordered and within their
\* capacity whatever is added and discarded: what AddKernEvent, AddSslEvent and the
\* discards may assume when they search.
THEOREM StreamStaysOrdered == Spec => []OrderedAndBounded
BY Inductive, PTL DEF IInv

\* FindEventsBySeqAndLen answers exactly the events that share a byte with the range.
THEOREM LookupIsExact == Spec => []FindsExactlyOverlaps
<1>1. ASSUME IInv PROVE FindsExactlyOverlaps
  <2> SUFFICES ASSUME NEW step \in setup.steps, NEW r \in [seq : Seqs, len : Lens \ {0}]
               PROVE  FindEventsBySeqAndLen(step, r.seq, r.len)
                        = {e \in EventsOf(step) : Overlaps(e, r)}
    BY Zenon DEF FindsExactlyOverlaps
  <2>1. kernEvents[step] \in Seq(KernEvent) /\ Increasing(kernEvents[step])
    BY <1>1, StepTypes, Zenon DEF IInv, OrderedAndBounded, TypeOK
  <2>2. r = [seq |-> r.seq, len |-> r.len] /\ r.seq \in Nat /\ r.len \in Nat \ {0}
    BY StreamAssumption, Zenon
  <2>3. FindEvents(kernEvents[step], r.seq, r.seq + r.len)
          = {e \in {kernEvents[step][i] : i \in DOMAIN kernEvents[step]} :
               Overlaps(e, [seq |-> r.seq, len |-> r.len])}
    <3>1. r.seq \in Nat /\ r.len \in Nat \ {0}
      BY <2>2, Zenon
    <3> QED BY <2>1, <3>1, FindsOverlaps, Zenon
  <2> QED BY <2>2, <2>3, Zenon DEF FindEventsBySeqAndLen, EventsOf
<1> QED BY <1>1, Inductive, PTL

\* A record is annotated with every event that was there, and began in its bytes,
\* when its lookups began, although the Processor adds and discards in between.
\* Of bytes that TLS events of two records name, the later record may miss the events.
THEOREM AnnotationIsComplete == Spec => []AnnotatedWithAllOwed
<1>1. ASSUME IInv PROVE AnnotatedWithAllOwed
  BY <1>1, Zenon DEF IInv, OwedIsKept, AnnotatedWithAllOwed, Same
<1> QED BY <1>1, Inductive, PTL

\* An add takes away only events that a finished record has marked, and the times an
\* event keeps only move to earlier ones.
THEOREM DiscardsOnlyMarked == Spec => UnmarkedEventsStay
<1> DEFINE Stays(step, e) ==
             \E i \in DOMAIN kernEvents'[step] :
               LET f == kernEvents'[step][i]
               IN  /\ f.seq = e.seq
                   /\ \A iface \in Ifaces : step \in NicSteps /\ e.attributes[iface] # 0 =>
                        f.attributes[iface] \in 1..e.attributes[iface]
           A == \A step \in Steps : \A e \in EventsOf(step) :
                  e.seq >= discardSeq[DirectionOf(step)] => Stays(step, e)
<1>1. ASSUME IInv, [Next]_vars PROVE [A]_vars
  <2>0. RingsOrdered /\ kernEvents \in [Steps -> Seq(KernEvent)]
    BY <1>1, Zenon DEF IInv, OrderedAndBounded, TypeOK, RingsOrdered
  <2>1. CASE kernEvents' = kernEvents
    <3> SUFFICES ASSUME NEW step \in Steps, NEW e \in EventsOf(step) PROVE Stays(step, e)
      BY Zenon
    <3>1. PICK i \in DOMAIN kernEvents[step] : e = kernEvents[step][i]
      BY Zenon DEF EventsOf
    <3>2. e \in KernEvent
      BY <2>0, <3>1
    <3> QED BY <2>1, <3>1, <3>2, KernTypes
  <2>2. ASSUME NEW step \in setup.steps, NEW seq \in setup.seqs, NEW len \in Lens,
               NEW iface \in Ifaces, NEW ts \in IF step \in NicSteps THEN Times ELSE {0},
               AddKernEvent(step, seq, len, ts, iface)
        PROVE  A
    <3> SUFFICES ASSUME NEW s \in Steps, NEW e \in EventsOf(s),
                        e.seq >= discardSeq[DirectionOf(s)]
                 PROVE  Stays(s, e)
      BY Zenon
    <3>1. PICK i \in 1..Len(kernEvents[s]) : e = kernEvents[s][i]
      BY <2>0 DEF EventsOf
    <3>2. PICK j \in 1..Len(kernEvents'[s]) : Evolves(e, kernEvents'[s][j])
      BY <1>1, <2>0, <2>2, <3>1, StepTypes, AddKernKeeps, Zenon
    <3>3. j \in DOMAIN kernEvents'[s]
      <4>1. kernEvents' \in [Steps -> Seq(KernEvent)]
        BY <1>1, <2>0, <2>2, StepTypes, AddKernKeeps
      <4> QED BY <4>1
    <3> QED BY <3>2, <3>3, Zenon DEF Evolves, Same
  <2>3. CASE UNCHANGED vars
    BY <2>3, Zenon
  <2>4. CASE Next
    <3>1. ASSUME NEW dir \in Directions, NEW event \in SslInputs[dir], AddSslEvent(dir, event)
          PROVE  kernEvents' = kernEvents
      BY <3>1, Zenon DEF AddSslEvent
    <3>2. ASSUME NEW out \in Messages, NEW in \in Messages, BeginRecord(out, in)
          PROVE  kernEvents' = kernEvents
      BY <3>2, Zenon DEF BeginRecord, streamVars
    <3>3. ASSUME NEW step, NEW dir, LookupSsl(step, dir)
          PROVE  kernEvents' = kernEvents
      BY <3>3, Zenon DEF LookupSsl, streamVars
    <3>4. ASSUME NEW step \in Steps, LookupKern(step)
          PROVE  kernEvents' = kernEvents
      BY <3>4, Zenon DEF LookupKern, streamVars
    <3>5. ASSUME FinishRecord PROVE kernEvents' = kernEvents
      BY <3>5, Zenon DEF FinishRecord
    <3> HIDE DEF A
    <3> QED BY <2>1, <2>2, <2>4, <3>1, <3>2, <3>3, <3>4, <3>5, Zenon DEF Next
  <2> QED BY <1>1, <2>3, <2>4, Zenon
<1> QED BY <1>1, Inductive, PTL DEF UnmarkedEventsStay, Spec

=============================================================================
