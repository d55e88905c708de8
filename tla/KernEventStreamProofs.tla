----------------------- MODULE KernEventStreamProofs -----------------------
(***************************************************************************)
(* Lemmas about KernEventStream: what a search of an ordered ring answers, *)
(* what discarding and inserting do to its order, and what an add keeps.   *)
(***************************************************************************)
EXTENDS KernEventStream, WellFoundedInduction, TLAPS

\* What the lemmas about sequences of events need to know of an event.
HasSeqs(events) == \A i \in DOMAIN events : events[i].seq \in Nat

-----------------------------------------------------------------------------
(* Sets of positions.                                                      *)

\* A set of natural numbers that is not empty has a least element.
LEMMA Least ==
  ASSUME NEW T \in SUBSET Nat, T # {}
  PROVE  \E x \in T : \A y \in T : x <= y
<1>1. \E x \in T : \A y \in T : ~ (<<y, x>> \in OpToRel(<, Nat))
  BY NatLessThanWellFounded, WFMin, Zenon
<1>2. PICK x \in T : \A y \in T : ~ (<<y, x>> \in OpToRel(<, Nat))
  BY <1>1, Zenon
<1>3. ASSUME NEW y \in T PROVE x <= y
  <2>1. ~(y < x)
    BY <1>2, Zenon DEF OpToRel
  <2> QED BY <2>1
<1> QED BY <1>3, Zenon

\* A bounded one has a greatest element.
LEMMA Greatest ==
  ASSUME NEW n \in Nat, NEW T \in SUBSET (1..n), T # {}
  PROVE  \E x \in T : \A y \in T : y <= x
<1> DEFINE M == {n - y : y \in T}
<1>1. M \in SUBSET Nat
  OBVIOUS
<1>0. M # {}
  <2>1. PICK y \in T : TRUE
    BY Zenon
  <2>2. n - y \in M
    BY <2>1, Zenon
  <2> QED BY <2>2, Zenon
<1>2. PICK x \in M : \A y \in M : x <= y
  <2> HIDE DEF M
  <2> QED BY <1>0, <1>1, Least, Zenon
<1>3. PICK t \in T : x = n - t
  BY Zenon
<1>4. ASSUME NEW y \in T PROVE y <= t
  <2>1. n - t <= n - y
    BY <1>2, <1>3, Zenon
  <2> QED BY <2>1
<1> QED BY <1>4, Zenon

\* A set of positions that holds all positions before one of its own is an interval.
LEMMA InitialSegment ==
  ASSUME NEW n \in Nat, NEW D \in SUBSET (1..n),
         \A i \in 1..n, j \in D : i < j => i \in D
  PROVE  \E r \in 0..n : D = 1..r
<1>1. CASE D = 1..n
  BY <1>1
<1>2. CASE D # 1..n
  <2> DEFINE T == (1..n) \ D
  <2>0. T \in SUBSET Nat
    OBVIOUS
  <2>1. T # {}
    BY <1>2, Zenon
  <2>2. PICK k \in T : \A y \in T : k <= y
    <3> HIDE DEF T
    <3> QED BY <2>0, <2>1, Least, Zenon
  <2>3. ASSUME NEW i \in 1..n PROVE i \in D <=> i <= k - 1
    <3>1. CASE i < k
      BY <2>2, <3>1
    <3>2. CASE i >= k
      BY <2>2, <3>2
    <3> QED BY <3>1, <3>2
  <2>5. D = 1..(k - 1)
    <3>1. ASSUME NEW i \in D PROVE i \in 1..(k - 1)
      BY <2>3
    <3>2. ASSUME NEW i \in 1..(k - 1) PROVE i \in D
      BY <2>3
    <3> QED BY <3>1, <3>2, Zenon
  <2>4. k - 1 \in 0..n
    OBVIOUS
  <2> QED BY <2>4, <2>5, Zenon
<1> QED BY <1>1, <1>2, Zenon

\* Rank, what BinarySearch answers on an ordered ring, cuts it in two: before it
\* are exactly the events with smaller sequence numbers.
LEMMA RankSplits ==
  ASSUME NEW S, NEW events \in Seq(S), HasSeqs(events), Increasing(events),
         NEW seq \in Nat
  PROVE  /\ Rank(events, seq) \in 0..Len(events)
         /\ \A i \in 1..Len(events) : events[i].seq < seq <=> i <= Rank(events, seq)
<1> DEFINE D == {i \in DOMAIN events : events[i].seq < seq}
<1>1. DOMAIN events = 1..Len(events) /\ Len(events) \in Nat
  OBVIOUS
<1>2. \A i \in 1..Len(events), j \in D : i < j => i \in D
  BY <1>1 DEF HasSeqs, Increasing
<1>3. D \in SUBSET (1..Len(events))
  BY <1>1, Zenon
<1>4. PICK r \in 0..Len(events) : D = 1..r
  <2> HIDE DEF D
  <2> QED BY <1>1, <1>2, <1>3, InitialSegment, Zenon
<1>5. \A i \in 1..Len(events) : events[i].seq < seq <=> i \in D
  BY <1>1, Zenon
<1> HIDE DEF D
<1>6. \A i \in DOMAIN events : events[i].seq < seq <=> i <= r
  BY <1>1, <1>4, <1>5
<1> QED BY <1>1, <1>6, Zenon DEF Rank

-----------------------------------------------------------------------------
(* What discarding and inserting do to an ordered ring or slice.           *)

\* The end of an ordered sequence is ordered.
LEMMA SuffixOrdered ==
  ASSUME NEW S, NEW events \in Seq(S), HasSeqs(events), Increasing(events),
         NEW m \in 1..(Len(events) + 1)
  PROVE  LET t == SubSeq(events, m, Len(events))
         IN  /\ t \in Seq(S)
             /\ Len(t) = Len(events) - m + 1
             /\ \A i \in 1..Len(t) : t[i] = events[m + i - 1]
             /\ Increasing(t)
<1> DEFINE t == SubSeq(events, m, Len(events))
<1>1. DOMAIN events = 1..Len(events) /\ Len(events) \in Nat
  OBVIOUS
<1>2. \A i \in m..Len(events) : events[i] \in S
  BY <1>1
<1>3. /\ t \in Seq(S)
      /\ Len(t) = IF m <= Len(events) THEN Len(events) - m + 1 ELSE 0
      /\ \A i \in 1..(Len(events) - m + 1) : t[i] = events[m + i - 1]
  BY <1>1, <1>2
<1> HIDE DEF t
<1>4. Len(t) = Len(events) - m + 1
  BY <1>1, <1>3
<1>5. \A i \in 1..Len(t) : t[i] = events[m + i - 1]
  BY <1>3, <1>4, Zenon
<1>6. Increasing(t)
  <2> SUFFICES ASSUME NEW i \in DOMAIN t, NEW j \in DOMAIN t, i < j
               PROVE  t[i].seq < t[j].seq
    BY Zenon DEF Increasing
  <2>1. i \in 1..Len(t) /\ j \in 1..Len(t)
    BY <1>3
  <2>2. m + i - 1 \in DOMAIN events /\ m + j - 1 \in DOMAIN events /\ m + i - 1 < m + j - 1
    BY <1>1, <1>4, <2>1
  <2>3. events[m + i - 1].seq < events[m + j - 1].seq
    BY <2>2, Zenon DEF Increasing
  <2> QED BY <1>5, <2>1, <2>3, Zenon
<1> QED BY <1>3, <1>4, <1>5, <1>6, Zenon DEF t

\* The events discardEventsBySeq leaves are ordered, and it takes none at or above
\* the sequence number.
LEMMA DiscardOrdered ==
  ASSUME NEW S, NEW events \in Seq(S), HasSeqs(events), Increasing(events),
         NEW seq \in Nat
  PROVE  LET t == discardEventsBySeq(events, seq)
         IN  /\ t \in Seq(S)
             /\ Len(t) <= Len(events)
             /\ Increasing(t)
             /\ \A i \in 1..Len(events) :
                  events[i].seq >= seq => \E j \in 1..Len(t) : t[j] = events[i]
<1> DEFINE r == Rank(events, seq)
           t == discardEventsBySeq(events, seq)
           u == SubSeq(events, r + 1, Len(events))
<1>1. /\ DOMAIN events = 1..Len(events)
      /\ Len(events) \in Nat
  OBVIOUS
<1>2. /\ r \in 0..Len(events)
      /\ \A i \in 1..Len(events) : events[i].seq < seq <=> i <= r
  BY RankSplits, Zenon
<1> HIDE DEF r
<1>3. CASE r > 0 /\ r < Len(events)
  <2>1. t = u
    BY <1>3, Zenon DEF discardEventsBySeq, DiscardBeforeIndex, r
  <2>2. r + 1 \in 1..(Len(events) + 1)
    BY <1>1, <1>2
  <2>3. /\ u \in Seq(S)
        /\ Len(u) = Len(events) - (r + 1) + 1
        /\ \A i \in 1..Len(u) : u[i] = events[(r + 1) + i - 1]
        /\ Increasing(u)
    BY <2>2, SuffixOrdered, Zenon
  <2> HIDE DEF t, u
  <2>4. ASSUME NEW i \in 1..Len(events), events[i].seq >= seq
        PROVE  \E j \in 1..Len(u) : u[j] = events[i]
    <3>1. i > r
      <4>1. events[i].seq \in Nat
        BY <1>1, Zenon DEF HasSeqs
      <4> QED BY <1>2, <2>4, <4>1
    <3>2. i - r \in 1..Len(u) /\ (r + 1) + (i - r) - 1 = i
      BY <1>1, <1>2, <2>3, <3>1
    <3>3. u[i - r] = events[i]
      BY <2>3, <3>2, Zenon
    <3> QED BY <3>2, <3>3, Zenon
  <2>5. Len(u) <= Len(events)
    BY <1>1, <1>2, <2>3
  <2> QED BY <2>1, <2>3, <2>4, <2>5, Zenon DEF t
<1>4. CASE ~(r > 0 /\ r < Len(events))
  <2>1. t = events
    BY <1>4, Zenon DEF discardEventsBySeq, DiscardBeforeIndex, r
  <2> QED BY <1>1, <2>1
<1> QED BY <1>3, <1>4, Zenon

\* An event that is put in its place leaves the ring ordered, and is in it with all
\* that were there.
LEMMA InsertOrdered ==
  ASSUME NEW S, NEW events \in Seq(S), HasSeqs(events), Increasing(events),
         NEW e \in S, e.seq \in Nat, ~Found(events, e.seq)
  PROVE  LET t == InsertAt(events, Rank(events, e.seq), e)
         IN  /\ t \in Seq(S)
             /\ Len(t) = Len(events) + 1
             /\ Increasing(t)
             /\ \A i \in 1..Len(events) : \E j \in 1..Len(t) : t[j] = events[i]
<1> DEFINE r == Rank(events, e.seq)
           t == InsertAt(events, r, e)
           n == Len(events) + 1
<1>1. DOMAIN events = 1..Len(events) /\ Len(events) \in Nat /\ \A i \in 1..Len(events) : events[i] \in S
  OBVIOUS
<1>2. /\ r \in 0..Len(events)
      /\ \A i \in 1..Len(events) : events[i].seq < e.seq <=> i <= r
  BY RankSplits, Zenon
<1>3. ASSUME NEW i \in 1..Len(events) PROVE i > r => e.seq < events[i].seq
  BY <1>1, <1>2 DEF HasSeqs, Found
<1> HIDE DEF r
<1>4. t = [i \in 1..n |-> IF i <= r THEN events[i] ELSE IF i = r + 1 THEN e ELSE events[i - 1]]
  BY Zenon DEF InsertAt
<1> HIDE DEF t
<1>5. n \in Nat /\ t \in [1..n -> S]
  <2>1. ASSUME NEW i \in 1..n
        PROVE  (IF i <= r THEN events[i] ELSE IF i = r + 1 THEN e ELSE events[i - 1]) \in S
    <3>1. CASE i <= r
      BY <1>1, <1>2, <3>1
    <3>2. CASE i > r + 1
      <4>1. i - 1 \in 1..Len(events)
        BY <1>1, <1>2, <3>2
      <4> QED BY <1>1, <1>2, <3>2, <4>1
    <3>3. CASE i = r + 1
      BY <1>1, <1>2, <3>3
    <3> QED BY <1>1, <1>2, <3>1, <3>2, <3>3
  <2> QED BY <1>1, <1>4, <2>1
<1>6. t \in Seq(S) /\ Len(t) = n /\ DOMAIN t = 1..n
  BY <1>5
<1>7. Increasing(t)
  <2> SUFFICES ASSUME NEW i \in 1..n, NEW j \in 1..n, i < j
               PROVE  t[i].seq < t[j].seq
    BY <1>6, Zenon DEF Increasing
  <2>1. \A k \in 1..Len(events) : events[k].seq \in Nat
    BY <1>1, Zenon DEF HasSeqs
  <2>2. \A k, l \in 1..Len(events) : k < l => events[k].seq < events[l].seq
    BY <1>1, Zenon DEF Increasing
  <2>3. CASE j <= r
    BY <1>1, <1>2, <1>4, <2>2, <2>3
  <2>4. CASE j = r + 1
    <3>1. i \in 1..Len(events) /\ i <= r
      BY <1>1, <1>2, <2>4
    <3> QED BY <1>2, <1>4, <2>4, <3>1
  <2>5. CASE j > r + 1 /\ i <= r
    <3>1. i \in 1..Len(events) /\ j - 1 \in 1..Len(events) /\ i < j - 1
      BY <1>1, <1>2, <2>5
    <3>2. t[i] = events[i] /\ t[j] = events[j - 1]
      BY <1>2, <1>4, <2>5
    <3> QED BY <2>2, <3>1, <3>2, Zenon
  <2>6. CASE j > r + 1 /\ i = r + 1
    <3>1. j - 1 \in 1..Len(events) /\ j - 1 > r
      BY <1>1, <1>2, <2>6
    <3>2. t[i] = e /\ t[j] = events[j - 1]
      BY <1>2, <1>4, <2>6
    <3> QED BY <1>3, <3>1, <3>2, Zenon
  <2>7. CASE j > r + 1 /\ i > r + 1
    <3>1. i - 1 \in 1..Len(events) /\ j - 1 \in 1..Len(events) /\ i - 1 < j - 1
      BY <1>1, <1>2, <2>7
    <3>2. t[i] = events[i - 1] /\ t[j] = events[j - 1]
      BY <1>2, <1>4, <2>7
    <3> QED BY <2>2, <3>1, <3>2, Zenon
  <2> QED BY <1>2, <2>3, <2>4, <2>5, <2>6, <2>7
<1>8. ASSUME NEW i \in 1..Len(events) PROVE \E j \in 1..n : t[j] = events[i]
  <2>1. CASE i <= r
    <3>1. i \in 1..n /\ t[i] = events[i]
      BY <1>1, <1>2, <1>4, <2>1
    <3> QED BY <3>1, Zenon
  <2>2. CASE i > r
    <3>1. i + 1 \in 1..n /\ t[i + 1] = events[i]
      BY <1>1, <1>2, <1>4, <2>2
    <3> QED BY <3>1, Zenon
  <2> QED BY <1>2, <2>1, <2>2
<1> QED BY <1>6, <1>7, <1>8, Zenon DEF t, r

-----------------------------------------------------------------------------
(* Adding an event.                                                        *)

\* The rings, and the slices, in the order their searches rely on.
RingsOrdered ==
  /\ kernEvents \in [Steps -> Seq(KernEvent)]
  /\ discardSeq \in [Directions -> Nat]
  /\ \A step \in Steps : Increasing(kernEvents[step]) /\ Len(kernEvents[step]) <= maxLen

SlicesOrdered ==
  /\ sslEvents \in [Directions -> Seq(SslEvent)]
  /\ sslDiscardSeq \in [Directions -> Nat]
  /\ \A dir \in Directions : /\ sslEvents[dir] \in Seq(SslInputs[dir])
                             /\ Increasing(sslEvents[dir])
                             /\ Len(sslEvents[dir]) <= maxLen

Same(e, f) == f.seq = e.seq /\ f.len = e.len

LEMMA KernTypes ==
  \A e \in KernEvent : /\ e.seq \in Nat \ {0} /\ e.len \in Nat \ {0}
                       /\ e.attributes \in [Ifaces -> Nat]
<1> SUFFICES ASSUME NEW e \in KernEvent
             PROVE  /\ e.seq \in Nat \ {0} /\ e.len \in Nat \ {0}
                    /\ e.attributes \in [Ifaces -> Nat]
  BY Zenon
<1>1. Seqs \subseteq Nat \ {0} /\ Lens \subseteq Nat /\ Times \cup {0} \subseteq Nat
  BY StreamAssumption
<1>2. e.seq \in Seqs /\ e.len \in Lens \ {0} /\ e.attributes \in [Ifaces -> Times \cup {0}]
  BY Zenon DEF KernEvent
<1> QED BY <1>1, <1>2, Zenon

LEMMA SslTypes ==
  \A e \in SslEvent : e.seq \in Nat \ {0} /\ e.kernSeq \in Nat /\ e.kernLen \in Nat
<1> SUFFICES ASSUME NEW e \in SslEvent
             PROVE  e.seq \in Nat \ {0} /\ e.kernSeq \in Nat /\ e.kernLen \in Nat
  BY Zenon
<1>1. Seqs \subseteq Nat \ {0} /\ Seqs \cup {0} \subseteq Nat /\ Lens \subseteq Nat
  BY StreamAssumption
<1>2. e.seq \in Seqs /\ e.kernSeq \in Seqs \cup {0} /\ e.kernLen \in Lens
  BY Zenon DEF SslEvent
<1> QED BY <1>1, <1>2, Zenon

LEMMA KernHasSeqs ==
  ASSUME NEW s \in Seq(KernEvent) PROVE HasSeqs(s)
BY KernTypes DEF HasSeqs

LEMMA SslHasSeqs ==
  ASSUME NEW dir \in Directions, NEW s \in Seq(SslInputs[dir])
  PROVE  HasSeqs(s)
<1>1. SslInputs[dir] \subseteq SslEvent
  BY SslInputsAssumption, Zenon
<1> QED BY <1>1, SslTypes DEF HasSeqs

\* What may become of a kept event: its times move to earlier ones.
Evolves(e, f) ==
  /\ Same(e, f)
  /\ \A iface \in Ifaces :
       e.attributes[iface] # 0 => f.attributes[iface] \in 1..e.attributes[iface]

LEMMA EvolvesItself ==
  ASSUME NEW e \in KernEvent PROVE Evolves(e, e)
BY KernTypes DEF Evolves, Same

LEMMA UpdateEvolves ==
  ASSUME NEW e \in KernEvent, NEW iface \in Ifaces, NEW ts \in Times
  PROVE  LET f == UpdateIfTimestampAttr(e, iface, ts)
         IN  f \in KernEvent /\ Evolves(e, f)
<1> DEFINE f == UpdateIfTimestampAttr(e, iface, ts)
<1>1. ts \in Nat \ {0} /\ e.attributes \in [Ifaces -> Times \cup {0}] /\ e.attributes \in [Ifaces -> Nat]
  BY StreamAssumption, KernTypes, Zenon DEF KernEvent
<1>2. CASE e.attributes[iface] # 0 /\ e.attributes[iface] < ts
  <2>1. f = e
    BY <1>2, Zenon DEF UpdateIfTimestampAttr
  <2> QED BY <2>1, EvolvesItself, Zenon
<1>3. CASE ~(e.attributes[iface] # 0 /\ e.attributes[iface] < ts)
  <2>1. f = [e EXCEPT !.attributes[iface] = ts]
    BY <1>3, Zenon DEF UpdateIfTimestampAttr
  <2>2. f \in KernEvent
    BY <1>1, <2>1, Zenon DEF KernEvent
  <2>3. f.seq = e.seq /\ f.len = e.len /\ f.attributes = [e.attributes EXCEPT ![iface] = ts]
    BY <2>1, Zenon DEF KernEvent
  <2>4. ASSUME NEW i \in Ifaces, e.attributes[i] # 0
        PROVE  f.attributes[i] \in 1..e.attributes[i]
    BY <1>1, <1>3, <2>3, <2>4
  <2> QED BY <2>2, <2>3, <2>4, Zenon DEF Evolves, Same
<1> QED BY <1>2, <1>3, Zenon

\* Rings as discardEventsIfNeeded leaves them.
LEMMA DiscardIfNeeded ==
  ASSUME RingsOrdered, NEW s \in Steps
  PROVE  LET t == discardEventsIfNeeded[s]
         IN  /\ t \in Seq(KernEvent)
             /\ Len(t) <= maxLen
             /\ Increasing(t)
             /\ \A i \in 1..Len(kernEvents[s]) :
                  kernEvents[s][i].seq >= discardSeq[DirectionOf(s)]
                    => \E j \in 1..Len(t) : t[j] = kernEvents[s][i]
<1> DEFINE d == discardSeq[DirectionOf(s)]
           ring == kernEvents[s]
<1>1. ring \in Seq(KernEvent) /\ Increasing(ring) /\ Len(ring) <= maxLen /\ Len(ring) \in Nat
  BY DEF RingsOrdered
<1>2. d \in Nat
  BY Zenon DEF RingsOrdered, DirectionOf, Directions
<1>3. HasSeqs(ring)
  BY <1>1, KernHasSeqs, Zenon
<1>4. discardEventsIfNeeded[s] = IF d # 0 THEN discardEventsBySeq(ring, d) ELSE ring
  BY Zenon DEF discardEventsIfNeeded
<1> HIDE DEF ring, d
<1>5. CASE d # 0
  <2> DEFINE t == discardEventsBySeq(ring, d)
  <2>1. /\ t \in Seq(KernEvent)
        /\ Len(t) <= Len(ring)
        /\ Increasing(t)
        /\ \A i \in 1..Len(ring) : ring[i].seq >= d => \E j \in 1..Len(t) : t[j] = ring[i]
    BY <1>1, <1>2, <1>3, DiscardOrdered, Zenon
  <2> HIDE DEF t
  <2>2. Len(t) <= maxLen
    BY <1>1, <2>1, StreamAssumption
  <2> QED BY <1>4, <1>5, <2>1, <2>2, Zenon DEF t, ring, d
<1>6. CASE d = 0
  BY <1>1, <1>4, <1>6, Zenon DEF ring, d
<1> QED BY <1>5, <1>6, Zenon

\* AddKernEvent keeps every ring ordered and bounded, and every event that is not
\* below the mark of its direction.
LEMMA AddKernKeeps ==
  ASSUME RingsOrdered,
         NEW step \in Steps, NEW seq \in Seqs, NEW len \in Lens, NEW iface \in Ifaces,
         NEW ts \in IF step \in NicSteps THEN Times ELSE {0},
         AddKernEvent(step, seq, len, ts, iface)
  PROVE  /\ kernEvents' \in [Steps -> Seq(KernEvent)]
         /\ \A s \in Steps :
              /\ Increasing(kernEvents'[s])
              /\ Len(kernEvents'[s]) <= maxLen
              /\ \A i \in 1..Len(kernEvents[s]) :
                   kernEvents[s][i].seq >= discardSeq[DirectionOf(s)]
                     => \E j \in 1..Len(kernEvents'[s]) :
                          Evolves(kernEvents[s][i], kernEvents'[s][j])
<1> DEFINE discarded == discardEventsIfNeeded
           events == discarded[step]
           index == Rank(events, seq)
           stored == IF step \in NicSteps
                     THEN UpdateIfTimestampAttr(NewKernEvent(seq, len), iface, ts)
                     ELSE NewKernEvent(seq, len)
           added == IF ~HasData(len) THEN events
                    ELSE IF Found(events, seq)
                    THEN IF step \in NicSteps
                         THEN [events EXCEPT ![index + 1] = UpdateIfTimestampAttr(@, iface, ts)]
                         ELSE events
                    ELSE IF Len(events) = maxLen THEN events
                    ELSE InsertAt(events, index, stored)
<1>0. maxLen \in Nat /\ seq \in Nat /\ len \in Nat
  BY StreamAssumption, Zenon
<1>1. kernEvents' = [discarded EXCEPT ![step] = added]
  BY Zenon DEF AddKernEvent
<1>2. \A s \in Steps : kernEvents[s] \in Seq(KernEvent)
  BY Zenon DEF RingsOrdered
<1>3. DOMAIN discarded = Steps
  BY Zenon DEF discardEventsIfNeeded
<1>4. \A s \in Steps :
        /\ discarded[s] \in Seq(KernEvent)
        /\ Len(discarded[s]) <= maxLen
        /\ Increasing(discarded[s])
        /\ \A i \in 1..Len(kernEvents[s]) :
             kernEvents[s][i].seq >= discardSeq[DirectionOf(s)]
               => \E j \in 1..Len(discarded[s]) : discarded[s][j] = kernEvents[s][i]
  BY DiscardIfNeeded, Zenon
<1>5. /\ events \in Seq(KernEvent) /\ Len(events) \in Nat /\ DOMAIN events = 1..Len(events)
      /\ Len(events) <= maxLen
      /\ Increasing(events) /\ HasSeqs(events)
  BY <1>4, KernHasSeqs
<1> HIDE DEF discarded
<1>6. /\ added \in Seq(KernEvent)
      /\ Len(added) <= maxLen
      /\ Increasing(added)
      /\ \A i \in 1..Len(events) : \E j \in 1..Len(added) : Evolves(events[i], added[j])
  <2> HIDE DEF events
  <2>1. CASE added = events
    <3>1. \A i \in 1..Len(events) : Evolves(events[i], events[i])
      BY <1>5, EvolvesItself
    <3> QED BY <1>5, <2>1, <3>1, Zenon
  <2>2. CASE /\ HasData(len) /\ Found(events, seq) /\ step \in NicSteps
    <3>1. /\ index \in 0..Len(events)
          /\ \A i \in 1..Len(events) : events[i].seq < seq <=> i <= index
      BY <1>0, <1>5, RankSplits, Zenon
    <3>2. PICK k \in 1..Len(events) : events[k].seq = seq
      BY <1>5, <2>2, Zenon DEF Found
    <3> DEFINE u == UpdateIfTimestampAttr(events[index + 1], iface, ts)
    <3>3. added = [events EXCEPT ![index + 1] = u]
      BY <2>2, Zenon
    <3> HIDE DEF index, added
    <3>4. index + 1 \in 1..Len(events)
      BY <1>0, <1>5, <3>1, <3>2
    <3>5. ts \in Times /\ events[index + 1] \in KernEvent
      BY <1>5, <2>2, <3>4
    <3>6. u \in KernEvent /\ Evolves(events[index + 1], u)
      BY <3>5, UpdateEvolves, Zenon
    <3> HIDE DEF u
    <3>7. /\ added \in Seq(KernEvent)
          /\ Len(added) = Len(events)
          /\ \A j \in 1..Len(events) : added[j] = IF j = index + 1 THEN u ELSE events[j]
      BY <1>5, <3>3, <3>4, <3>6
    <3>8. \A i \in 1..Len(events) : Evolves(events[i], added[i])
      BY <1>5, <3>6, <3>7, EvolvesItself
    <3>9. Increasing(added)
      <4>1. \A i \in 1..Len(events) : added[i].seq = events[i].seq
        BY <3>8, Zenon DEF Evolves, Same
      <4>2. DOMAIN added = 1..Len(events)
        BY <3>7
      <4> QED BY <1>5, <4>1, <4>2 DEF Increasing
    <3> QED BY <1>5, <3>7, <3>8, <3>9, Zenon
  <2>3. CASE HasData(len) /\ ~Found(events, seq) /\ ~(Len(events) = maxLen)
    <3>1. NewKernEvent(seq, len) \in KernEvent /\ NewKernEvent(seq, len).seq = seq
      BY <2>3, <1>0 DEF NewKernEvent, KernEvent, HasData
    <3>2. stored \in KernEvent /\ stored.seq = seq
      BY <3>1, UpdateEvolves, Zenon DEF Evolves, Same
    <3>3. added = InsertAt(events, Rank(events, stored.seq), stored)
      BY <2>3, <3>2, Zenon
    <3>8. stored.seq \in Nat /\ ~Found(events, stored.seq)
      BY <1>0, <2>3, <3>2, Zenon
    <3> HIDE DEF added, stored
    <3>4. /\ added \in Seq(KernEvent)
          /\ Len(added) = Len(events) + 1
          /\ Increasing(added)
          /\ \A i \in 1..Len(events) : \E j \in 1..Len(added) : added[j] = events[i]
      BY <1>5, <3>2, <3>3, <3>8, InsertOrdered
    <3>5. \A i \in 1..Len(events) : Evolves(events[i], events[i])
      BY <1>5, EvolvesItself
    <3>9. Len(events) < maxLen
      <4>1. Len(events) \in Nat /\ Len(events) <= maxLen
        BY <1>5, Zenon
      <4> QED BY <1>0, <2>3, <4>1
    <3>6. Len(added) <= maxLen
      BY <1>0, <1>5, <3>4, <3>9
    <3>7. ASSUME NEW i \in 1..Len(events)
          PROVE  \E j \in 1..Len(added) : Evolves(events[i], added[j])
      <4>1. PICK j \in 1..Len(added) : added[j] = events[i]
        BY <3>4, Zenon
      <4> QED BY <3>5, <4>1, Zenon
    <3> QED BY <3>4, <3>6, <3>7, Zenon
  <2> QED BY <2>1, <2>2, <2>3, Zenon
<1> HIDE DEF added
<1>7. ASSUME NEW s \in Steps
      PROVE  /\ kernEvents'[s] \in Seq(KernEvent)
             /\ Increasing(kernEvents'[s])
             /\ Len(kernEvents'[s]) <= maxLen
             /\ \A i \in 1..Len(kernEvents[s]) :
                   kernEvents[s][i].seq >= discardSeq[DirectionOf(s)]
                     => \E j \in 1..Len(kernEvents'[s]) :
                          Evolves(kernEvents[s][i], kernEvents'[s][j])
  <2>1. CASE s # step
    <3>1. kernEvents'[s] = discarded[s]
      BY <1>1, <1>3, <2>1, Zenon
    <3>2. \A i \in 1..Len(kernEvents[s]) : Evolves(kernEvents[s][i], kernEvents[s][i])
      BY <1>2, EvolvesItself
    <3>3. ASSUME NEW i \in 1..Len(kernEvents[s]),
                 kernEvents[s][i].seq >= discardSeq[DirectionOf(s)]
          PROVE  \E j \in 1..Len(discarded[s]) : Evolves(kernEvents[s][i], discarded[s][j])
      <4>1. PICK j \in 1..Len(discarded[s]) : discarded[s][j] = kernEvents[s][i]
        BY <1>4, <3>3, Zenon
      <4> QED BY <3>2, <4>1, Zenon
    <3> QED BY <1>4, <3>1, <3>3, Zenon
  <2>2. CASE s = step
    <3>1. kernEvents'[s] = added
      BY <1>1, <1>3, <2>2, Zenon
    <3>2. ASSUME NEW i \in 1..Len(kernEvents[s]),
                 kernEvents[s][i].seq >= discardSeq[DirectionOf(s)]
          PROVE  \E j \in 1..Len(added) : Evolves(kernEvents[s][i], added[j])
      <4>1. PICK k \in 1..Len(events) : events[k] = kernEvents[s][i]
        BY <1>4, <2>2, <3>2, Zenon
      <4> QED BY <1>6, <4>1, Zenon
    <3> QED BY <1>6, <3>1, <3>2, Zenon
  <2> QED BY <2>1, <2>2, Zenon
<1>8. kernEvents' \in [Steps -> Seq(KernEvent)]
  BY <1>1, <1>3, <1>4, <1>6, Zenon
<1> QED BY <1>7, <1>8, Zenon

\* AddSslEvent keeps the slices ordered and bounded.
LEMMA AddSslKeeps ==
  ASSUME SlicesOrdered, NEW dir \in Directions, NEW event \in SslInputs[dir],
         AddSslEvent(dir, event)
  PROVE  /\ sslEvents' \in [Directions -> Seq(SslEvent)]
         /\ \A d \in Directions : /\ sslEvents'[d] \in Seq(SslInputs[d])
                                  /\ Increasing(sslEvents'[d])
                                  /\ Len(sslEvents'[d]) <= maxLen
<1> DEFINE S == SslInputs[dir]
           old == sslEvents[dir]
           cut == discardSslEventsBySeq(old, sslDiscardSeq[dir])
           events == IF sslDiscardSeq[dir] # 0 THEN cut ELSE old
           longer == InsertAt(events, Rank(events, event.seq), event)
           added == IF Found(events, event.seq) THEN events ELSE Newest(longer)
<1>1. sslEvents' = [sslEvents EXCEPT ![dir] = added]
  BY Zenon DEF AddSslEvent
<1>2. /\ old \in Seq(S) /\ Increasing(old) /\ Len(old) <= maxLen /\ HasSeqs(old)
      /\ sslDiscardSeq[dir] \in Nat /\ maxLen \in Nat \ {0} /\ event.seq \in Nat
  BY SslHasSeqs, SslTypes, StreamAssumption, SslInputsAssumption, Zenon DEF SlicesOrdered
<1>3. sslEvents \in [Directions -> Seq(SslEvent)]
  BY Zenon DEF SlicesOrdered
<1>4. /\ events \in Seq(S) /\ Increasing(events) /\ Len(events) <= maxLen /\ HasSeqs(events)
  <2>1. CASE sslDiscardSeq[dir] = 0
    BY <1>2, <2>1, Zenon
  <2>2. CASE sslDiscardSeq[dir] # 0
    <3> DEFINE r == Rank(old, sslDiscardSeq[dir])
    <3>1. r \in 0..Len(old) /\ Len(old) \in Nat
      <4> HIDE DEF old, S
      <4>1. Len(old) \in Nat
        BY <1>2
      <4>2. r \in 0..Len(old)
        BY <1>2, RankSplits, Zenon
      <4> QED BY <4>1, <4>2, Zenon
    <3>2. cut = SubSeq(old, r + 1, Len(old))
      BY Zenon DEF discardSslEventsBySeq
    <3> HIDE DEF r
    <3>3. r + 1 \in 1..(Len(old) + 1)
      BY <3>1
    <3>4. cut \in Seq(S) /\ Len(cut) = Len(old) - (r + 1) + 1 /\ Increasing(cut)
      BY <1>2, <3>2, <3>3, SuffixOrdered
    <3> HIDE DEF cut, old
    <3>5. Len(cut) <= maxLen
      BY <1>2, <3>1, <3>4
    <3>6. HasSeqs(cut)
      BY <3>4, SslHasSeqs, Zenon
    <3> QED BY <2>2, <3>4, <3>5, <3>6, Zenon
  <2> QED BY <2>1, <2>2, Zenon
<1> HIDE DEF events
<1>5. /\ added \in Seq(S) /\ Increasing(added) /\ Len(added) <= maxLen
  <2>1. CASE Found(events, event.seq)
    BY <1>4, <2>1, Zenon
  <2>2. CASE ~Found(events, event.seq)
    <3>1. longer \in Seq(S) /\ Len(longer) = Len(events) + 1 /\ Increasing(longer)
      BY <1>2, <1>4, <2>2, InsertOrdered, Zenon
    <3> HIDE DEF longer, S
    <3>2. added = Newest(longer)
      BY <2>2, Zenon
    <3>3. CASE Len(longer) > maxLen
      <4> DEFINE m == Len(longer) - maxLen + 1
      <4>1. added = SubSeq(longer, m, Len(longer))
        BY <3>2, <3>3, Zenon DEF Newest
      <4>2. m \in 1..(Len(longer) + 1) /\ Len(longer) \in Nat
        BY <1>2, <3>1, <3>3
      <4>3. HasSeqs(longer)
        BY <3>1, SslHasSeqs, Zenon DEF S
      <4> HIDE DEF m, added
      <4>4. added \in Seq(S) /\ Len(added) = Len(longer) - m + 1 /\ Increasing(added)
        BY <3>1, <4>1, <4>2, <4>3, SuffixOrdered, Zenon
      <4>5. Len(added) <= maxLen
        BY <1>2, <4>2, <4>4 DEF m
      <4> QED BY <4>4, <4>5, Zenon
    <3>4. CASE ~(Len(longer) > maxLen)
      <4>1. added = longer
        BY <3>2, <3>4, Zenon DEF Newest
      <4>2. Len(longer) \in Nat
        BY <3>1
      <4> HIDE DEF added
      <4> QED BY <1>2, <3>1, <3>4, <4>1, <4>2
    <3> QED BY <3>3, <3>4, Zenon
  <2> QED BY <2>1, <2>2, Zenon
<1> HIDE DEF added
<1>6. added \in Seq(SslEvent)
  <2>1. S \subseteq SslEvent
    BY SslInputsAssumption, Zenon
  <2> HIDE DEF S
  <2> QED BY <1>5, <2>1
<1>7. ASSUME NEW d \in Directions
      PROVE  /\ sslEvents'[d] \in Seq(SslInputs[d])
             /\ Increasing(sslEvents'[d])
             /\ Len(sslEvents'[d]) <= maxLen
  <2>1. CASE d = dir
    BY <1>1, <1>3, <1>5, <2>1, Zenon
  <2>2. CASE d # dir
    <3>1. sslEvents'[d] = sslEvents[d]
      BY <1>1, <1>3, <2>2, Zenon
    <3> QED BY <3>1, Zenon DEF SlicesOrdered
  <2> QED BY <2>1, <2>2, Zenon
<1>8. sslEvents' \in [Directions -> Seq(SslEvent)]
  BY <1>1, <1>3, <1>6, Zenon
<1> QED BY <1>7, <1>8, Zenon

-----------------------------------------------------------------------------
(* Looking events up.                                                      *)

\* On an ordered ring the three tests of the lookup loop and its early stop together
\* select the events that share a byte with the range.
LEMMA FindsOverlaps ==
  ASSUME NEW ring \in Seq(KernEvent), Increasing(ring), NEW start \in Nat, NEW n \in Nat \ {0}
  PROVE  FindEvents(ring, start, start + n)
           = {e \in {ring[i] : i \in DOMAIN ring} : Overlaps(e, [seq |-> start, len |-> n])}
<1> DEFINE end == start + n
           R == [seq |-> start, len |-> n]
<1>1. \A i \in DOMAIN ring : ring[i].seq \in Nat /\ ring[i].len \in Nat \ {0}
  BY KernTypes
<1>2. ASSUME NEW i \in DOMAIN ring
      PROVE  Hit(ring[i], start, end) <=> Overlaps(ring[i], R)
  BY <1>1 DEF Hit, Overlaps
<1>3. ASSUME NEW i \in DOMAIN ring, Overlaps(ring[i], R), NEW j \in 1..(i - 1)
      PROVE  ~Stops(ring[j], start, end)
  <2>1. j \in DOMAIN ring /\ j < i
    OBVIOUS
  <2>2. ring[j].seq < ring[i].seq /\ ring[i].seq < end
    BY <1>3, <2>1, Zenon DEF Increasing, Overlaps
  <2> QED BY <1>1, <2>1, <2>2 DEF Stops
<1>4. {i \in DOMAIN ring : /\ Hit(ring[i], start, end)
                           /\ \A j \in 1..(i - 1) : ~Stops(ring[j], start, end)}
        = {i \in DOMAIN ring : Overlaps(ring[i], R)}
  BY <1>2, <1>3, Zenon
<1>5. FindEvents(ring, start, end) = {ring[i] : i \in {i \in DOMAIN ring : Overlaps(ring[i], R)}}
  BY <1>4, Zenon DEF FindEvents
<1> QED BY <1>5, Zenon
=============================================================================
