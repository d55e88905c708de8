----------------------------- MODULE RingBuffer -----------------------------
(***************************************************************************)
(* common/ringbuffer.go: a ring of size slots with start, end and isFull.  *)
(* One action per method; result is what the call returned.  The temporary *)
(* event queues of a Processor and the per-step event rings of a           *)
(* KernEventStream are instances of this ring.                             *)
(***************************************************************************)
EXTENDS Integers, Sequences, FiniteSets

CONSTANTS size, Values, Nil

ASSUME RingAssumption == size \in Nat \ {0} /\ Nil \notin Values

VARIABLES data, start, end, isFull, result

ring == <<data, start, end, isFull>>
vars == <<data, start, end, isFull, result>>

Slots == 0..(size - 1)

\* The indices callers pass; one below and two above the ring included.
Indices == -1..(size + 1)

Ok(v)  == <<"ok", v>>
Err(e) == <<e, Nil>>

\* The slot d places after slot s.
At(s, d) == (s + d) % size

IsEmpty == ~isFull /\ start = end

Size == IF isFull THEN size
        ELSE IF end >= start THEN end - start
        ELSE size - start + end

Init ==
  /\ data = [k \in Slots |-> Nil]
  /\ start = 0
  /\ end = 0
  /\ isFull = FALSE
  /\ result = Ok(Nil)

Write(v) ==
  \/ /\ isFull
     /\ result' = Err("full")
     /\ UNCHANGED ring
  \/ /\ ~isFull
     /\ data' = [data EXCEPT ![end] = v]
     /\ end' = At(end, 1)
     /\ isFull' = (At(end, 1) = start)
     /\ result' = Ok(Nil)
     /\ UNCHANGED start

Read ==
  \/ /\ IsEmpty
     /\ result' = Err("empty")
     /\ UNCHANGED ring
  \/ /\ ~IsEmpty
     /\ result' = Ok(data[start])
     /\ data' = [data EXCEPT ![start] = Nil]
     /\ start' = At(start, 1)
     /\ isFull' = FALSE
     /\ UNCHANGED end

Peek ==
  /\ result' = IF IsEmpty THEN Err("empty") ELSE Ok(data[start])
  /\ UNCHANGED ring

ReadIndex(index) ==
  /\ result' = IF index < 0 \/ index >= Size THEN Err("range")
               ELSE Ok(data[At(start, index)])
  /\ UNCHANGED ring

\* How far slot k is from start, going round.
Offset(k) == IF k >= start THEN k - start ELSE k - start + size

\* Mutant: the shift loop starts one element too low.
ShiftedFromLast(index, value) ==
  [k \in Slots |->
     IF Offset(k) = index THEN value
     ELSE IF Offset(k) > index /\ Offset(k) < Size THEN data[At(start, Offset(k) - 1)]
     ELSE data[k]]

\* The array after the loop that shifts the tail one slot to the right and the
\* assignment that puts value at index.
Shifted(index, value) ==
  [k \in Slots |->
     IF Offset(k) = index THEN value
     ELSE IF Offset(k) > index /\ Offset(k) <= Size THEN data[At(start, Offset(k) - 1)]
     ELSE data[k]]

Insert(index, value) ==
  \/ /\ index < 0 \/ index > Size
     /\ result' = Err("range")
     /\ UNCHANGED ring
  \/ /\ index >= 0 /\ index <= Size
     /\ isFull
     /\ result' = Err("full")
     /\ UNCHANGED ring
  \/ /\ index >= 0 /\ index <= Size
     /\ ~isFull
     /\ data' = Shifted(index, value)
     /\ end' = At(end, 1)
     /\ isFull' = (At(end, 1) = start)
     /\ result' = Ok(Nil)
     /\ UNCHANGED start

\* Mutant: start moves and the discarded slots keep their elements.
DiscardWithoutNil(index) ==
  /\ index >= 0 /\ index < Size
  /\ start' = At(start, index)
  /\ isFull' = (isFull /\ index = 0)
  /\ result' = Ok(Nil)
  /\ UNCHANGED <<data, end>>

DiscardBeforeIndex(index) ==
  \/ /\ index < 0 \/ index >= Size
     /\ result' = Err("range")
     /\ UNCHANGED ring
  \/ /\ index >= 0 /\ index < Size
     /\ data' = [k \in Slots |-> IF Offset(k) < index THEN Nil ELSE data[k]]
     /\ start' = At(start, index)
     /\ isFull' = (isFull /\ index = 0)
     /\ result' = Ok(Nil)
     /\ UNCHANGED end

Clear ==
  /\ data' = [k \in Slots |-> Nil]
  /\ start' = 0
  /\ end' = 0
  /\ isFull' = FALSE
  /\ result' = Ok(Nil)

\* Mutant: the loop condition is low < high, so the last candidate is skipped.
BinarySearchShort(target) ==
  LET Search[p \in (0..size) \X (-1..size)] ==
        LET mid == (p[1] + p[2]) \div 2
            midValue == data[At(start, mid)]
        IN  IF p[1] >= p[2] THEN <<p[1], FALSE>>
            ELSE IF midValue = target THEN <<mid, TRUE>>
            ELSE IF midValue < target THEN Search[<<mid + 1, p[2]>>]
            ELSE Search[<<p[1], mid - 1>>]
  IN  IF IsEmpty THEN <<0, FALSE>> ELSE Search[<<0, Size - 1>>]

\* The index of target and whether it is there, by the loop over low = p[1] and
\* high = p[2].  Only used where the elements compare as numbers.
BinarySearch(target) ==
  LET Search[p \in (0..size) \X (-1..size)] ==
        LET mid == (p[1] + p[2]) \div 2
            midValue == data[At(start, mid)]
        IN  IF p[1] > p[2] THEN <<p[1], FALSE>>
            ELSE IF midValue = target THEN <<mid, TRUE>>
            ELSE IF midValue < target THEN Search[<<mid + 1, p[2]>>]
            ELSE Search[<<p[1], mid - 1>>]
  IN  IF IsEmpty THEN <<0, FALSE>> ELSE Search[<<0, Size - 1>>]

Next ==
  \/ \E v \in Values : Write(v)
  \/ Read
  \/ Peek
  \/ Clear
  \/ \E i \in Indices : ReadIndex(i) \/ DiscardBeforeIndex(i)
  \/ \E i \in Indices, v \in Values : Insert(i, v)

Spec == Init /\ [][Next]_vars

-----------------------------------------------------------------------------
\* The elements from oldest to newest, which is the order ForEach visits them in.
Elements == [i \in 1..Size |-> data[At(start, i - 1)]]

TypeOK ==
  /\ data \in [Slots -> Values \cup {Nil}]
  /\ start \in Slots
  /\ end \in Slots
  /\ isFull \in BOOLEAN
  /\ result \in {"ok", "full", "empty", "range"} \X (Values \cup {Nil})

\* isFull is only ever set when end has caught up with start: a full and an
\* empty ring, which have the same start and end, are never confused.
FullMeansClosed == isFull => start = end

\* A slot holds a value exactly when it lies between start and end: no element
\* is lost to a nil, and nothing that was read or discarded stays referenced.
OnlyLiveSlotsHoldValues ==
  \A k \in Slots : (data[k] \in Values) <=> (Offset(k) < Size)

\* The ring is well formed after any sequence of Write, Read, Insert, discard and
\* Clear: its fields keep their types, and the two invariants above hold together.
RingInv == TypeOK /\ FullMeansClosed /\ OnlyLiveSlotsHoldValues

\* On a sorted ring, wherever it starts in the array, BinarySearch answers the
\* number of smaller elements and whether the target is there: the index at
\* which AddKernEvent inserts, and before which discardEventsBySeq discards.
SearchFindsRank ==
  (\A i, j \in 1..Size : i < j => Elements[i] < Elements[j]) =>
  \A target \in Values :
    BinarySearch(target) = <<Cardinality({i \in 1..Size : Elements[i] < target}),
                             \E i \in 1..Size : Elements[i] = target>>

\* The ring behaves as a bounded queue whatever the sequence of calls, with
\* start, end and isFull hidden.
Queue == INSTANCE BoundedQueue WITH items <- Elements, Capacity <- size

\* Every method has the effect and the return value of the bounded queue's.
ImplementsBoundedQueue == Queue!Spec
=============================================================================
