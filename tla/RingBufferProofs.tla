-------------------------- MODULE RingBufferProofs --------------------------
(***************************************************************************)
(* The ring of common/ringbuffer.go is correct for every size and every    *)
(* set of values: its invariant, and that it implements the bounded queue. *)
(***************************************************************************)
EXTENDS RingBuffer, SequenceTheorems, TLAPS

USE RingAssumption

LEMMA ModBelow ==
  ASSUME NEW n \in Nat \ {0}, NEW a \in 0..(n - 1)
  PROVE  a % n = a
  OBVIOUS

LEMMA ModOnce ==
  ASSUME NEW n \in Nat \ {0}, NEW a \in n..(n + n - 1)
  PROVE  a % n = a - n
<1>1. a - n \in 0..(n - 1)
  OBVIOUS
<1>2. (a - n) % n = a - n
  BY <1>1, ModBelow, Zenon
<1>3. a = n + (a - n)
  OBVIOUS
<1> QED
  BY <1>1, <1>2, <1>3

\* Going round the ring is a conditional subtraction: all the arithmetic below
\* is linear once At is replaced by this.
LEMMA AtValue ==
  ASSUME NEW s \in Slots, NEW d \in 0..size
  PROVE  /\ At(s, d) = IF s + d < size THEN s + d ELSE s + d - size
         /\ At(s, d) \in Slots
<1>1. CASE s + d < size
  <2>1. s + d \in 0..(size - 1)
    BY <1>1 DEF Slots
  <2>2. (s + d) % size = s + d
    BY <2>1, ModBelow, Zenon
  <2> QED
    BY <1>1, <2>1, <2>2, Zenon DEF At, Slots
<1>2. CASE s + d >= size
  <2>1. s + d \in size..(size + size - 1)
    BY <1>2 DEF Slots
  <2>2. \A a \in size..(size + size - 1) : a % size = a - size
    BY ModOnce, Zenon
  <2>3. (s + d) % size = (s + d) - size
    BY <2>1, <2>2, Zenon
  <2> QED
    BY <1>2, <2>1, <2>3 DEF At, Slots
<1> QED
  BY <1>1, <1>2 DEF Slots

LEMMA NextSlot ==
  ASSUME NEW s \in Slots
  PROVE  /\ At(s, 1) = IF s + 1 < size THEN s + 1 ELSE 0
         /\ At(s, 1) \in Slots
<1>1. 1 \in 0..size
  OBVIOUS
<1>2. At(s, 1) = IF s + 1 < size THEN s + 1 ELSE s + 1 - size
  BY <1>1, AtValue, Zenon
<1>3. At(s, 1) \in Slots
  BY <1>1, AtValue, Zenon
<1> QED
  BY <1>2, <1>3 DEF Slots

LEMMA SizeRange ==
  ASSUME TypeOK, FullMeansClosed
  PROVE  /\ Size \in 0..size
         /\ isFull <=> Size = size
         /\ IsEmpty <=> Size = 0
  BY DEF TypeOK, FullMeansClosed, Size, IsEmpty, Slots

\* One more element, wherever it goes.
LEMMA SizeGrows ==
  ASSUME TypeOK, FullMeansClosed, ~isFull,
         end' = At(end, 1), start' = start, isFull' <=> (At(end, 1) = start)
  PROVE  Size' = Size + 1
<1>1. At(end, 1) = (IF end + 1 < size THEN end + 1 ELSE 0) /\ end \in Slots /\ start \in Slots
  BY NextSlot, Zenon DEF TypeOK
<1>2. CASE At(end, 1) = start
  BY <1>1, <1>2 DEF Size, Slots
<1>3. CASE At(end, 1) # start
  BY <1>1, <1>3 DEF Size, Slots
<1> QED
  BY <1>2, <1>3, Zenon

\* One element less, the oldest.
LEMMA SizeShrinks ==
  ASSUME TypeOK, FullMeansClosed, ~IsEmpty,
         start' = At(start, 1), end' = end, isFull' = FALSE
  PROVE  Size' = Size - 1
<1>1. At(start, 1) = (IF start + 1 < size THEN start + 1 ELSE 0) /\ end \in Slots /\ start \in Slots
  BY NextSlot, Zenon DEF TypeOK
<1>2. CASE isFull
  BY <1>1, <1>2 DEF Size, Slots, FullMeansClosed
<1>3. CASE ~isFull
  BY <1>1, <1>3 DEF Size, Slots, IsEmpty
<1> QED
  BY <1>2, <1>3, Zenon

\* i elements less, the oldest ones.
LEMMA SizeDiscards ==
  ASSUME TypeOK, FullMeansClosed, NEW i \in Int, i >= 0, i < Size,
         start' = At(start, i), end' = end, isFull' = (isFull /\ i = 0)
  PROVE  FullMeansClosed' /\ Size' = Size - i
<1>1. Size \in 0..size /\ i \in 0..(size - 1)
  BY SizeRange
<1>2. start' = IF start + i < size THEN start + i ELSE start + i - size
  BY <1>1, AtValue, i \in 0..size, Zenon DEF TypeOK
<1>3. CASE i = 0
  <2>1. start' = start /\ (isFull' <=> isFull) /\ end' = end
    BY <1>2, <1>3 DEF TypeOK, Slots
  <2> QED
    BY <1>1, <1>3, <2>1 DEF FullMeansClosed, Size
<1>4. CASE i # 0
  <2>1. ~isFull'
    BY <1>4, Zenon
  <2>2. CASE isFull
    BY <1>1, <1>2, <1>4, <2>1, <2>2 DEF TypeOK, Size, Slots, FullMeansClosed
  <2>3. CASE ~isFull
    BY <1>1, <1>2, <1>4, <2>1, <2>3 DEF TypeOK, Size, Slots, FullMeansClosed
  <2> QED
    BY <2>2, <2>3, Zenon
<1> QED
  BY <1>3, <1>4, Zenon

LEMMA OffsetOfAt ==
  ASSUME TypeOK, NEW d \in 0..(size - 1)
  PROVE  /\ Offset(At(start, d)) = d
         /\ At(start, d) \in Slots
<1>1. d \in 0..size /\ start \in Slots
  BY DEF TypeOK
<1>2. At(start, d) = IF start + d < size THEN start + d ELSE start + d - size
  BY <1>1, AtValue, Zenon
<1> QED
  BY <1>1, <1>2 DEF Offset, Slots

LEMMA AtOfOffset ==
  ASSUME TypeOK, NEW k \in Slots
  PROVE  /\ Offset(k) \in 0..(size - 1)
         /\ At(start, Offset(k)) = k
<1>1. Offset(k) \in 0..(size - 1)
  BY DEF TypeOK, Offset, Slots
<1>2. Offset(k) \in 0..size /\ start \in Slots
  BY <1>1 DEF TypeOK
<1>3. At(start, Offset(k)) = IF start + Offset(k) < size THEN start + Offset(k)
                             ELSE start + Offset(k) - size
  BY <1>2, AtValue, Zenon
<1> QED
  BY <1>1, <1>2, <1>3 DEF Offset, Slots

\* The slot that Write and Insert fill is the one just after the last element.
LEMMA EndIsAfterLast ==
  ASSUME TypeOK, FullMeansClosed, ~isFull
  PROVE  end = At(start, Size)
<1>1. Size \in 0..(size - 1)
  BY SizeRange
<1>2. Size \in 0..size /\ start \in Slots /\ end \in Slots
  BY <1>1 DEF TypeOK
<1>3. At(start, Size) = IF start + Size < size THEN start + Size ELSE start + Size - size
  BY <1>2, AtValue, Zenon
<1> QED
  BY <1>2, <1>3 DEF Size, Slots

-----------------------------------------------------------------------------
LEMMA InitInv == ASSUME Init PROVE RingInv
<1>1. 0 \in Slots
  BY DEF Slots
<1>2. TypeOK /\ FullMeansClosed
  BY <1>1, Zenon DEF Init, TypeOK, FullMeansClosed, Ok
<1>3. Size = 0
  BY DEF Init, Size
<1>4. \A k \in Slots : Offset(k) >= 0 /\ data[k] \notin Values
  BY DEF Init, Offset, Slots
<1> QED
  BY <1>2, <1>3, <1>4, AtOfOffset DEF RingInv, OnlyLiveSlotsHoldValues

LEMMA UnchangedInv ==
  ASSUME RingInv, UNCHANGED ring,
         result' \in {"ok", "full", "empty", "range"} \X (Values \cup {Nil})
  PROVE  RingInv'
  BY Zenon DEF RingInv, TypeOK, FullMeansClosed, OnlyLiveSlotsHoldValues, ring, Offset, Size

LEMMA ValueReadIsTyped ==
  ASSUME RingInv, NEW d \in 0..(Size - 1)
  PROVE  data[At(start, d)] \in Values
<1>1. d \in 0..(size - 1)
  BY SizeRange DEF RingInv
<1>2. Offset(At(start, d)) = d /\ At(start, d) \in Slots
  BY <1>1, OffsetOfAt, Zenon DEF RingInv
<1>3. Size \in Int /\ d < Size
  BY SizeRange DEF RingInv
<1> QED
  BY <1>2, <1>3, Zenon DEF RingInv, OnlyLiveSlotsHoldValues

LEMMA WriteInv ==
  ASSUME RingInv, NEW v \in Values, Write(v)
  PROVE  RingInv'
<1>1. CASE isFull
  BY <1>1, UnchangedInv DEF Write, Err
<1>2. CASE ~isFull
  <2>1. /\ data' = [data EXCEPT ![end] = v]
        /\ end' = At(end, 1)
        /\ isFull' = (At(end, 1) = start)
        /\ start' = start
        /\ result' = <<"ok", Nil>>
    BY <1>2, Zenon DEF Write, Ok
  <2>2. At(end, 1) = (IF end + 1 < size THEN end + 1 ELSE 0) /\ At(end, 1) \in Slots
    BY NextSlot, Zenon DEF RingInv, TypeOK
  <2>3. TypeOK'
    BY <2>1, <2>2, Zenon DEF RingInv, TypeOK
  <2>4. FullMeansClosed'
    BY <2>1, Zenon DEF FullMeansClosed
  <2>5. Size' = Size + 1
    BY <1>2, <2>1, SizeGrows, Zenon DEF RingInv
  <2>6. OnlyLiveSlotsHoldValues'
    <3> SUFFICES ASSUME NEW k \in Slots
                 PROVE  (data'[k] \in Values) <=> (Offset(k)' < Size')
      BY Zenon DEF OnlyLiveSlotsHoldValues
    <3>1. Offset(k)' = Offset(k)
      BY <2>1, Zenon DEF Offset
    <3>2. (Offset(k) = Size) <=> (k = end)
      BY <1>2, EndIsAfterLast, AtOfOffset, OffsetOfAt, SizeRange DEF RingInv
    <3>3. Offset(k) \in Int /\ Size \in Int
      BY AtOfOffset, SizeRange DEF RingInv
    <3> QED
      BY <2>1, <2>5, <3>1, <3>2, <3>3 DEF RingInv, TypeOK, OnlyLiveSlotsHoldValues
  <2> QED
    BY <2>3, <2>4, <2>6, Zenon DEF RingInv
<1> QED
  BY <1>1, <1>2, Zenon

LEMMA ReadInv ==
  ASSUME RingInv, Read
  PROVE  RingInv'
<1>1. CASE IsEmpty
  BY <1>1, UnchangedInv DEF Read, Err
<1>2. CASE ~IsEmpty
  <2>1. /\ data' = [data EXCEPT ![start] = Nil]
        /\ start' = At(start, 1)
        /\ isFull' = FALSE
        /\ end' = end
        /\ result' = <<"ok", data[start]>>
    BY <1>2, Zenon DEF Read, Ok
  <2>2. At(start, 1) = (IF start + 1 < size THEN start + 1 ELSE 0) /\ At(start, 1) \in Slots
    BY NextSlot, Zenon DEF RingInv, TypeOK
  <2>3. TypeOK' /\ FullMeansClosed'
    BY <2>1, <2>2, Zenon DEF RingInv, TypeOK, FullMeansClosed
  <2>4. Size' = Size - 1
    BY <1>2, <2>1, SizeShrinks, Zenon DEF RingInv
  <2>5. OnlyLiveSlotsHoldValues'
    <3> SUFFICES ASSUME NEW k \in Slots
                 PROVE  (data'[k] \in Values) <=> (Offset(k)' < Size')
      BY Zenon DEF OnlyLiveSlotsHoldValues
    <3>1. Size \in 1..size
      BY <1>2, SizeRange DEF RingInv
    <3>2. CASE k = start
      BY <2>1, <2>2, <2>4, <3>1, <3>2 DEF Offset, RingInv, TypeOK, Slots
    <3>3. CASE k # start
      <4>1. Offset(k)' = Offset(k) - 1
        BY <2>1, <2>2, <3>3 DEF Offset, RingInv, TypeOK, Slots
      <4>2. Offset(k) \in Int
        BY AtOfOffset DEF RingInv
      <4> QED
        BY <2>1, <2>4, <3>1, <3>3, <4>1, <4>2 DEF RingInv, TypeOK, OnlyLiveSlotsHoldValues
    <3> QED
      BY <3>2, <3>3, Zenon
  <2> QED
    BY <2>3, <2>5, Zenon DEF RingInv
<1> QED
  BY <1>1, <1>2, Zenon

LEMMA PeekInv ==
  ASSUME RingInv, Peek
  PROVE  RingInv'
<1>1. result' \in {"ok", "full", "empty", "range"} \X (Values \cup {Nil})
  BY Zenon DEF Peek, Ok, Err, RingInv, TypeOK
<1> QED
  BY <1>1, UnchangedInv, Zenon DEF Peek

LEMMA ReadIndexInv ==
  ASSUME RingInv, NEW i \in Indices, ReadIndex(i)
  PROVE  RingInv'
<1>1. Size \in 0..size /\ i \in Int
  BY SizeRange DEF RingInv, Indices
<1>2. result' \in {"ok", "full", "empty", "range"} \X (Values \cup {Nil})
  <2>1. CASE i < 0 \/ i >= Size
    BY <2>1, Zenon DEF ReadIndex, Err
  <2>2. CASE ~(i < 0 \/ i >= Size)
    BY <1>1, <2>2, ValueReadIsTyped DEF ReadIndex, Ok
  <2> QED
    BY <2>1, <2>2, Zenon
<1> QED
  BY <1>2, UnchangedInv, Zenon DEF ReadIndex

LEMMA InsertInv ==
  ASSUME RingInv, NEW i \in Indices, NEW v \in Values, Insert(i, v)
  PROVE  RingInv'
<1>1. CASE UNCHANGED ring
  BY <1>1, UnchangedInv DEF Insert, Err, Ok
<1>2. CASE ~UNCHANGED ring
  <2>1. /\ i >= 0 /\ i <= Size
        /\ ~isFull
        /\ data' = Shifted(i, v)
        /\ end' = At(end, 1)
        /\ isFull' = (At(end, 1) = start)
        /\ start' = start
        /\ result' = <<"ok", Nil>>
    BY <1>2, Zenon DEF Insert, Ok
  <2>2. At(end, 1) = (IF end + 1 < size THEN end + 1 ELSE 0) /\ At(end, 1) \in Slots
    BY NextSlot, Zenon DEF RingInv, TypeOK
  <2>3. Size \in 0..(size - 1) /\ i \in Nat
    BY <2>1, SizeRange DEF RingInv, Indices
  <2>4. FullMeansClosed'
    BY <2>1, Zenon DEF FullMeansClosed
  <2>5. Size' = Size + 1
    BY <2>1, SizeGrows, Zenon DEF RingInv
  <2>6. ASSUME NEW k \in Slots
        PROVE  /\ data'[k] \in Values \cup {Nil}
               /\ (data'[k] \in Values) <=> (Offset(k) < Size + 1)
    <3>1. Offset(k) \in 0..(size - 1)
      BY AtOfOffset, Zenon DEF RingInv
    <3>2. data'[k] = IF Offset(k) = i THEN v
                     ELSE IF Offset(k) > i /\ Offset(k) <= Size
                          THEN data[At(start, Offset(k) - 1)]
                     ELSE data[k]
      BY <2>1, Zenon DEF Shifted
    <3>3. CASE Offset(k) > i /\ Offset(k) <= Size
      <4>1. Offset(k) - 1 \in 0..(Size - 1)
        BY <2>3, <3>1, <3>3
      <4> QED
        BY <2>3, <3>1, <3>2, <3>3, <4>1, ValueReadIsTyped
    <3>4. CASE ~(Offset(k) > i /\ Offset(k) <= Size)
      BY <2>1, <2>3, <3>1, <3>2, <3>4 DEF RingInv, TypeOK, OnlyLiveSlotsHoldValues
    <3> QED
      BY <3>3, <3>4, Zenon
  <2>7. TypeOK'
    BY <2>1, <2>2, <2>6, Zenon DEF RingInv, TypeOK, Shifted
  <2>8. OnlyLiveSlotsHoldValues'
    BY <2>1, <2>5, <2>6, Zenon DEF OnlyLiveSlotsHoldValues, Offset
  <2> QED
    BY <2>4, <2>7, <2>8, Zenon DEF RingInv
<1> QED
  BY <1>1, <1>2, Zenon

LEMMA DiscardInv ==
  ASSUME RingInv, NEW i \in Indices, DiscardBeforeIndex(i)
  PROVE  RingInv'
<1>0. Size \in 0..size /\ i \in Int
  BY SizeRange DEF RingInv, Indices
<1>1. CASE i < 0 \/ i >= Size
  BY <1>0, <1>1, UnchangedInv DEF DiscardBeforeIndex, Err
<1>2. CASE i >= 0 /\ i < Size
  <2>1. /\ data' = [k \in Slots |-> IF Offset(k) < i THEN Nil ELSE data[k]]
        /\ start' = At(start, i)
        /\ isFull' = (isFull /\ i = 0)
        /\ end' = end
        /\ result' = <<"ok", Nil>>
    BY <1>2, SizeRange DEF DiscardBeforeIndex, Ok, RingInv, Indices
  <2>2. Size \in 0..size /\ i \in 0..(size - 1)
    BY <1>2, SizeRange DEF RingInv, Indices
  <2>3. /\ At(start, i) = IF start + i < size THEN start + i ELSE start + i - size
        /\ At(start, i) \in Slots
    BY <2>2, AtValue, i \in 0..size, Zenon DEF RingInv, TypeOK
  <2>4. TypeOK'
    BY <2>1, <2>3, Zenon DEF RingInv, TypeOK
  <2>5. FullMeansClosed' /\ Size' = Size - i
    BY <1>2, <2>1, <2>2, SizeDiscards DEF RingInv
  <2>7. OnlyLiveSlotsHoldValues'
    <3> SUFFICES ASSUME NEW k \in Slots
                 PROVE  (data'[k] \in Values) <=> (Offset(k)' < Size')
      BY Zenon DEF OnlyLiveSlotsHoldValues
    <3>1. Offset(k) \in 0..(size - 1)
      BY AtOfOffset, Zenon DEF RingInv
    <3>2. Offset(k)' = IF Offset(k) < i THEN Offset(k) - i + size ELSE Offset(k) - i
      BY <2>1, <2>2, <2>3 DEF Offset, RingInv, TypeOK, Slots
    <3> QED
      BY <1>2, <2>1, <2>2, <2>5, <3>1, <3>2 DEF RingInv, TypeOK, OnlyLiveSlotsHoldValues
  <2> QED
    BY <2>4, <2>5, <2>7, Zenon DEF RingInv
<1> QED
  BY <1>1, <1>2, SizeRange DEF RingInv, Indices

LEMMA ClearInv == ASSUME Clear PROVE RingInv'
<1>1. 0 \in Slots
  BY DEF Slots
<1>2. TypeOK' /\ FullMeansClosed'
  BY <1>1, Zenon DEF Clear, TypeOK, FullMeansClosed, Ok
<1>3. Size' = 0
  BY DEF Clear, Size
<1>4. \A k \in Slots : Offset(k)' >= 0 /\ Offset(k)' \in Int /\ data'[k] \notin Values
  BY DEF Clear, Offset, Slots
<1> QED
  BY <1>2, <1>3, <1>4 DEF RingInv, OnlyLiveSlotsHoldValues

\* The ring is well formed after any sequence of calls of its methods, whatever its
\* size: isFull never disagrees with the positions, and exactly the slots between
\* start and end hold values.
THEOREM RingSafe == Spec => []RingInv
<1>1. RingInv /\ [Next]_vars => RingInv'
  <2> SUFFICES ASSUME RingInv, [Next]_vars PROVE RingInv'
    BY Zenon
  <2>1. CASE UNCHANGED vars
    BY <2>1, UnchangedInv, Zenon DEF vars, ring, RingInv, TypeOK
  <2> QED
    BY <2>1, WriteInv, ReadInv, PeekInv, ReadIndexInv, InsertInv, DiscardInv,
       ClearInv, Zenon DEF Next
<1> QED
  BY InitInv, <1>1, PTL DEF Spec

-----------------------------------------------------------------------------
(***************************************************************************)
(* The ring implements the bounded queue.                                  *)
(***************************************************************************)
LEMMA AppendAsFunction ==
  ASSUME NEW S, NEW q \in Seq(S), NEW e \in S
  PROVE  Append(q, e) = [i \in 1..(Len(q) + 1) |-> IF i <= Len(q) THEN q[i] ELSE e]
<1> DEFINE f == [i \in 1..(Len(q) + 1) |-> IF i <= Len(q) THEN q[i] ELSE e]
<1>1. f \in Seq(S) /\ Len(f) = Len(q) + 1
  OBVIOUS
<1>2. Append(q, e) \in Seq(S) /\ Len(Append(q, e)) = Len(q) + 1
  BY AppendProperties, Zenon
<1>3. \A i \in 1..(Len(q) + 1) : Append(q, e)[i] = f[i]
  BY AppendProperties
<1> QED
  BY <1>1, <1>2, <1>3, SeqEqual, Zenon

LEMMA TailAsFunction ==
  ASSUME NEW S, NEW q \in Seq(S), q # <<>>
  PROVE  Tail(q) = [i \in 1..(Len(q) - 1) |-> q[i + 1]]
<1> DEFINE f == [i \in 1..(Len(q) - 1) |-> q[i + 1]]
<1>1. Len(q) \in Nat /\ Len(q) # 0
  OBVIOUS
<1>2. f \in Seq(S) /\ Len(f) = Len(q) - 1
  BY <1>1
<1>3. /\ Tail(q) \in Seq(S)
      /\ Len(Tail(q)) = Len(q) - 1
      /\ \A i \in 1..(Len(q) - 1) : Tail(q)[i] = f[i]
  BY HeadTailProperties, Zenon
<1> QED
  BY <1>2, <1>3, SeqEqual, Zenon

LEMMA ElementsSeq ==
  ASSUME RingInv
  PROVE  /\ Elements \in Seq(Values)
         /\ Len(Elements) = Size
         /\ DOMAIN Elements = 1..Size
         /\ \A i \in 1..Size : Elements[i] = data[At(start, i - 1)]
<1>1. Size \in Nat
  BY SizeRange DEF RingInv
<1>2. \A i \in 1..Size : data[At(start, i - 1)] \in Values
  BY <1>1, ValueReadIsTyped
<1> QED
  BY <1>1, <1>2 DEF Elements

LEMMA ElementsUnchanged ==
  ASSUME UNCHANGED ring
  PROVE  Elements' = Elements
  BY Zenon DEF ring, Elements, Size, At

\* Distinct positions of the queue are distinct slots of the ring.
LEMMA AtInjective ==
  ASSUME TypeOK, NEW d \in 0..(size - 1), NEW e \in 0..(size - 1), d # e
  PROVE  At(start, d) # At(start, e)
  BY OffsetOfAt, Zenon

LEMMA WriteRefines ==
  ASSUME RingInv, NEW v \in Values, Write(v)
  PROVE  Queue!Write(v)
<1>1. /\ Len(Elements) = Size
      /\ Size \in 0..size
      /\ isFull <=> Size = size
  BY ElementsSeq, SizeRange, Zenon DEF RingInv
<1>2. CASE isFull
  BY <1>1, <1>2, ElementsUnchanged, Zenon DEF Write, Err, Queue!Write, Queue!Err
<1>3. CASE ~isFull
  <2>1. /\ data' = [data EXCEPT ![end] = v]
        /\ start' = start
        /\ result' = <<"ok", Nil>>
    BY <1>3, Zenon DEF Write, Ok
  <2>2. Size' = Size + 1
    BY <1>3, SizeGrows, Zenon DEF Write, RingInv
  <2>3. end = At(start, Size) /\ end \in Slots
    BY <1>3, EndIsAfterLast, Zenon DEF RingInv, TypeOK
  <2>4. Elements' = [i \in 1..(Size + 1) |-> data'[At(start, i - 1)]]
    BY <2>1, <2>2 DEF Elements, At
  <2>5. ASSUME NEW i \in 1..(Size + 1)
        PROVE  data'[At(start, i - 1)] = IF i <= Size THEN Elements[i] ELSE v
    <3>1. CASE i = Size + 1
      BY <1>1, <2>1, <2>3, <3>1 DEF RingInv, TypeOK
    <3>2. CASE i # Size + 1
      <4>1. i - 1 \in 0..(size - 1) /\ Size \in 0..(size - 1) /\ i - 1 # Size
        BY <1>1, <1>3, <3>2
      <4>2. At(start, i - 1) # end /\ At(start, i - 1) \in Slots
        BY <4>1, <2>3, AtInjective, OffsetOfAt, Zenon DEF RingInv
      <4>3. i \in 1..Size /\ Elements[i] = data[At(start, i - 1)]
        BY <1>1, <3>2, ElementsSeq
      <4> QED
        BY <1>1, <2>1, <4>2, <4>3 DEF RingInv, TypeOK
    <3> QED
      BY <3>1, <3>2, Zenon
  <2>6. Elements' = [i \in 1..(Size + 1) |-> IF i <= Size THEN Elements[i] ELSE v]
    BY <2>4, <2>5, Zenon
  <2>7. Append(Elements, v) = [i \in 1..(Size + 1) |-> IF i <= Size THEN Elements[i] ELSE v]
    <3>1. Elements \in Seq(Values)
      BY ElementsSeq, Zenon
    <3>2. Append(Elements, v) = [i \in 1..(Len(Elements) + 1) |->
                                   IF i <= Len(Elements) THEN Elements[i] ELSE v]
      BY <3>1, AppendAsFunction
    <3> QED
      BY <1>1, <3>2, Zenon
  <2> QED
    BY <1>1, <1>3, <2>1, <2>6, <2>7 DEF Queue!Write, Queue!Ok
<1> QED
  BY <1>2, <1>3, Zenon

LEMMA ReadRefines ==
  ASSUME RingInv, Read
  PROVE  Queue!Read
<1>1. /\ Elements \in Seq(Values)
      /\ Len(Elements) = Size
      /\ Size \in 0..size
      /\ IsEmpty <=> Size = 0
  BY ElementsSeq, SizeRange, Zenon DEF RingInv
<1>2. CASE IsEmpty
  BY <1>1, <1>2, ElementsUnchanged DEF Read, Err, Queue!Read, Queue!Err
<1>3. CASE ~IsEmpty
  <2>1. /\ data' = [data EXCEPT ![start] = Nil]
        /\ start' = At(start, 1)
        /\ isFull' = FALSE
        /\ end' = end
        /\ result' = <<"ok", data[start]>>
    BY <1>3 DEF Read, Ok
  <2>2. start' = (IF start + 1 < size THEN start + 1 ELSE 0) /\ start' \in Slots
    BY <2>1, NextSlot, Zenon DEF RingInv, TypeOK
  <2>3. Size' = Size - 1
    BY <1>3, <2>1, SizeShrinks DEF RingInv
  <2>4. Elements' = [i \in 1..(Size - 1) |-> data'[At(start', i - 1)]]
    BY <2>3, Zenon DEF Elements, At
  <2>5. At(start, 0) = start
    BY AtValue, 0 \in 0..size DEF RingInv, TypeOK, Slots
  <2>6. ASSUME NEW i \in 1..(Size - 1)
        PROVE  data'[At(start', i - 1)] = Elements[i + 1]
    <3>1. i \in 0..(size - 1) /\ i - 1 \in 0..size /\ i \in 0..size /\ i # 0
      BY <1>1
    <3>2. At(start', i - 1) = At(start, i)
      <4>1. At(start', i - 1) = IF start' + (i - 1) < size THEN start' + (i - 1)
                                ELSE start' + (i - 1) - size
        BY <2>2, <3>1, AtValue, Zenon
      <4>2. At(start, i) = IF start + i < size THEN start + i ELSE start + i - size
        BY <3>1, AtValue, Zenon DEF RingInv, TypeOK
      <4> QED
        BY <2>2, <3>1, <4>1, <4>2 DEF RingInv, TypeOK, Slots
    <3>3. At(start, i) # start /\ At(start, i) \in Slots
      BY <2>5, <3>1, AtInjective, OffsetOfAt, 0 \in 0..(size - 1), Zenon DEF RingInv
    <3>4. Elements[i + 1] = data[At(start, i)]
      BY <1>1, ElementsSeq, i + 1 \in 1..Size, (i + 1) - 1 = i, Zenon
    <3> QED
      BY <2>1, <3>2, <3>3, <3>4, Zenon DEF RingInv, TypeOK
  <2>7. Elements' = [i \in 1..(Size - 1) |-> Elements[i + 1]]
    BY <2>4, <2>6, Zenon
  <2>8. Elements # <<>> /\ Tail(Elements) = [i \in 1..(Size - 1) |-> Elements[i + 1]]
    BY <1>1, <1>3, TailAsFunction
  <2>9. Elements[1] = data[start]
    BY <1>1, <1>3, <2>5, ElementsSeq, 1 \in 1..Size, 1 - 1 = 0, Zenon
  <2> QED
    BY <2>1, <2>7, <2>8, <2>9, Zenon DEF Queue!Read, Queue!Ok
<1> QED
  BY <1>2, <1>3, Zenon

LEMMA PeekRefines ==
  ASSUME RingInv, Peek
  PROVE  Queue!Peek
<1>1. /\ Elements \in Seq(Values)
      /\ Len(Elements) = Size
      /\ Size \in 0..size
      /\ IsEmpty <=> Size = 0
  BY ElementsSeq, SizeRange DEF RingInv
<1>2. Elements = <<>> <=> IsEmpty
  BY <1>1
<1>3. ASSUME ~IsEmpty PROVE Elements[1] = data[start]
  <2>1. At(start, 0) = start
    BY AtValue, 0 \in 0..size DEF RingInv, TypeOK, Slots
  <2> QED
    BY <1>1, <1>3, <2>1, ElementsSeq, 1 \in 1..Size, 1 - 1 = 0
<1>4. Elements' = Elements
  BY ElementsUnchanged, Zenon DEF Peek
<1> QED
  BY <1>2, <1>3, <1>4, Zenon DEF Peek, Ok, Err, Queue!Peek, Queue!Ok, Queue!Err

LEMMA ReadIndexRefines ==
  ASSUME RingInv, NEW i \in Indices, ReadIndex(i)
  PROVE  Queue!ReadIndex(i)
<1>1. Len(Elements) = Size /\ Size \in 0..size /\ i \in Int
  BY ElementsSeq, SizeRange DEF RingInv, Indices
<1>2. Elements' = Elements
  BY ElementsUnchanged, Zenon DEF ReadIndex
<1>3. CASE i < 0 \/ i >= Size
  BY <1>1, <1>2, <1>3 DEF ReadIndex, Err, Queue!ReadIndex, Queue!Err
<1>4. CASE ~(i < 0 \/ i >= Size)
  <2>1. i + 1 \in 1..Size /\ (i + 1) - 1 = i /\ i \in 0..(Len(Elements) - 1)
    BY <1>1, <1>4
  <2>2. Elements[i + 1] = data[At(start, i)]
    BY <2>1, ElementsSeq, Zenon
  <2>3. result' = <<"ok", data[At(start, i)]>>
    BY <1>4, Zenon DEF ReadIndex, Ok
  <2> QED
    BY <1>2, <2>1, <2>2, <2>3, Zenon DEF Queue!ReadIndex, Queue!Ok
<1> QED
  BY <1>3, <1>4, Zenon

LEMMA InsertRefines ==
  ASSUME RingInv, NEW i \in Indices, NEW v \in Values, Insert(i, v)
  PROVE  Queue!Insert(i, v)
<1>1. /\ Len(Elements) = Size
      /\ Size \in 0..size
      /\ isFull <=> Size = size
      /\ i \in Int
  BY ElementsSeq, SizeRange DEF RingInv, Indices
<1>2. CASE i < 0 \/ i > Size
  BY <1>1, <1>2, ElementsUnchanged DEF Insert, Err, Queue!Insert, Queue!Err
<1>3. CASE i >= 0 /\ i <= Size /\ isFull
  BY <1>1, <1>3, ElementsUnchanged DEF Insert, Err, Queue!Insert, Queue!Err
<1>4. CASE i >= 0 /\ i <= Size /\ ~isFull
  <2>1. /\ data' = Shifted(i, v)
        /\ start' = start
        /\ end' = At(end, 1)
        /\ isFull' = (At(end, 1) = start)
        /\ result' = <<"ok", Nil>>
    BY <1>1, <1>4 DEF Insert, Ok
  <2>2. Size' = Size + 1
    BY <1>4, <2>1, SizeGrows, Zenon DEF RingInv
  <2>3. Elements' = [k \in 1..(Size + 1) |-> data'[At(start, k - 1)]]
    BY <2>1, <2>2, Zenon DEF Elements, At
  <2>4. ASSUME NEW k \in 1..(Size + 1)
        PROVE  data'[At(start, k - 1)] =
                 IF k <= i THEN Elements[k] ELSE IF k = i + 1 THEN v ELSE Elements[k - 1]
    <3>1. k - 1 \in 0..(size - 1) /\ k \in Int
      BY <1>1, <1>4
    <3>2. At(start, k - 1) \in Slots /\ Offset(At(start, k - 1)) = k - 1
      BY <3>1, OffsetOfAt, Zenon DEF RingInv
    <3>3. data'[At(start, k - 1)] =
            IF k - 1 = i THEN v
            ELSE IF k - 1 > i /\ k - 1 <= Size THEN data[At(start, (k - 1) - 1)]
            ELSE data[At(start, k - 1)]
      BY <2>1, <3>2, Zenon DEF Shifted
    <3>4. CASE k <= i
      BY <1>1, <1>4, <3>1, <3>3, <3>4, k \in 1..Size, ElementsSeq
    <3>5. CASE k = i + 1
      BY <1>1, <3>1, <3>3, <3>5
    <3>6. CASE k > i + 1
      <4>1. k - 1 \in 1..Size /\ k - 1 > i /\ k - 1 <= Size /\ k - 1 # i
        BY <1>1, <1>4, <3>1, <3>6
      <4>2. Elements[k - 1] = data[At(start, (k - 1) - 1)]
        BY <4>1, ElementsSeq, Zenon
      <4> QED
        BY <1>1, <3>1, <3>3, <3>6, <4>1, <4>2
    <3> QED
      BY <1>1, <3>1, <3>4, <3>5, <3>6
  <2>5. Elements' = Queue!InsertedAt(i, v)
    BY <1>1, <2>3, <2>4, Zenon DEF Queue!InsertedAt
  <2> QED
    BY <1>1, <1>4, <2>1, <2>5 DEF Queue!Insert, Queue!Ok
<1> QED
  BY <1>1, <1>2, <1>3, <1>4

LEMMA DiscardRefines ==
  ASSUME RingInv, NEW i \in Indices, DiscardBeforeIndex(i)
  PROVE  Queue!DiscardBeforeIndex(i)
<1>1. Len(Elements) = Size /\ Size \in 0..size /\ i \in Int
  BY ElementsSeq, SizeRange DEF RingInv, Indices
<1>2. CASE i < 0 \/ i >= Size
  BY <1>1, <1>2, ElementsUnchanged
     DEF DiscardBeforeIndex, Err, Queue!DiscardBeforeIndex, Queue!Err
<1>3. CASE i >= 0 /\ i < Size
  <2>1. /\ data' = [k \in Slots |-> IF Offset(k) < i THEN Nil ELSE data[k]]
        /\ start' = At(start, i)
        /\ isFull' = (isFull /\ i = 0)
        /\ end' = end
        /\ result' = <<"ok", Nil>>
    BY <1>1, <1>3 DEF DiscardBeforeIndex, Ok
  <2>2. Size' = Size - i
    BY <1>1, <1>3, <2>1, SizeDiscards, Zenon DEF RingInv
  <2>3. Elements' = [k \in 1..(Size - i) |-> data'[At(start', k - 1)]]
    BY <2>2, Zenon DEF Elements, At
  <2>4. ASSUME NEW k \in 1..(Size - i)
        PROVE  data'[At(start', k - 1)] = Elements[k + i]
    <3>1. /\ k - 1 \in 0..size /\ i \in 0..size
          /\ (k + i) - 1 \in 0..(size - 1) /\ (k + i) - 1 \in 0..size
          /\ k + i \in 1..Size /\ k \in Int
          /\ (k + i) - 1 >= i
      BY <1>1, <1>3
    <3>2. At(start', k - 1) = At(start, (k + i) - 1)
      <4>1. /\ start' = IF start + i < size THEN start + i ELSE start + i - size
            /\ start' \in Slots
        BY <2>1, <3>1, AtValue, Zenon DEF RingInv, TypeOK
      <4>2. At(start', k - 1) = IF start' + (k - 1) < size THEN start' + (k - 1)
                                ELSE start' + (k - 1) - size
        BY <3>1, <4>1, AtValue, Zenon
      <4>3. At(start, (k + i) - 1) =
              IF start + ((k + i) - 1) < size THEN start + ((k + i) - 1)
              ELSE start + ((k + i) - 1) - size
        BY <3>1, AtValue, Zenon DEF RingInv, TypeOK
      <4>4. start \in 0..(size - 1) /\ size \in Nat
        BY RingAssumption DEF RingInv, TypeOK, Slots
      <4>5. CASE start + i < size
        <5>1. start' = start + i
          BY <4>1, <4>5, Zenon
        <5>2. /\ start' + (k - 1) = start + ((k + i) - 1)
              /\ start' + (k - 1) - size = start + ((k + i) - 1) - size
              /\ start' + (k - 1) < size <=> start + ((k + i) - 1) < size
          BY <3>1, <4>4, <5>1
        <5>3. CASE start' + (k - 1) < size
          BY <4>2, <4>3, <5>2, <5>3, Zenon
        <5>4. CASE ~(start' + (k - 1) < size)
          BY <4>2, <4>3, <5>2, <5>4, Zenon
        <5> QED
          BY <5>3, <5>4, Zenon
      <4>6. CASE ~(start + i < size)
        <5>1. start' = start + i - size
          BY <4>1, <4>6, Zenon
        <5>2. /\ start' + (k - 1) = start + ((k + i) - 1) - size
              /\ start' + (k - 1) < size
              /\ ~(start + ((k + i) - 1) < size)
          BY <3>1, <4>4, <4>6, <5>1
        <5> QED
          BY <4>2, <4>3, <5>2, Zenon
      <4> QED
        BY <4>5, <4>6, Zenon
    <3>3. /\ At(start, (k + i) - 1) \in Slots
          /\ Offset(At(start, (k + i) - 1)) = (k + i) - 1
      BY <3>1, OffsetOfAt, Zenon DEF RingInv
    <3>4. data'[At(start, (k + i) - 1)] = data[At(start, (k + i) - 1)]
      BY <1>1, <2>1, <3>1, <3>3
    <3>5. Elements[k + i] = data[At(start, (k + i) - 1)]
      BY <3>1, ElementsSeq, Zenon
    <3> QED
      BY <3>2, <3>4, <3>5, Zenon
  <2>5. Elements' = [k \in 1..(Len(Elements) - i) |-> Elements[k + i]]
    BY <1>1, <2>3, <2>4, Zenon
  <2> QED
    BY <1>1, <1>3, <2>1, <2>5 DEF Queue!DiscardBeforeIndex, Queue!Ok
<1> QED
  BY <1>1, <1>2, <1>3

LEMMA ClearRefines == ASSUME Clear PROVE Queue!Clear
<1>1. Size' = 0
  BY DEF Clear, Size
<1>2. Elements' = <<>>
  BY <1>1 DEF Elements
<1> QED
  BY <1>2, Zenon DEF Clear, Ok, Queue!Clear, Queue!Ok

\* Each method has the effect and returns the result of the bounded queue's
\* method of the same name, for every size: users of the ring (the temporary
\* event queues, the per-step event rings) may think of it as a sequence.
THEOREM RingImplementsQueue == Spec => ImplementsBoundedQueue
<1>1. Init => Queue!Init
  <2> SUFFICES ASSUME Init PROVE Queue!Init
    BY Zenon
  <2>1. Size = 0
    BY DEF Init, Size
  <2>2. Elements = <<>>
    BY <2>1 DEF Elements
  <2> QED
    BY <2>2, Zenon DEF Init, Ok, Queue!Init, Queue!Ok
<1>2. RingInv /\ [Next]_vars => [Queue!Next]_(Queue!vars)
  <2> SUFFICES ASSUME RingInv, [Next]_vars PROVE [Queue!Next]_(Queue!vars)
    BY Zenon
  <2>1. CASE UNCHANGED vars
    BY <2>1, ElementsUnchanged, Zenon DEF vars, ring, Queue!vars
  <2>2. ASSUME NEW v \in Values, Write(v) PROVE Queue!Next
    BY <2>2, WriteRefines, Zenon DEF Queue!Next
  <2>3. CASE Read
    BY <2>3, ReadRefines, Zenon DEF Queue!Next
  <2>4. CASE Peek
    BY <2>4, PeekRefines, Zenon DEF Queue!Next
  <2>5. CASE Clear
    BY <2>5, ClearRefines, Zenon DEF Queue!Next
  <2>6. ASSUME NEW i \in Indices, ReadIndex(i) \/ DiscardBeforeIndex(i) PROVE Queue!Next
    BY <2>6, ReadIndexRefines, DiscardRefines, Zenon DEF Queue!Next, Indices
  <2>7. ASSUME NEW i \in Indices, NEW v \in Values, Insert(i, v) PROVE Queue!Next
    BY <2>7, InsertRefines, Zenon DEF Queue!Next, Indices
  <2> QED
    BY <2>1, <2>2, <2>3, <2>4, <2>5, <2>6, <2>7, Zenon DEF Next
<1> QED
  BY <1>1, <1>2, RingSafe, PTL DEF Spec, ImplementsBoundedQueue, Queue!Spec
=============================================================================
