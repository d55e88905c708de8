---------------------------- MODULE BoundedQueue ----------------------------
(***************************************************************************)
(* What common/ringbuffer.go promises its users: a FIFO of at most         *)
(* Capacity elements that can also be read, extended and cut by position.  *)
(* Positions are 0-based, as in the Go API.  result is what the last call  *)
(* returned: an error name and a value.                                    *)
(***************************************************************************)
EXTENDS Integers, Sequences

CONSTANTS Capacity,  \* the size given to NewRingBuffer
          Values,    \* the elements stored
          Nil        \* Go's nil: no value

VARIABLES items, result

vars == <<items, result>>

Ok(v)  == <<"ok", v>>
Err(e) == <<e, Nil>>

Init == items = <<>> /\ result = Ok(Nil)

Write(v) ==
  \/ /\ Len(items) < Capacity
     /\ items' = Append(items, v)
     /\ result' = Ok(Nil)
  \/ /\ Len(items) = Capacity
     /\ result' = Err("full")
     /\ UNCHANGED items

Read ==
  \/ /\ items # <<>>
     /\ result' = Ok(items[1])
     /\ items' = Tail(items)
  \/ /\ items = <<>>
     /\ result' = Err("empty")
     /\ UNCHANGED items

Peek ==
  /\ result' = IF items = <<>> THEN Err("empty") ELSE Ok(items[1])
  /\ UNCHANGED items

ReadIndex(i) ==
  /\ result' = IF i \in 0..(Len(items) - 1) THEN Ok(items[i + 1]) ELSE Err("range")
  /\ UNCHANGED items

\* items with v put in front of position i
InsertedAt(i, v) ==
  [k \in 1..(Len(items) + 1) |->
     IF k <= i THEN items[k] ELSE IF k = i + 1 THEN v ELSE items[k - 1]]

Insert(i, v) ==
  \/ /\ i \in 0..Len(items)
     /\ Len(items) < Capacity
     /\ items' = InsertedAt(i, v)
     /\ result' = Ok(Nil)
  \/ /\ i \notin 0..Len(items)
     /\ result' = Err("range")
     /\ UNCHANGED items
  \/ /\ i \in 0..Len(items)
     /\ Len(items) = Capacity
     /\ result' = Err("full")
     /\ UNCHANGED items

DiscardBeforeIndex(i) ==
  \/ /\ i \in 0..(Len(items) - 1)
     /\ items' = [k \in 1..(Len(items) - i) |-> items[k + i]]
     /\ result' = Ok(Nil)
  \/ /\ i \notin 0..(Len(items) - 1)
     /\ result' = Err("range")
     /\ UNCHANGED items

Clear == items' = <<>> /\ result' = Ok(Nil)

Next ==
  \/ \E v \in Values : Write(v)
  \/ Read
  \/ Peek
  \/ Clear
  \/ \E i \in -1..(Capacity + 1) : ReadIndex(i) \/ DiscardBeforeIndex(i)
  \/ \E i \in -1..(Capacity + 1), v \in Values : Insert(i, v)

Spec == Init /\ [][Next]_vars
=============================================================================
