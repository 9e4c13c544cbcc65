----------------------------- MODULE ByteBuffer -----------------------------
(***************************************************************************)
(* lib/ByteBuffer.cpp: an array with a window of unread bytes, from _tail  *)
(* to before _head.  Its operations are operators on a record; the bytes   *)
(* are whatever the user puts in.                                          *)
(*                                                                         *)
(* Cells outside the window hold Junk: bytes that were read, or that the   *)
(* allocation left, are never told apart.                                  *)
(***************************************************************************)
EXTENDS Integers, Sequences

CONSTANTS
  Bytes,
  Junk    \* the content of a cell outside the window

\* A buffer whose fields are in order.
IsBuffer(b) ==
  /\ b \in [capacity : Nat \ {0}, size : Nat, head : Nat, tail : Nat,
            data : [0..(b.capacity - 1) -> Bytes \cup {Junk}]]
  /\ b.head \in 0..b.capacity /\ b.tail \in 0..b.head
  /\ b.size = b.head - b.tail
  /\ \A i \in 0..(b.capacity - 1) :
       b.data[i] \in Bytes <=> b.tail <= i /\ i < b.head

New(capacity) ==
  [capacity |-> capacity, size |-> 0, head |-> 0, tail |-> 0,
   data |-> [i \in 0..(capacity - 1) |-> Junk]]

\* The unread bytes in order.
Content(b) == [i \in 1..b.size |-> b.data[b.tail + i - 1]]

GetContinuousBytesLeft(b) == b.capacity - b.head

\* Mutant: Resize leaves the window where it was in the old array.
ResizeInPlace(b, capacity) ==
  [b EXCEPT !.capacity = capacity,
            !.data = [i \in 0..(capacity - 1) |->
                        IF i < b.size THEN b.data[b.tail + i] ELSE Junk]]

\* A new array with the window at its start.
Resize(b, capacity) ==
  [capacity |-> capacity, size |-> b.size, head |-> b.size, tail |-> 0,
   data |-> [i \in 0..(capacity - 1) |->
               IF i < b.size THEN b.data[b.tail + i] ELSE Junk]]

\* Mutant: a window that lies at the end of the array stays there.
DefragmentUnlessAtEnd(b) ==
  IF b.tail = 0 \/ b.head = b.capacity THEN b ELSE Resize(b, b.capacity)

\* The window moves to the start of the array, unless it is there already.
Defragment(b) ==
  IF b.tail = 0 \/ b.size = b.capacity THEN b ELSE Resize(b, b.capacity)

\* recv() has put bytes at the head.
Write(b, bytes) ==
  [b EXCEPT !.data = [i \in DOMAIN b.data |->
                        IF i \in b.head..(b.head + Len(bytes) - 1)
                        THEN bytes[i - b.head + 1] ELSE b.data[i]]]

\* BytesWritten's two additions; n is -1 when recv() has failed.
BytesWritten(b, n) ==
  [b EXCEPT !.size = @ + n, !.head = @ + n,
            !.data = [i \in DOMAIN b.data |->
                        IF i < b.head + n THEN b.data[i] ELSE Junk]]

\* ... and what it asserts of their result.
BytesWrittenAsserts(b, n) == n <= b.capacity /\ b.size + n >= 0

BytesRead(b, n) ==
  [b EXCEPT !.size = @ - n, !.tail = @ + n,
            !.data = [i \in DOMAIN b.data |->
                        IF b.tail + n <= i THEN b.data[i] ELSE Junk]]
=============================================================================
