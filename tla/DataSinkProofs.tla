--------------------------- MODULE DataSinkProofs ---------------------------
(***************************************************************************)
(* What ByteBuffer does to its unread bytes, and what DataSink makes of    *)
(* them: however TCP cuts a stream, whatever the sizes of its messages and *)
(* wherever recv() fails, the messages routed are the messages sent, and   *)
(* none that is there stays in the buffer.                                 *)
(***************************************************************************)
EXTENDS DataSink, TLAPS, SequenceTheorems, WellFoundedInduction

LEMMA JunkIsNoByte == Junk \notin Bytes
BY DataSinkAssumption

USE JunkIsNoByte

-----------------------------------------------------------------------------
(* The operations of ByteBuffer: seen through Content a buffer is a queue  *)
(* of bytes, and moving it or growing it changes nothing.                  *)


\* A new buffer is in order and empty (ByteBuffer's constructor).
LEMMA NewIsEmpty ==
  ASSUME NEW n \in Nat \ {0}
  PROVE  B!IsBuffer(B!New(n)) /\ B!Content(B!New(n)) = <<>>
BY DEF B!IsBuffer, B!New, B!Content

\* The unread bytes are bytes, one for each that _size counts.
LEMMA ContentType ==
  ASSUME NEW b, B!IsBuffer(b)
  PROVE  B!Content(b) \in Seq(Bytes) /\ Len(B!Content(b)) = b.size
<1>1. \A i \in 1..b.size : b.data[b.tail + i - 1] \in Bytes
  BY DEF B!IsBuffer
<1>2. b.size \in Nat
  BY DEF B!IsBuffer
<1>3. \A i \in 1..b.size : B!Content(b)[i] \in Bytes
  BY <1>1 DEF B!Content
<1>4. B!Content(b) \in [1..b.size -> Bytes]
  BY <1>3 DEF B!Content
<1> QED
  BY <1>2, <1>4

\* Resize to a capacity that it accepts keeps the unread bytes and makes room
\* for all the others in one piece behind them.
THEOREM ResizeKeepsContent ==
  ASSUME NEW b, B!IsBuffer(b),
         NEW n \in Nat \ {0}, n >= b.size
  PROVE  /\ B!IsBuffer(B!Resize(b, n))
         /\ B!Content(B!Resize(b, n)) = B!Content(b)
         /\ B!GetContinuousBytesLeft(B!Resize(b, n)) = n - b.size
<1> DEFINE r == B!Resize(b, n)
<1>1. /\ b.size \in Nat /\ b.tail \in Nat /\ b.capacity \in Nat
      /\ \A i \in 0..(b.size - 1) : b.data[b.tail + i] \in Bytes
  <2>1. /\ b.size \in Nat /\ b.tail \in Nat /\ b.capacity \in Nat
        /\ b.head \in 0..b.capacity /\ b.size = b.head - b.tail
    BY DEF B!IsBuffer
  <2>2. ASSUME NEW i \in 0..(b.size - 1)
        PROVE  b.data[b.tail + i] \in Bytes
    <3>1. b.tail + i \in 0..(b.capacity - 1) /\ b.tail <= b.tail + i /\ b.tail + i < b.head
      BY <2>1
    <3> QED
      BY <3>1 DEF B!IsBuffer
  <2> QED
    BY <2>1, <2>2
<1>2. /\ r.capacity = n /\ r.size = b.size /\ r.head = b.size /\ r.tail = 0
      /\ r.data = [i \in 0..(n - 1) |->
                     IF i < b.size THEN b.data[b.tail + i] ELSE Junk]
  BY DEF B!Resize
<1>3. r.data \in [0..(n - 1) -> Bytes \cup {Junk}]
  <2>1. \A i \in 0..(n - 1) : r.data[i] \in Bytes \cup {Junk}
    <3> SUFFICES ASSUME NEW i \in 0..(n - 1)
                 PROVE  r.data[i] \in Bytes \cup {Junk}
      OBVIOUS
    <3>1. CASE i < b.size
      <4>1. i \in 0..(b.size - 1)
        BY <1>1, <3>1
      <4> QED
        BY <1>1, <1>2, <3>1, <4>1
    <3>2. CASE ~(i < b.size)
      BY <1>2, <3>2
    <3> QED
      BY <3>1, <3>2
  <2> QED
    BY <1>2, <2>1
<1>4. B!IsBuffer(r)
  <2>1. r \in [capacity : Nat \ {0}, size : Nat, head : Nat, tail : Nat,
               data : [0..(n - 1) -> Bytes \cup {Junk}]]
    BY <1>1, <1>3 DEF B!Resize
  <2>2. \A i \in 0..(n - 1) : r.data[i] \in Bytes <=> 0 <= i /\ i < b.size
    BY <1>1, <1>2
  <2> QED
    BY <1>1, <1>2, <2>1, <2>2 DEF B!IsBuffer
<1>5. B!Content(r) = B!Content(b)
  <2>1. \A i \in 1..b.size : r.data[r.tail + i - 1] = b.data[b.tail + i - 1]
    BY <1>1, <1>2
  <2> QED
    BY <2>1, <1>2 DEF B!Content
<1> QED
  BY <1>1, <1>2, <1>4, <1>5 DEF B!GetContinuousBytesLeft

\* Defragment keeps the unread bytes, and afterwards recv() is offered every
\* byte that is free.
THEOREM DefragmentKeepsContent ==
  ASSUME NEW b, B!IsBuffer(b)
  PROVE  /\ B!IsBuffer(B!Defragment(b))
         /\ B!Content(B!Defragment(b)) = B!Content(b)
         /\ B!GetContinuousBytesLeft(B!Defragment(b)) = b.capacity - b.size
<1>1. /\ b.capacity \in Nat \ {0} /\ b.size \in Nat /\ b.head \in Nat
      /\ b.tail \in Nat /\ b.head <= b.capacity /\ b.size = b.head - b.tail
  BY DEF B!IsBuffer
<1>2. CASE b.tail = 0 \/ b.size = b.capacity
  <2>1. b.tail = 0
    BY <1>1, <1>2
  <2> QED
    BY <1>1, <1>2, <2>1 DEF B!Defragment, B!GetContinuousBytesLeft
<1>3. CASE ~(b.tail = 0 \/ b.size = b.capacity)
  <2>1. b.capacity >= b.size
    BY <1>1
  <2> QED
    BY <1>1, <1>3, <2>1, ResizeKeepsContent DEF B!Defragment
<1> QED
  BY <1>2, <1>3

\* Reading n bytes takes the first n of the unread ones.
THEOREM ReadDropsFirst ==
  ASSUME NEW b, B!IsBuffer(b), NEW n \in 0..b.size
  PROVE  /\ B!IsBuffer(B!BytesRead(b, n))
         /\ B!Content(B!BytesRead(b, n)) = SubSeq(B!Content(b), n + 1, b.size)
<1> DEFINE r == B!BytesRead(b, n)
<1>1. /\ b.size \in Nat /\ b.tail \in Nat /\ b.head \in Nat
      /\ b.capacity \in Nat \ {0} /\ b.size = b.head - b.tail
      /\ DOMAIN b.data = 0..(b.capacity - 1)
      /\ \A i \in 0..(b.capacity - 1) : b.data[i] \in Bytes \cup {Junk}
      /\ n \in Nat /\ n <= b.size
  BY DEF B!IsBuffer
<1>2. /\ r.capacity = b.capacity /\ r.size = b.size - n /\ r.head = b.head
      /\ r.tail = b.tail + n
      /\ r.data = [i \in 0..(b.capacity - 1) |->
                     IF b.tail + n <= i THEN b.data[i] ELSE Junk]
  BY <1>1 DEF B!BytesRead, B!IsBuffer
<1>3. r.data \in [0..(b.capacity - 1) -> Bytes \cup {Junk}]
  BY <1>1, <1>2
<1>4. r \in [capacity : Nat \ {0}, size : Nat, head : Nat, tail : Nat,
            data : [0..(b.capacity - 1) -> Bytes \cup {Junk}]]
  <2>1. /\ b.size - n \in Nat /\ b.tail + n \in Nat
        /\ b \in [capacity : Nat \ {0}, size : Nat, head : Nat, tail : Nat,
                  data : [0..(b.capacity - 1) -> Bytes \cup {Junk}]]
    BY <1>1 DEF B!IsBuffer
  <2> QED
    BY <1>2, <1>3, <2>1 DEF B!BytesRead
<1>5. B!IsBuffer(r)
  <2>1. r.tail \in 0..r.head /\ r.size = r.head - r.tail
    BY <1>1, <1>2
  <2>2. \A i \in 0..(b.capacity - 1) :
          r.data[i] \in Bytes <=> b.tail + n <= i /\ i < b.head
    BY <1>1, <1>2 DEF B!IsBuffer
  <2>3. r.head \in 0..r.capacity
    BY <1>2 DEF B!IsBuffer
  <2> QED
    BY <1>2, <1>4, <2>1, <2>2, <2>3 DEF B!IsBuffer
<1>6. B!Content(r) = SubSeq(B!Content(b), n + 1, b.size)
  <2>1. \A i \in 1..(b.size - n) : r.data[r.tail + i - 1] = b.data[b.tail + n + i - 1]
    <3> SUFFICES ASSUME NEW i \in 1..(b.size - n)
                 PROVE  r.data[r.tail + i - 1] = b.data[b.tail + n + i - 1]
      OBVIOUS
    <3>1. b.tail + n + i - 1 \in 0..(b.capacity - 1) /\ b.tail + n <= b.tail + n + i - 1
      BY <1>1 DEF B!IsBuffer
    <3> QED
      BY <1>1, <1>2, <3>1
  <2>2. B!Content(b) \in Seq(Bytes) /\ Len(B!Content(b)) = b.size
    BY ContentType
  <2>3. SubSeq(B!Content(b), n + 1, b.size) =
          [i \in 1..(b.size - n) |-> B!Content(b)[n + i]]
    <3>1. \A c \in Seq(Bytes) : Len(c) = b.size =>
            SubSeq(c, n + 1, b.size) = [i \in 1..(b.size - n) |-> c[n + i]]
      BY <1>1
    <3> QED
      BY <2>2, <3>1, Zenon
  <2>4. \A i \in 1..(b.size - n) : B!Content(b)[n + i] = b.data[b.tail + n + i - 1]
    <3> SUFFICES ASSUME NEW i \in 1..(b.size - n)
                 PROVE  B!Content(b)[n + i] = b.data[b.tail + n + i - 1]
      OBVIOUS
    <3>1. n + i \in 1..b.size /\ b.tail + (n + i) - 1 = b.tail + n + i - 1
      BY <1>1
    <3>2. B!Content(b)[n + i] = b.data[b.tail + (n + i) - 1]
      BY <3>1, Zenon DEF B!Content
    <3> QED
      BY <3>1, <3>2
  <2>5. SubSeq(B!Content(b), n + 1, b.size) =
          [i \in 1..(b.size - n) |-> b.data[b.tail + n + i - 1]]
    BY <2>3, <2>4
  <2>6. B!Content(r) = [i \in 1..(b.size - n) |-> r.data[r.tail + i - 1]]
    BY <1>2, Zenon DEF B!Content
  <2> QED
    BY <2>1, <2>5, <2>6
<1> QED
  BY <1>5, <1>6

\* What recv() has put into the free room joins the unread bytes at their end.
THEOREM ReceiveAppends ==
  ASSUME NEW b, B!IsBuffer(b), NEW bytes \in Seq(Bytes),
         Len(bytes) <= B!GetContinuousBytesLeft(b)
  PROVE  /\ B!IsBuffer(B!BytesWritten(B!Write(b, bytes), Len(bytes)))
         /\ B!Content(B!BytesWritten(B!Write(b, bytes), Len(bytes))) = B!Content(b) \o bytes
<1> DEFINE n == Len(bytes)
           w == B!Write(b, bytes)
           r == B!BytesWritten(w, n)
<1>1. /\ b.size \in Nat /\ b.tail \in Nat /\ b.head \in Nat
      /\ b.capacity \in Nat \ {0} /\ b.size = b.head - b.tail
      /\ b.tail <= b.head
      /\ DOMAIN b.data = 0..(b.capacity - 1)
      /\ \A i \in 0..(b.capacity - 1) : b.data[i] \in Bytes \cup {Junk}
  BY DEF B!IsBuffer
<1>2. /\ n \in Nat /\ b.head + n <= b.capacity
      /\ \A k \in 1..n : bytes[k] \in Bytes
  BY <1>1 DEF B!GetContinuousBytesLeft
<1>3. /\ w.capacity = b.capacity /\ w.size = b.size /\ w.head = b.head
      /\ w.tail = b.tail
      /\ w.data = [i \in 0..(b.capacity - 1) |->
                     IF i \in b.head..(b.head + n - 1)
                     THEN bytes[i - b.head + 1] ELSE b.data[i]]
  BY <1>1 DEF B!Write, B!IsBuffer
<1>4. /\ r.capacity = b.capacity /\ r.size = b.size + n /\ r.head = b.head + n
      /\ r.tail = b.tail
      /\ r.data = [i \in 0..(b.capacity - 1) |->
                     IF i < b.head + n THEN w.data[i] ELSE Junk]
  BY <1>1, <1>3 DEF B!BytesWritten, B!Write, B!IsBuffer
<1>5. \A i \in 0..(b.capacity - 1) :
        /\ i < b.head => r.data[i] = b.data[i]
        /\ b.head <= i /\ i < b.head + n => r.data[i] = bytes[i - b.head + 1]
        /\ b.head + n <= i => r.data[i] = Junk
  BY <1>1, <1>2, <1>3, <1>4
<1>6. \A i \in 0..(b.capacity - 1) :
        r.data[i] \in Bytes \cup {Junk}
        /\ (r.data[i] \in Bytes <=> r.tail <= i /\ i < r.head)
  <2> SUFFICES ASSUME NEW i \in 0..(b.capacity - 1)
               PROVE  /\ r.data[i] \in Bytes \cup {Junk}
                      /\ r.data[i] \in Bytes <=> b.tail <= i /\ i < b.head + n
    BY <1>4
  <2>1. CASE i < b.head
    BY <1>1, <1>2, <1>5, <2>1 DEF B!IsBuffer
  <2>2. CASE b.head <= i /\ i < b.head + n
    <3>1. i - b.head + 1 \in 1..n
      BY <1>1, <1>2, <2>2
    <3>2. r.data[i] = bytes[i - b.head + 1]
      BY <1>5, <2>2
    <3>3. r.data[i] \in Bytes
      BY <1>2, <3>1, <3>2
    <3>4. b.tail <= i
      BY <1>1, <2>2
    <3> HIDE DEF n, w, r
    <3> QED
      BY <2>2, <3>3, <3>4
  <2>3. CASE b.head + n <= i
    BY <1>1, <1>2, <1>5, <2>3
  <2> QED
    BY <1>1, <1>2, <2>1, <2>2, <2>3
<1>7. B!IsBuffer(r)
  <2>1. r.data \in [0..(b.capacity - 1) -> Bytes \cup {Junk}]
    BY <1>4, <1>6
  <2>2. r \in [capacity : Nat \ {0}, size : Nat, head : Nat, tail : Nat,
               data : [0..(b.capacity - 1) -> Bytes \cup {Junk}]]
    <3>1. /\ b.size + n \in Nat /\ b.head + n \in Nat
          /\ b \in [capacity : Nat \ {0}, size : Nat, head : Nat, tail : Nat,
                    data : [0..(b.capacity - 1) -> Bytes \cup {Junk}]]
      BY <1>1, <1>2 DEF B!IsBuffer
    <3> QED
      BY <1>3, <1>4, <2>1, <3>1 DEF B!BytesWritten, B!Write
  <2>3. /\ r.head \in 0..r.capacity /\ r.tail \in 0..r.head
        /\ r.size = r.head - r.tail
    BY <1>1, <1>2, <1>4
  <2> QED
    BY <1>4, <1>6, <2>2, <2>3 DEF B!IsBuffer
<1>8. B!Content(r) = B!Content(b) \o bytes
  <2>1. B!Content(b) \in Seq(Bytes) /\ Len(B!Content(b)) = b.size
    BY ContentType
  <2>2. B!Content(r) \in Seq(Bytes) /\ Len(B!Content(r)) = b.size + n
    BY <1>4, <1>7, ContentType
  <2>3. /\ B!Content(b) \o bytes \in Seq(Bytes)
        /\ Len(B!Content(b) \o bytes) = b.size + n
        /\ \A k \in 1..(b.size + n) : (B!Content(b) \o bytes)[k] =
             IF k <= b.size THEN B!Content(b)[k] ELSE bytes[k - b.size]
    BY <2>1, <1>2, ConcatProperties, SMTT(20)
  <2>4. ASSUME NEW k \in 1..(b.size + n)
        PROVE  B!Content(r)[k] = (B!Content(b) \o bytes)[k]
    <3>1. B!Content(r)[k] = r.data[b.tail + k - 1]
      BY <1>4, <2>4 DEF B!Content
    <3>2. b.tail + k - 1 \in 0..(b.capacity - 1)
      <4> HIDE DEF n, w, r
      <4>1. k \in Nat /\ 1 <= k /\ k <= b.size + n
        BY <1>1, <1>2
      <4>2. b.head = b.tail + b.size /\ b.head + n <= b.capacity
        BY <1>1, <1>2
      <4>3. b.tail \in Nat /\ b.size \in Nat /\ b.capacity \in Nat /\ n \in Nat
        BY <1>1, <1>2
      <4> QED
        BY <4>1, <4>2, <4>3, SMTT(20)
    <3>3. CASE k <= b.size
      <4>1. b.tail + k - 1 < b.head /\ k \in 1..b.size
        BY <1>1, <1>2, <3>3
      <4>2. B!Content(b)[k] = b.data[b.tail + k - 1]
        BY <4>1 DEF B!Content
      <4> QED
        BY <1>5, <2>3, <3>1, <3>2, <3>3, <4>1, <4>2
    <3>4. CASE k > b.size
      <4>1. /\ b.head <= b.tail + k - 1 /\ b.tail + k - 1 < b.head + n
            /\ (b.tail + k - 1) - b.head + 1 = k - b.size
            /\ ~(k <= b.size)
        BY <1>1, <1>2, <3>4, SMTT(20)
      <4>2. r.data[b.tail + k - 1] = bytes[k - b.size]
        BY <1>5, <3>2, <4>1
      <4> QED
        BY <2>3, <3>1, <4>1, <4>2
    <3>5. k \in Int /\ b.size \in Int
      <4> HIDE DEF n, w, r
      <4> QED
        BY <1>1, <1>2
    <3>6. k <= b.size \/ k > b.size
      BY <3>5
    <3> QED
      BY <3>3, <3>4, <3>6
  <2> QED
    BY <2>2, <2>3, <2>4, SeqEqual
<1> QED
  BY <1>7, <1>8

LEMMA FieldTypes ==
  ASSUME NEW b, B!IsBuffer(b)
  PROVE  /\ b.capacity \in Nat \ {0} /\ b.size \in Nat
         /\ b.size <= b.capacity
         /\ B!Content(b) \in Seq(Bytes) /\ Len(B!Content(b)) = b.size
<1>1. b.capacity \in Nat \ {0} /\ b.size \in Nat /\ b.size <= b.capacity
  BY DEF B!IsBuffer
<1> QED
  BY <1>1, ContentType

\* BytesWritten with recv()'s -1, when the assertion lets it: the last unread
\* byte is lost and the buffer is in order.
LEMMA FailureInOrder ==
  ASSUME NEW b, B!IsBuffer(b), B!BytesWrittenAsserts(b, -1)
  PROVE  /\ B!IsBuffer(B!BytesWritten(b, -1))
         /\ B!BytesWritten(b, -1).size = b.size - 1
         /\ \A k \in 1..(b.size - 1) :
              B!Content(B!BytesWritten(b, -1))[k] = B!Content(b)[k]
<1> DEFINE r == B!BytesWritten(b, -1)
<1>1. /\ b.size \in Nat /\ b.tail \in Nat /\ b.head \in Nat
      /\ b.capacity \in Nat \ {0} /\ b.size = b.head - b.tail
      /\ b.head <= b.capacity /\ 1 <= b.size
      /\ DOMAIN b.data = 0..(b.capacity - 1)
      /\ \A i \in 0..(b.capacity - 1) : b.data[i] \in Bytes \cup {Junk}
  BY DEF B!IsBuffer, B!BytesWrittenAsserts
<1>2. /\ r.capacity = b.capacity /\ r.size = b.size - 1
      /\ r.head = b.head - 1 /\ r.tail = b.tail
      /\ r.data = [i \in 0..(b.capacity - 1) |->
                     IF i < b.head - 1 THEN b.data[i] ELSE Junk]
  BY <1>1 DEF B!BytesWritten, B!IsBuffer
<1>3. r.data \in [0..(b.capacity - 1) -> Bytes \cup {Junk}]
  BY <1>1, <1>2
<1>4. r \in [capacity : Nat \ {0}, size : Nat, head : Nat, tail : Nat,
            data : [0..(b.capacity - 1) -> Bytes \cup {Junk}]]
  <2>1. /\ b.size - 1 \in Nat /\ b.head - 1 \in Nat
        /\ b \in [capacity : Nat \ {0}, size : Nat, head : Nat, tail : Nat,
                  data : [0..(b.capacity - 1) -> Bytes \cup {Junk}]]
    BY <1>1 DEF B!IsBuffer
  <2> QED
    BY <1>2, <1>3, <2>1 DEF B!BytesWritten
<1>5. \A i \in 0..(b.capacity - 1) :
        r.data[i] \in Bytes <=> b.tail <= i /\ i < b.head - 1
  <2>1. \A i \in 0..(b.capacity - 1) :
          b.data[i] \in Bytes <=> b.tail <= i /\ i < b.head
    BY DEF B!IsBuffer
  <2>2. Junk \notin Bytes
    BY DataSinkAssumption
  <2> SUFFICES ASSUME NEW i \in 0..(b.capacity - 1)
               PROVE  r.data[i] \in Bytes <=> b.tail <= i /\ i < b.head - 1
    OBVIOUS
  <2>3. i \in Int /\ (i < b.head - 1 => i < b.head)
    BY <1>1
  <2>4. r.data[i] = IF i < b.head - 1 THEN b.data[i] ELSE Junk
    BY <1>2
  <2> HIDE DEF r
  <2> QED
    BY <2>1, <2>2, <2>3, <2>4
<1>6. /\ r.head \in 0..r.capacity /\ r.tail \in 0..r.head
      /\ r.size = r.head - r.tail
  BY <1>1, <1>2
<1>7. \A k \in 1..(b.size - 1) : B!Content(r)[k] = B!Content(b)[k]
  <2> SUFFICES ASSUME NEW k \in 1..(b.size - 1)
               PROVE  B!Content(r)[k] = B!Content(b)[k]
    OBVIOUS
  <2>1. /\ b.tail + k - 1 \in 0..(b.capacity - 1) /\ b.tail + k - 1 < b.head - 1
        /\ k \in 1..b.size /\ k \in 1..r.size
    <3> HIDE DEF r
    <3>1. /\ b.size \in Int /\ b.tail \in Nat /\ b.head \in Int /\ b.capacity \in Int
          /\ b.head = b.tail + b.size /\ b.head <= b.capacity
      BY <1>1
    <3>2. k \in Int /\ 1 <= k /\ k <= b.size - 1 /\ r.size = b.size - 1
      BY <1>2, <3>1
    <3> QED
      BY <3>1, <3>2
  <2>2. r.data[b.tail + k - 1] = b.data[b.tail + k - 1]
    BY <1>2, <2>1
  <2> HIDE DEF r
  <2> QED
    BY <1>2, <2>1, <2>2 DEF B!Content
<1>8. B!IsBuffer(r)
  BY <1>2, <1>4, <1>5, <1>6 DEF B!IsBuffer
<1> QED
  BY <1>2, <1>7, <1>8

-----------------------------------------------------------------------------
(* Every buffer stays in order.                                            *)

\* A connection that was accepted carries one of the streams.
StreamsOfOpen == \A c \in Clients : status[c] # "new" => stream[c] \in Streams

\* Total is a number for a stream that some connection may carry, which is
\* why the type alone is not inductive.
IInv == TypeOK /\ StreamsOfOpen


LEMMA InvInit == Init => IInv
<1> SUFFICES ASSUME Init PROVE IInv
  OBVIOUS
<1>1. \A c \in Clients : B!IsBuffer(buf[c])
  <2>1. StartSize \in Nat \ {0}
    BY DataSinkAssumption DEF HeaderSize
  <2>2. B!IsBuffer(B!New(StartSize))
    BY <2>1, NewIsEmpty
  <2> QED
    BY <2>2 DEF Init
<1>2. routed \in [Clients -> Seq(Seq(Bytes))]
  <2>1. <<>> \in Seq(Seq(Bytes))
    BY EmptySeq
  <2> QED
    BY <2>1 DEF Init
<1>3. taken \in [Clients -> 0..MaxBytes]
  BY DataSinkAssumption DEF Init
<1> QED
  BY <1>1, <1>2, <1>3 DEF Init, IInv, TypeOK, StreamsOfOpen, Status

\* The steps of _AcceptCallback and of _ReadCallback as far as recv().
LEMMA ReceiveKeeps ==
  ASSUME IInv, NEW c \in Clients
  PROVE  /\ \A s \in Streams : Accept(c, s) => IInv'
         /\ \A n \in 1..MaxBytes : Receive(c, n) => IInv'
         /\ ReceiveEnd(c) => IInv'
         /\ ReceiveFails(c) => IInv'
<1> USE DEF IInv, TypeOK, StreamsOfOpen, Status
<1>1. ASSUME NEW s \in Streams, Accept(c, s)
      PROVE  IInv'
  <2>1. \A d \in Clients : B!IsBuffer(buf'[d])
    BY <1>1, NewIsEmpty, DataSinkAssumption DEF Accept, HeaderSize
  <2> QED
    BY <1>1, <2>1 DEF Accept
<1>2. ASSUME NEW n \in 1..MaxBytes, Receive(c, n)
      PROVE  IInv'
  <2> DEFINE b == B!Defragment(buf[c])
             bytes == NextBytes(c, n)
  <2>1. B!IsBuffer(b)
    BY DefragmentKeepsContent
  <2>2. /\ n \in Nat /\ MaxBytes \in Nat /\ taken[c] \in 0..MaxBytes
        /\ taken[c] + n <= MaxBytes
    <3>1. stream[c] \in Streams
      BY <1>2 DEF Receive, Readable
    <3>2. Total(stream[c]) \in 0..MaxBytes
      BY <3>1, DataSinkAssumption
    <3>3. n <= Total(stream[c]) - taken[c]
      BY <1>2 DEF Receive
    <3> QED
      BY <3>2, <3>3, DataSinkAssumption
  <2>3. bytes \in Seq(Bytes) /\ Len(bytes) = n
    <3>1. \A i \in 1..n : taken[c] + i \in Bytes
      BY <2>2 DEF Bytes
    <3>2. bytes \in [1..n -> Bytes]
      BY <3>1 DEF NextBytes
    <3> QED
      BY <2>2, <3>2
  <2>4. n <= B!GetContinuousBytesLeft(b)
    BY <1>2 DEF Receive, Room
  <2>5. B!IsBuffer(B!BytesWritten(B!Write(b, bytes), n))
    BY <2>1, <2>3, <2>4, ReceiveAppends
  <2>6. /\ buf' = [buf EXCEPT ![c] =
                     B!BytesWritten(B!Write(B!Defragment(@), NextBytes(c, n)), n)]
        /\ taken' = [taken EXCEPT ![c] = @ + n]
        /\ callback' = c
        /\ UNCHANGED <<status, stream, routed, ended, aborted>>
    BY <1>2 DEF Receive
  <2>7. \A d \in Clients : B!IsBuffer(buf'[d])
    BY <2>5, <2>6
  <2>8. taken' \in [Clients -> 0..MaxBytes]
    BY <2>2, <2>6
  <2> QED
    BY <2>6, <2>7, <2>8
<1>3. ASSUME ReceiveEnd(c)
      PROVE  IInv'
  BY <1>3 DEF ReceiveEnd, DeleteWatcher
<1>4. ASSUME ReceiveFails(c)
      PROVE  IInv'
  <2> DEFINE b == B!Defragment(buf[c])
  <2>1. B!IsBuffer(b)
    BY DefragmentKeepsContent
  <2>2. /\ status[c] = "open"
        /\ ended' = ended \cup {c}
        /\ status' = [status EXCEPT ![c] = "failed"]
        /\ UNCHANGED <<stream, taken, routed>>
    BY <1>4 DEF ReceiveFails, Readable
  <2>3. CASE B!BytesWrittenAsserts(b, -1)
    <3>1. B!IsBuffer(B!BytesWritten(b, -1))
      BY <2>1, <2>3, FailureInOrder
    <3>2. /\ buf' = [buf EXCEPT ![c] = B!BytesWritten(b, -1)]
          /\ callback' = c /\ UNCHANGED aborted
      BY <1>4, <2>3 DEF ReceiveFails
    <3>3. \A d \in Clients : B!IsBuffer(buf'[d])
      BY <3>1, <3>2
    <3> QED
      BY <2>2, <3>2, <3>3
  <2>4. CASE ~B!BytesWrittenAsserts(b, -1)
    <3>1. aborted' = TRUE /\ UNCHANGED <<buf, callback>>
      BY <1>4, <2>4 DEF ReceiveFails
    <3> QED
      BY <2>2, <3>1
  <2> QED
    BY <2>3, <2>4
<1> QED
  BY <1>1, <1>2, <1>3, <1>4

\* One round of the loop over the messages: a round that grows the buffer at
\* least doubles it, and one that routes a message has it in the buffer.
LEMMA LoopKeeps ==
  ASSUME IInv, NEW c \in Clients, LoopBody(c)
  PROVE  IInv'
<1> USE DEF IInv, TypeOK, StreamsOfOpen, Status
<1>1. CASE NothingLeft(c)
  BY <1>1 DEF NothingLeft, LeaveLoop
<1>2. CASE NextMessage(c)
  <2>1. PICK i \in MessagesAt(c) :
          LET length == stream[c][i] IN
            Grow(c, length) \/ Fragment(c, length) \/ RouteMessage(c, length)
    BY <1>2 DEF NextMessage
  <2> DEFINE length == stream[c][i]
             b == buf[c]
  <2>2. UNCHANGED <<status, stream, taken, ended, aborted>>
    BY <1>2 DEF NextMessage
  <2>3. length \in Nat \ {0}
    <3>1. i \in 1..Len(stream[c])
      BY DEF MessagesAt
    <3>2. CASE stream[c] \in Streams
      BY <3>1, <3>2, DataSinkAssumption
    <3>3. CASE stream[c] = <<>>
      BY <3>1, <3>3
    <3> QED
      BY <3>2, <3>3
  <2>4. /\ B!IsBuffer(b) /\ b.capacity \in Nat \ {0} /\ b.size \in Nat
        /\ B!Content(b) \in Seq(Bytes) /\ Len(B!Content(b)) = b.size
    BY FieldTypes
  <2> HIDE DEF length
  <2>5. CASE Grow(c, length)
    <3>1. NewCapacity(c, length) \in Nat /\ NewCapacity(c, length) >= 2 * b.capacity
      BY <2>3, <2>4 DEF NewCapacity
    <3>0. NewCapacity(c, length) \in Nat \ {0} /\ NewCapacity(c, length) >= b.size
      BY <2>4, <3>1, FieldTypes
    <3>2. B!IsBuffer(B!Resize(b, NewCapacity(c, length)))
      BY <2>4, <3>0, ResizeKeepsContent
    <3>3. /\ buf' = [buf EXCEPT ![c] = B!Resize(@, NewCapacity(c, length))]
          /\ callback' = NoClient /\ UNCHANGED routed
      BY <2>5 DEF Grow, LeaveLoop
    <3>4. \A d \in Clients : B!IsBuffer(buf'[d])
      BY <3>2, <3>3
    <3> QED
      BY <2>2, <3>3, <3>4
  <2>6. CASE Fragment(c, length)
    BY <2>2, <2>6 DEF Fragment, LeaveLoop
  <2>7. CASE RouteMessage(c, length)
    <3> DEFINE n == HeaderSize + length
               payload == SubSeq(B!Content(b), HeaderSize + 1, n)
    <3>1. n \in 0..b.size
      BY <2>3, <2>4, <2>7 DEF RouteMessage, HeaderSize
    <3>2. B!IsBuffer(B!BytesRead(b, n))
      BY <2>4, <3>1, ReadDropsFirst
    <3>3. payload \in Seq(Bytes)
      <4>1. \A k \in (HeaderSize + 1)..n : k \in 1..b.size
        BY <2>4, <3>1 DEF HeaderSize
      <4>2. HeaderSize + 1 \in Int /\ n \in Int
        BY <2>3 DEF HeaderSize
      <4>3. \A k \in (HeaderSize + 1)..n : B!Content(b)[k] \in Bytes
        BY <2>4, <4>1
      <4> QED
        BY <2>4, <4>1, <4>2, <4>3, SubSeqProperties
    <3>4. /\ routed' = [routed EXCEPT ![c] = Append(@, payload)]
          /\ buf' = [buf EXCEPT ![c] = B!BytesRead(@, n)]
          /\ UNCHANGED callback
      BY <2>7 DEF RouteMessage
    <3>5. \A d \in Clients : B!IsBuffer(buf'[d])
      BY <3>2, <3>4
    <3>6. routed' \in [Clients -> Seq(Seq(Bytes))]
      <4>1. Append(routed[c], payload) \in Seq(Seq(Bytes))
        BY <3>3, AppendProperties
      <4> HIDE DEF payload, n
      <4> QED
        BY <3>4, <4>1
    <3> QED
      BY <2>2, <3>4, <3>5, <3>6
  <2> QED
    BY <2>1, <2>5, <2>6, <2>7 DEF length
<1> QED
  BY <1>1, <1>2 DEF LoopBody

LEMMA InvStep == IInv /\ [Next]_vars => IInv'
<1> SUFFICES ASSUME IInv, [Next]_vars PROVE IInv'
  OBVIOUS
<1>1. CASE UNCHANGED vars
  BY <1>1 DEF vars, IInv, TypeOK, StreamsOfOpen
<1>2. CASE Ended
  BY <1>1, <1>2 DEF Ended, vars, IInv, TypeOK, StreamsOfOpen
<1>3. ASSUME NEW c \in Clients,
             \/ \E s \in Streams : Accept(c, s)
             \/ \E n \in 1..MaxBytes : Receive(c, n)
             \/ ReceiveEnd(c) \/ ReceiveFails(c) \/ LoopBody(c)
      PROVE  IInv'
  BY <1>3, ReceiveKeeps, LoopKeeps
<1> QED
  BY <1>1, <1>2, <1>3 DEF Next

\* The variables keep their types: on any stream, however it is cut and
\* wherever recv() fails, no operation of _ReadCallback puts the head behind
\* the tail, reads past the head or loses count of the unread bytes, and no
\* byte that was not received is ever routed.
THEOREM TypeCorrect == Spec => []TypeOK
<1>1. IInv => TypeOK
  BY DEF IInv
<1> QED
  BY <1>1, InvInit, InvStep, PTL DEF Spec

-----------------------------------------------------------------------------
(* There is always room to receive into.                                   *)

\* Outside _ReadCallback the buffer of an open connection is not full: a
\* callback ends with less than a header, with a part of a message that fits,
\* or with a buffer that has grown.
RoomInv ==
  /\ \A c \in Clients :
       /\ buf[c].capacity > HeaderSize
       /\ status[c] = "open" /\ callback # c => buf[c].size < buf[c].capacity
       /\ status[c] \in {"failed", "closed"} => c \in ended
       /\ callback = c => status[c] \in {"open", "failed"}

RInv == IInv /\ RoomInv

LEMMA RoomAfterDefragment ==
  ASSUME NEW b, B!IsBuffer(b)
  PROVE  /\ B!GetContinuousBytesLeft(B!Defragment(b)) = b.capacity - b.size
         /\ B!Defragment(b).capacity = b.capacity
         /\ B!Defragment(b).size = b.size
BY DefragmentKeepsContent DEF B!Defragment, B!Resize

LEMMA RoomInit == Init => RInv
<1> SUFFICES ASSUME Init PROVE RoomInv
  BY InvInit DEF RInv
<1>1. StartSize \in Nat /\ StartSize > HeaderSize /\ NoClient \notin Clients
  BY DataSinkAssumption
<1> QED
  BY <1>1 DEF Init, RoomInv, B!New

LEMMA RoomReceive ==
  ASSUME RInv, NEW c \in Clients
  PROVE  /\ \A s \in Streams : Accept(c, s) => RoomInv'
         /\ \A n \in 1..MaxBytes : Receive(c, n) => RoomInv'
         /\ ReceiveEnd(c) => RoomInv'
         /\ ReceiveFails(c) => RoomInv'
<1> USE DEF RInv, IInv, TypeOK, Status, RoomInv
<1>0. StartSize \in Nat /\ StartSize > HeaderSize /\ NoClient \notin Clients
  BY DataSinkAssumption
<1> DEFINE b == B!Defragment(buf[c])
<1>1. /\ b.capacity = buf[c].capacity /\ b.size = buf[c].size
      /\ Room(c) = buf[c].capacity - buf[c].size
      /\ buf[c].capacity \in Nat /\ buf[c].size \in Nat
  BY RoomAfterDefragment, FieldTypes DEF Room
<1>2. ASSUME NEW s \in Streams, Accept(c, s)
      PROVE  RoomInv'
  <2>1. /\ buf' = [buf EXCEPT ![c] = B!New(StartSize)]
        /\ status' = [status EXCEPT ![c] = "open"]
        /\ callback = NoClient
        /\ UNCHANGED <<callback, ended>>
    BY <1>2 DEF Accept
  <2>2. B!New(StartSize).capacity = StartSize /\ B!New(StartSize).size = 0
    BY DEF B!New
  <2>3. /\ buf'[c].capacity > HeaderSize /\ buf'[c].size < buf'[c].capacity
        /\ \A d \in Clients \ {c} : buf'[d] = buf[d]
    BY <1>0, <2>1, <2>2 DEF HeaderSize
  <2> HIDE DEF b
  <2> QED
    BY <1>0, <2>1, <2>3
<1>3. ASSUME NEW n \in 1..MaxBytes, Receive(c, n)
      PROVE  RoomInv'
  <2>1. /\ buf' = [buf EXCEPT ![c] = B!BytesWritten(B!Write(b, NextBytes(c, n)), n)]
        /\ callback = NoClient /\ status[c] = "open" /\ callback' = c
        /\ UNCHANGED <<status, ended>>
    BY <1>3 DEF Receive, Readable
  <2>2. B!IsBuffer(b)
    BY DefragmentKeepsContent
  <2>3. B!BytesWritten(B!Write(b, NextBytes(c, n)), n).capacity = b.capacity
    BY <2>2 DEF B!BytesWritten, B!Write, B!IsBuffer
  <2>4. buf'[c].capacity = buf[c].capacity /\ \A d \in Clients \ {c} : buf'[d] = buf[d]
    BY <1>1, <2>1, <2>3
  <2> HIDE DEF b
  <2> QED
    BY <1>0, <2>1, <2>4
<1>4. ASSUME ReceiveEnd(c)
      PROVE  RoomInv'
  <2>1. Room(c) > 0 \/ status[c] = "failed"
    <3>1. callback # c /\ status[c] \in {"open", "failed"}
      BY <1>0, <1>4 DEF ReceiveEnd
    <3>2. status[c] = "open" => buf[c].size < buf[c].capacity
      BY <3>1
    <3> HIDE DEF b
    <3> QED
      BY <1>1, <3>1, <3>2
  <2>2. c \in ended'
    BY <1>4, <2>1 DEF ReceiveEnd
  <2>3. ended \subseteq ended'
    BY <1>4 DEF ReceiveEnd
  <2> QED
    BY <1>0, <1>4, <2>2, <2>3 DEF ReceiveEnd, DeleteWatcher
<1>5. ASSUME ReceiveFails(c)
      PROVE  RoomInv'
  <2>1. /\ callback = NoClient /\ status[c] = "open"
        /\ ended' = ended \cup {c}
        /\ status' = [status EXCEPT ![c] = "failed"]
        /\ callback' \in {c, NoClient}
    BY <1>5 DEF ReceiveFails, Readable
  <2>2. B!IsBuffer(b)
    BY DefragmentKeepsContent
  <2>3. B!BytesWritten(b, -1).capacity = b.capacity
    BY <2>2 DEF B!BytesWritten, B!IsBuffer
  <2>4. \/ buf' = buf
        \/ buf' = [buf EXCEPT ![c] = B!BytesWritten(b, -1)]
    BY <1>5 DEF ReceiveFails
  <2>5. buf'[c].capacity = buf[c].capacity /\ \A d \in Clients \ {c} : buf'[d] = buf[d]
    BY <1>1, <2>3, <2>4
  <2> HIDE DEF b
  <2> QED
    BY <1>0, <2>1, <2>5
<1> QED
  BY <1>2, <1>3, <1>4, <1>5

LEMMA RoomLoop ==
  ASSUME RInv, NEW c \in Clients, LoopBody(c)
  PROVE  RoomInv'
<1> USE DEF RInv, IInv, TypeOK, Status, RoomInv
<1>0. StartSize \in Nat /\ StartSize > HeaderSize /\ NoClient \notin Clients
  BY DataSinkAssumption
<1> DEFINE b == buf[c]
<1>1. /\ b.capacity \in Nat \ {0} /\ b.size \in Nat /\ b.size <= b.capacity
      /\ callback = c
  BY FieldTypes DEF LoopBody
<1>2. CASE NothingLeft(c)
  <2>1. b.size < b.capacity
    BY <1>1, <1>2 DEF NothingLeft, MayHoldMessage, HeaderSize
  <2> QED
    BY <1>0, <1>1, <1>2, <2>1 DEF NothingLeft, LeaveLoop
<1>3. CASE NextMessage(c)
  <2>1. PICK i \in MessagesAt(c) :
          LET length == stream[c][i] IN
            Grow(c, length) \/ Fragment(c, length) \/ RouteMessage(c, length)
    BY <1>3 DEF NextMessage
  <2> DEFINE length == stream[c][i]
  <2>2. UNCHANGED <<status, stream, taken, ended, aborted>>
    BY <1>3 DEF NextMessage
  <2>3. length \in Nat
    <3>1. i \in 1..Len(stream[c])
      BY DEF MessagesAt
    <3>2. CASE stream[c] \in Streams
      BY <3>1, <3>2, DataSinkAssumption
    <3>3. CASE stream[c] = <<>>
      BY <3>1, <3>3
    <3> QED
      BY <3>2, <3>3
  <2> HIDE DEF length
  <2>4. CASE Grow(c, length)
    <3>1. NewCapacity(c, length) >= 2 * b.capacity /\ NewCapacity(c, length) \in Nat
      BY <1>1, <2>3 DEF NewCapacity
    <3>2. /\ buf'[c].capacity = NewCapacity(c, length) /\ buf'[c].size = b.size
          /\ \A d \in Clients \ {c} : buf'[d] = buf[d]
          /\ callback' = NoClient
      BY <2>4 DEF Grow, LeaveLoop, B!Resize
    <3>3. buf'[c].capacity > HeaderSize /\ buf'[c].size < buf'[c].capacity
      BY <1>1, <3>1, <3>2 DEF HeaderSize
    <3> HIDE DEF b
    <3> QED
      BY <1>0, <1>1, <2>2, <3>2, <3>3
  <2>5. CASE Fragment(c, length)
    <3>1. b.size < b.capacity
      BY <1>1, <2>3, <2>5 DEF Fragment, Fits, HeaderSize
    <3> QED
      BY <1>0, <1>1, <2>2, <2>5, <3>1 DEF Fragment, LeaveLoop
  <2>6. CASE RouteMessage(c, length)
    <3>1. buf' = [buf EXCEPT ![c] = B!BytesRead(@, HeaderSize + length)]
          /\ UNCHANGED callback
      BY <2>6 DEF RouteMessage
    <3>2. B!BytesRead(b, HeaderSize + length).capacity = b.capacity
      BY DEF B!BytesRead, B!IsBuffer
    <3>3. buf'[c].capacity = b.capacity /\ \A d \in Clients \ {c} : buf'[d] = buf[d]
      BY <3>1, <3>2
    <3> HIDE DEF b
    <3> QED
      BY <1>0, <1>1, <2>2, <3>1, <3>3 DEF b
  <2> QED
    BY <2>1, <2>4, <2>5, <2>6 DEF length
<1> QED
  BY <1>2, <1>3 DEF LoopBody

LEMMA RoomStep == RInv /\ [Next]_vars => RInv'
<1> SUFFICES ASSUME RInv, [Next]_vars PROVE RoomInv'
  BY InvStep DEF RInv
<1>1. CASE UNCHANGED vars
  BY <1>1 DEF vars, RInv, RoomInv
<1>2. CASE Ended
  BY <1>1, <1>2 DEF Ended, vars, RInv, RoomInv
<1>3. ASSUME NEW c \in Clients,
             \/ \E s \in Streams : Accept(c, s)
             \/ \E n \in 1..MaxBytes : Receive(c, n)
             \/ ReceiveEnd(c) \/ ReceiveFails(c) \/ LoopBody(c)
      PROVE  RoomInv'
  BY <1>3, RoomReceive, RoomLoop
<1> QED
  BY <1>1, <1>2, <1>3 DEF Next

\* Whatever the daemon sends and however TCP cuts it, and whatever the size
\* the buffer starts with, recv() is always offered room: the 0 it returns is
\* the client's end, and no live client is ever closed (_ReadCallback).
THEOREM LiveClientsStay == Spec => []OnlyGoneClientsClosed
<1>1. RInv => OnlyGoneClientsClosed
  BY DEF RInv, RoomInv, OnlyGoneClientsClosed
<1> QED
  BY <1>1, RoomInit, RoomStep, PTL DEF Spec
-----------------------------------------------------------------------------
(* Induction: the least element of a set of numbers, and from it the       *)
(* induction over data that the positions in a stream need.                *)

LEMMA LeastOfNat ==
  ASSUME NEW T, T \subseteq Nat, T # {}
  PROVE  \E x \in T : \A y \in T : x <= y
<1>1. IsWellFoundedOn(OpToRel(<, Nat), Nat)
  BY NatLessThanWellFounded
<1>2. PICK x \in T : \A y \in T : ~ (<<y, x>> \in OpToRel(<, Nat))
  BY <1>1, WFMin, Zenon
<1>3. \A y \in T : y \in Nat /\ x \in Nat /\ ~(y < x)
  BY <1>2 DEF OpToRel
<1>4. \A y \in T : x <= y
  BY <1>3
<1> QED
  BY <1>2, <1>4

LEMMA InductionOnNat ==
  ASSUME NEW S, 0 \in S, \A n \in Nat : n \in S => n + 1 \in S
  PROVE  Nat \subseteq S
<1> DEFINE T == Nat \ S
<1> SUFFICES ASSUME T # {} PROVE FALSE
  OBVIOUS
<1>1. PICK x \in T : \A y \in T : x <= y
  BY LeastOfNat, Zenon
<1>2. x # 0 /\ x \in Nat
  BY <1>1
<1>3. x - 1 \in Nat /\ ~(x <= x - 1)
  BY <1>2
<1>4. x - 1 \in S
  BY <1>1, <1>3
<1> QED
  BY <1>1, <1>3, <1>4

\* The first byte of each message comes behind the header and the payload of
\* the message before it.
LEMMA StartIs ==
  ASSUME NEW s \in Seq(Nat)
  PROVE  /\ Start(s) \in [1..(Len(s) + 1) -> Nat]
         /\ Start(s)[1] = 1
         /\ \A i \in 1..Len(s) : Start(s)[i + 1] = Start(s)[i] + HeaderSize + s[i]
<1> DEFINE N == Len(s)
           Value(g, i) == IF i = 1 THEN 1 ELSE g[i - 1] + HeaderSize + s[i - 1]
           Starts(g, m) == \A i \in 1..(m + 1) : g[i] = Value(g, i)
           Defined(m) == \E g \in [1..(m + 1) -> Nat] : Starts(g, m)
           S == {m \in Nat : m <= N => Defined(m)}
<1>0. N \in Nat
  OBVIOUS
<1>1. 0 \in S
  <2>1. [i \in 1..1 |-> 1] \in [1..1 -> Nat] /\ Starts([i \in 1..1 |-> 1], 0)
    OBVIOUS
  <2> HIDE DEF Starts
  <2>2. \E g \in [1..(0 + 1) -> Nat] : Starts(g, 0)
    BY <2>1
  <2> QED
    BY <2>2
<1>2. ASSUME NEW m \in Nat, m \in S
      PROVE  m + 1 \in S
  <2> SUFFICES ASSUME m + 1 <= N
               PROVE  Defined(m + 1)
    <3> HIDE DEF Defined, N
    <3> QED
      OBVIOUS
  <2>1. PICK g \in [1..(m + 1) -> Nat] : Starts(g, m)
    BY <1>2, SMTT(20)
  <2> DEFINE h == [i \in 1..(m + 1 + 1) |->
                     IF i <= m + 1 THEN g[i] ELSE g[m + 1] + HeaderSize + s[m + 1]]
  <2>2. h \in [1..(m + 1 + 1) -> Nat]
    BY <1>2 DEF HeaderSize
  <2>3. Starts(h, m + 1)
    BY <2>1 DEF HeaderSize
  <2> HIDE DEF Starts, h
  <2> QED
    BY <2>2, <2>3
<1>3. N \in S
  <2> HIDE DEF S
  <2>1. Nat \subseteq S
    BY <1>1, <1>2, InductionOnNat
  <2> QED
    BY <2>1
<1>4. PICK g \in [1..(N + 1) -> Nat] : Starts(g, N)
  BY <1>3
<1>5. g = [i \in 1..(N + 1) |-> Value(g, i)]
  BY <1>4
<1> DEFINE f == CHOOSE h : h = [i \in 1..(N + 1) |-> Value(h, i)]
<1>6. f = [i \in 1..(N + 1) |-> Value(f, i)]
  BY <1>5, Zenon
<1>7. Start(s) = f
  BY Zenon DEF Start
<1>8. Start(s) = [i \in 1..(N + 1) |-> Value(Start(s), i)]
  BY <1>6, <1>7
<1> DEFINE F == Start(s)
           D == {m \in Nat : m <= N => F[m + 1] \in Nat}
<1> HIDE DEF f, F
<1>9. \A i \in 1..(N + 1) : F[i] = Value(F, i)
  BY <1>8 DEF F
<1>10. Nat \subseteq D
  <2>1. 0 \in D
    <3>1. F[1] = 1
      BY <1>0, <1>9
    <3> QED
      BY <3>1
  <2>2. ASSUME NEW m \in Nat, m \in D
        PROVE  m + 1 \in D
    <3> SUFFICES ASSUME m + 1 <= N PROVE F[m + 1 + 1] \in Nat
      OBVIOUS
    <3>1. F[m + 1] \in Nat
      BY <1>0, <2>2
    <3>2. s[m + 1] \in Nat /\ HeaderSize \in Nat
      BY DEF HeaderSize
    <3>3. m + 1 + 1 \in 1..(N + 1) /\ m + 1 + 1 # 1 /\ m + 1 + 1 - 1 = m + 1
      BY <1>0
    <3>4. F[m + 1 + 1] = F[m + 1] + HeaderSize + s[m + 1]
      BY <1>9, <3>3
    <3> QED
      BY <3>1, <3>2, <3>4
  <2> HIDE DEF D
  <2> QED
    BY <2>1, <2>2, InductionOnNat
<1>11. \A i \in 1..(N + 1) : F[i] \in Nat
  <2>1. ASSUME NEW i \in 1..(N + 1)
        PROVE  F[i] \in Nat
    <3>1. i - 1 \in Nat /\ i - 1 <= N /\ i - 1 + 1 = i
      BY <1>0
    <3>2. i - 1 \in D
      BY <1>10, <3>1
    <3> QED
      BY <3>1, <3>2
  <2> QED
    BY <2>1
<1>12. F \in [1..(N + 1) -> Nat]
  BY <1>8, <1>11 DEF F
<1>13. F[1] = 1 /\ \A i \in 1..N : F[i + 1] = F[i] + HeaderSize + s[i]
  <2> HIDE DEF N
  <2> QED
    BY <1>0, <1>9
<1> QED
  BY <1>12, <1>13 DEF F

\* No two messages start at one byte.
LEMMA StartIncreases ==
  ASSUME NEW s \in Seq(Nat), NEW i \in 1..(Len(s) + 1), NEW j \in 1..(Len(s) + 1), i < j
  PROVE  Start(s)[i] < Start(s)[j]
<1> DEFINE F == Start(s)
           S == {m \in Nat : i + m + 1 <= Len(s) + 1 => F[i] < F[i + m + 1]}
<1>1. /\ \A k \in 1..(Len(s) + 1) : F[k] \in Nat
      /\ \A k \in 1..Len(s) : F[k + 1] = F[k] + HeaderSize + s[k]
  BY StartIs
<1>2. \A k \in 1..Len(s) : F[k] < F[k + 1]
  <2> SUFFICES ASSUME NEW k \in 1..Len(s)
               PROVE  F[k] < F[k + 1]
    OBVIOUS
  <2>1. F[k] \in Nat /\ s[k] \in Nat /\ F[k + 1] = F[k] + HeaderSize + s[k]
    BY <1>1
  <2> HIDE DEF F
  <2> QED
    BY <2>1 DEF HeaderSize
<1> HIDE DEF F
<1>3. 0 \in S
  BY <1>2
<1>4. ASSUME NEW m \in Nat, m \in S
      PROVE  m + 1 \in S
  <2> SUFFICES ASSUME i + (m + 1) + 1 <= Len(s) + 1
               PROVE  F[i] < F[i + (m + 1) + 1]
    OBVIOUS
  <2>1. F[i] < F[i + m + 1]
    BY <1>4
  <2>2. i + m + 1 \in 1..Len(s) /\ (i + m + 1) + 1 = i + (m + 1) + 1
    OBVIOUS
  <2>3. F[i + m + 1] < F[i + (m + 1) + 1]
    BY <1>2, <2>2
  <2>4. F[i] \in Nat /\ F[i + m + 1] \in Nat /\ F[i + (m + 1) + 1] \in Nat
    BY <1>1, <2>2
  <2> QED
    BY <2>1, <2>3, <2>4
<1>5. j - i - 1 \in S
  <2> HIDE DEF S
  <2>1. Nat \subseteq S
    BY <1>3, <1>4, InductionOnNat
  <2> QED
    BY <2>1
<1>6. i + (j - i - 1) + 1 = j
  OBVIOUS
<1> QED
  BY <1>5, <1>6 DEF F

-----------------------------------------------------------------------------
(* What is routed is what was sent.                                        *)

\* Of the stream of c, the messages before the next one to route have been
\* routed, and the buffer holds the bytes from its start to what was taken;
\* after a failure of recv() one byte less.
InOrder(c) ==
  LET n == Len(routed[c])
      first == Start(stream[c])[n + 1]
  IN  /\ n <= Len(stream[c])
      /\ \A i \in 1..n : routed[c][i] = Payload(stream[c], i)
      /\ \A k \in 1..buf[c].size : B!Content(buf[c])[k] = first + k - 1
      /\ first - 1 + buf[c].size <= taken[c] /\ taken[c] <= Total(stream[c])
      /\ status[c] \in {"new", "open"} => taken[c] = first - 1 + buf[c].size
      /\ status[c] = "new" => taken[c] = 0 /\ n = 0

SentInv == \A c \in Clients : InOrder(c)

\* What holds of a connection's stream, whether it has one or not.
LEMMA StreamFacts ==
  ASSUME IInv, NEW c \in Clients
  PROVE  /\ stream[c] \in Seq(Nat \ {0}) /\ stream[c] \in Seq(Nat)
         /\ Len(stream[c]) \in Nat
         /\ \A i \in 1..Len(stream[c]) : stream[c][i] \in Nat \ {0}
         /\ Start(stream[c]) \in [1..(Len(stream[c]) + 1) -> Nat]
         /\ Start(stream[c])[1] = 1
         /\ \A i \in 1..Len(stream[c]) :
              Start(stream[c])[i + 1] = Start(stream[c])[i] + HeaderSize + stream[c][i]
         /\ Total(stream[c]) = Start(stream[c])[Len(stream[c]) + 1] - 1
<1>1. stream[c] \in Seq(Nat \ {0})
  <2>1. <<>> \in Seq(Nat \ {0})
    OBVIOUS
  <2>2. stream[c] \in Streams \cup {<<>>}
    BY DEF IInv, TypeOK
  <2> QED
    BY <2>1, <2>2, DataSinkAssumption
<1>2. stream[c] \in Seq(Nat)
  BY <1>1
<1>3. /\ Len(stream[c]) \in Nat
      /\ \A i \in 1..Len(stream[c]) : stream[c][i] \in Nat \ {0}
  BY <1>1
<1> QED
  BY <1>1, <1>2, <1>3, StartIs DEF Total

\* The only header at the read reference is that of the next message, and it
\* is there as soon as the buffer holds more than a header.
LEMMA HeaderIsNext ==
  ASSUME IInv, NEW c \in Clients, InOrder(c), MayHoldMessage(c)
  PROVE  /\ Len(routed[c]) < Len(stream[c])
         /\ MessagesAt(c) = {Len(routed[c]) + 1}
<1> DEFINE s == stream[c]
           n == Len(routed[c])
           F == Start(stream[c])
           size == buf[c].size
<1>1. /\ s \in Seq(Nat) /\ Len(s) \in Nat /\ n \in Nat /\ n <= Len(s)
      /\ F \in [1..(Len(s) + 1) -> Nat] /\ Total(s) = F[Len(s) + 1] - 1
  BY StreamFacts DEF InOrder, IInv, TypeOK
<1>2. size \in Nat /\ size > 4
  BY FieldTypes DEF IInv, TypeOK, MayHoldMessage, HeaderSize
<1>3. /\ \A k \in 1..size : B!Content(buf[c])[k] = F[n + 1] + k - 1
      /\ F[n + 1] - 1 + size <= taken[c] /\ taken[c] <= Total(s)
      /\ taken[c] \in Int
  BY DEF InOrder, IInv, TypeOK
<1>4. n < Len(s)
  <2> SUFFICES ASSUME n = Len(s) PROVE FALSE
    <3> HIDE DEF n, s
    <3> QED
      BY <1>1
  <2>1. F[n + 1] \in Nat
    BY <1>1
  <2>2. F[n + 1] - 1 + size <= F[n + 1] - 1
    <3>1. F[n + 1] - 1 + size <= taken[c] /\ taken[c] <= F[n + 1] - 1
      BY <1>1, <1>3
    <3> HIDE DEF F, size, n
    <3> QED
      BY <1>2, <1>3, <2>1, <3>1, SMTT(20)
  <2> HIDE DEF F, size, n
  <2> QED
    BY <1>2, <2>1, <2>2
<1>5. n + 1 \in MessagesAt(c)
  <2>1. \A k \in 1..HeaderSize : B!Content(buf[c])[k] = F[n + 1] + k - 1
    BY <1>2, <1>3 DEF HeaderSize
  <2>2. n + 1 \in 1..Len(s)
    BY <1>1, <1>4
  <2> QED
    BY <2>1, <2>2 DEF MessagesAt
<1>6. ASSUME NEW i \in MessagesAt(c)
      PROVE  i = n + 1
  <2>1. i \in 1..Len(s) /\ B!Content(buf[c])[1] = F[i] + 1 - 1
    BY DEF MessagesAt, HeaderSize
  <2>2. B!Content(buf[c])[1] = F[n + 1] + 1 - 1
    BY <1>2, <1>3
  <2>3. F[i] = F[n + 1] /\ n + 1 \in 1..Len(s) /\ i \in Int
    <3>0. i \in 1..(Len(s) + 1) /\ n + 1 \in 1..(Len(s) + 1)
      <4> HIDE DEF n, s
      <4> QED
        BY <1>1, <1>4, <2>1
    <3>1. F[i] \in Nat /\ F[n + 1] \in Nat
      BY <1>1, <3>0
    <3> HIDE DEF F
    <3> QED
      BY <1>1, <1>4, <2>1, <2>2, <3>1, SMTT(20)
  <2>4. ~(i < n + 1) /\ ~(n + 1 < i)
    <3>1. i \in 1..(Len(s) + 1) /\ n + 1 \in 1..(Len(s) + 1)
      BY <1>1, <2>1, <2>3
    <3>2. F[i] \in Nat
      BY <1>1, <3>1
    <3>3. i < n + 1 => F[i] < F[n + 1]
      BY <1>1, <3>1, StartIncreases
    <3>4. n + 1 < i => F[n + 1] < F[i]
      BY <1>1, <3>1, StartIncreases
    <3> HIDE DEF F, n
    <3> QED
      BY <2>3, <3>2, <3>3, <3>4
  <2> HIDE DEF n
  <2> QED
    BY <1>1, <2>3, <2>4
<1> QED
  BY <1>4, <1>5, <1>6

\* A step that leaves a connection alone leaves its bytes in order.
LEMMA OrderOfOthers ==
  ASSUME NEW d \in Clients, InOrder(d), status'[d] = status[d],
         stream'[d] = stream[d], taken'[d] = taken[d], buf'[d] = buf[d],
         routed'[d] = routed[d]
  PROVE  InOrder(d)'
BY DEF InOrder

LEMMA SentInit == Init => SentInv
<1> SUFFICES ASSUME Init, NEW c \in Clients PROVE InOrder(c)
  BY DEF SentInv
<1>1. /\ stream[c] = <<>> /\ routed[c] = <<>> /\ taken[c] = 0
      /\ status[c] = "new" /\ buf[c].size = 0
  BY DEF Init, B!New
<1>2. <<>> \in Seq(Nat) /\ Len(<<>>) = 0
  OBVIOUS
<1>3. Start(<<>>)[1] = 1 /\ Total(<<>>) = 0
  <2>1. Start(<<>>)[1] = 1
    BY <1>2, StartIs, Zenon
  <2> QED
    BY <1>2, <2>1 DEF Total
<1> QED
  BY <1>1, <1>2, <1>3 DEF InOrder

\* recv() appends to the buffer the bytes with which the stream goes on.
LEMMA SentReceive ==
  ASSUME IInv, SentInv, NEW c \in Clients, NEW n \in 1..MaxBytes, Receive(c, n)
  PROVE  InOrder(c)'
<1> DEFINE b == B!Defragment(buf[c])
           bytes == NextBytes(c, n)
           r == B!BytesWritten(B!Write(b, bytes), n)
           m == Len(routed[c])
           first == Start(stream[c])[m + 1]
           size == buf[c].size
<1>1. /\ status[c] = "open" /\ n <= B!GetContinuousBytesLeft(b)
      /\ n <= Total(stream[c]) - taken[c]
      /\ taken'[c] = taken[c] + n /\ buf'[c] = r
      /\ UNCHANGED <<status, stream, routed>>
  BY DEF Receive, Readable, Room, IInv, TypeOK
<1>2. /\ taken[c] \in Nat /\ n \in Nat /\ B!IsBuffer(buf[c]) /\ size \in Nat
      /\ B!Content(buf[c]) \in Seq(Bytes) /\ Len(B!Content(buf[c])) = size
      /\ Total(stream[c]) \in 0..MaxBytes
  <2>1. taken[c] \in Nat /\ n \in Nat /\ B!IsBuffer(buf[c])
    BY DataSinkAssumption DEF IInv, TypeOK
  <2>2. stream[c] \in Streams
    BY <1>1 DEF IInv, StreamsOfOpen
  <2> QED
    BY <2>1, <2>2, FieldTypes, DataSinkAssumption
<1>3. /\ B!IsBuffer(b) /\ B!Content(b) = B!Content(buf[c])
  BY <1>2, DefragmentKeepsContent
<1>4. bytes \in Seq(Bytes) /\ Len(bytes) = n /\ \A k \in 1..n : bytes[k] = taken[c] + k
  <2>1. \A i \in 1..n : taken[c] + i \in Bytes
    <3>1. taken[c] + n <= MaxBytes /\ MaxBytes \in Nat
      BY <1>1, <1>2, DataSinkAssumption
    <3> QED
      BY <1>2, <3>1 DEF Bytes
  <2>2. bytes \in [1..n -> Bytes]
    BY <2>1 DEF NextBytes
  <2> QED
    BY <1>2, <2>2 DEF NextBytes
<1>5. B!IsBuffer(r) /\ B!Content(r) = B!Content(b) \o bytes
  BY <1>1, <1>3, <1>4, ReceiveAppends
<1>6. r.size = size + n
  <2>1. Len(B!Content(r)) = r.size
    BY <1>5, ContentType
  <2> HIDE DEF r, b, bytes, size
  <2> QED
    BY <1>2, <1>3, <1>4, <1>5, <2>1
<1>7. /\ m <= Len(stream[c]) /\ first - 1 + size = taken[c]
      /\ \A k \in 1..size : B!Content(buf[c])[k] = first + k - 1
      /\ \A i \in 1..m : routed[c][i] = Payload(stream[c], i)
  BY <1>1 DEF SentInv, InOrder
<1>8. first \in Nat
  <2>1. m \in Nat /\ Len(stream[c]) \in Nat
    BY StreamFacts DEF IInv, TypeOK
  <2>2. m + 1 \in 1..(Len(stream[c]) + 1)
    BY <1>7, <2>1
  <2> HIDE DEF m
  <2> QED
    BY <2>2, StreamFacts
<1>9. \A k \in 1..(size + n) : B!Content(r)[k] = first + k - 1
  <2> HIDE DEF r, b, bytes, size, first
  <2> SUFFICES ASSUME NEW k \in 1..(size + n)
               PROVE  B!Content(r)[k] = first + k - 1
    OBVIOUS
  <2>1. B!Content(r)[k] = IF k <= size THEN B!Content(buf[c])[k] ELSE bytes[k - size]
    BY <1>2, <1>3, <1>4, <1>5
  <2>2. CASE k <= size
    BY <1>2, <1>7, <2>1, <2>2
  <2>3. CASE ~(k <= size)
    <3>1. k - size \in 1..n
      BY <1>2, <2>3
    <3>2. B!Content(r)[k] = taken[c] + (k - size)
      BY <1>4, <2>1, <2>3, <3>1
    <3> QED
      BY <1>2, <1>7, <1>8, <3>2
  <2> QED
    BY <2>2, <2>3
<1>10. /\ first - 1 + (size + n) = taken[c] + n
       /\ taken[c] + n <= Total(stream[c])
  <2> HIDE DEF size, first
  <2> QED
    BY <1>1, <1>2, <1>7, <1>8
<1> HIDE DEF r
<1>11. /\ Len(routed'[c]) = m /\ stream'[c] = stream[c] /\ buf'[c].size = size + n
       /\ B!Content(buf'[c]) = B!Content(r) /\ status'[c] = "open"
       /\ routed'[c] = routed[c]
  BY <1>1, <1>6
<1>12. taken'[c] = taken[c] + n /\ taken[c] \in Nat
  BY <1>1, <1>2
<1>13. Start(stream'[c])[Len(routed'[c]) + 1] = first
  BY <1>11
<1>14. \A i \in 1..Len(routed'[c]) : routed'[c][i] = Payload(stream'[c], i)
  BY <1>7, <1>11
<1>15. first - 1 + buf'[c].size = taken'[c] /\ taken'[c] <= Total(stream'[c])
  BY <1>10, <1>11, <1>12
<1>16. \A k \in 1..buf'[c].size : B!Content(buf'[c])[k] = first + k - 1
  BY <1>9, <1>11
<1>17. Len(routed'[c]) <= Len(stream'[c]) /\ status'[c] # "new"
  BY <1>7, <1>11
<1> HIDE DEF size, b, bytes, first, m
<1>18. first - 1 + buf'[c].size <= taken'[c]
  BY <1>2, <1>12, <1>15
<1> QED
  BY <1>13, <1>14, <1>15, <1>16, <1>17, <1>18 DEF InOrder

\* The last byte in the buffer goes when recv() fails, and what is left is as
\* it was.
LEMMA SentFails ==
  ASSUME IInv, SentInv, NEW c \in Clients, ReceiveFails(c)
  PROVE  InOrder(c)'
<1> DEFINE b == B!Defragment(buf[c])
           r == B!BytesWritten(b, -1)
           size == buf[c].size
<1>1. /\ status'[c] = "failed" /\ UNCHANGED <<stream, taken, routed>>
      /\ \/ buf'[c] = r /\ B!BytesWrittenAsserts(b, -1)
         \/ buf'[c] = buf[c]
  BY DEF ReceiveFails, IInv, TypeOK
<1>2. /\ B!IsBuffer(b) /\ B!Content(b) = B!Content(buf[c]) /\ b.size = size
      /\ size \in Nat
  BY DefragmentKeepsContent, FieldTypes, RoomAfterDefragment DEF IInv, TypeOK
<1>3. CASE buf'[c] = r /\ B!BytesWrittenAsserts(b, -1)
  <2>1. /\ r.size = size - 1
        /\ \A k \in 1..(size - 1) : B!Content(r)[k] = B!Content(buf[c])[k]
    BY <1>2, <1>3, FailureInOrder
  <2>2. 1..(size - 1) \subseteq 1..size
    BY <1>2
  <2> DEFINE first == Start(stream[c])[Len(routed[c]) + 1]
  <2>3. /\ first \in Int /\ taken[c] \in Int
    <3>1. Len(routed[c]) \in Nat /\ Len(stream[c]) \in Nat
      BY StreamFacts DEF IInv, TypeOK
    <3>2. Len(routed[c]) + 1 \in 1..(Len(stream[c]) + 1)
      BY <3>1 DEF SentInv, InOrder
    <3> QED
      BY <3>2, StreamFacts DEF IInv, TypeOK
  <2>4. first - 1 + size <= taken[c] => first - 1 + (size - 1) <= taken[c]
    <3> HIDE DEF first, size
    <3> QED
      BY <1>2, <2>3
  <2>5. InOrder(c)
    BY DEF SentInv
  <2> HIDE DEF r, size, b
  <2> QED
    BY <1>1, <1>3, <2>1, <2>2, <2>4, <2>5 DEF InOrder, size
<1>4. CASE buf'[c] = buf[c]
  BY <1>1, <1>4 DEF InOrder, SentInv
<1> QED
  BY <1>1, <1>3, <1>4

LEMMA SentAccept ==
  ASSUME IInv, SentInv, NEW c \in Clients, NEW s \in Streams, Accept(c, s)
  PROVE  InOrder(c)'
<1>1. /\ taken'[c] = 0 /\ Len(routed'[c]) = 0 /\ buf'[c].size = 0
      /\ stream'[c] = s /\ status'[c] = "open"
  BY DEF Accept, SentInv, InOrder, IInv, TypeOK, B!New
<1>2. s \in Seq(Nat)
  BY DataSinkAssumption
<1>3. Start(s)[1] = 1
  BY <1>2, StartIs, Zenon
<1>4. Len(s) \in Nat /\ 0 <= Total(s)
  BY <1>2, DataSinkAssumption
<1>5. 0 + 1 = 1 /\ 1 - 1 + 0 = 0 /\ 0 <= 0 /\ 1..0 = {}
  OBVIOUS
<1> QED
  BY <1>1, <1>3, <1>4, <1>5 DEF InOrder

\* The message that is routed is the next one, and its bytes are those that
\* leave the buffer.
LEMMA SentRoute ==
  ASSUME IInv, SentInv, NEW c \in Clients, NextMessage(c),
         RouteMessage(c, stream[c][Len(routed[c]) + 1])
  PROVE  InOrder(c)'
<1> DEFINE n == Len(routed[c])
           length == stream[c][n + 1]
           F == Start(stream[c])
           b == buf[c]
           m == HeaderSize + length
           r == B!BytesRead(b, m)
           payload == SubSeq(B!Content(b), HeaderSize + 1, m)
<1>1. /\ n < Len(stream[c]) /\ n \in Nat
  BY HeaderIsNext DEF NextMessage, SentInv, IInv, TypeOK
<1>2. /\ length \in Nat \ {0} /\ F[n + 1] \in Nat /\ F[n + 2] \in Nat
      /\ F[n + 2] = F[n + 1] + HeaderSize + length
  <2>1. /\ n + 1 \in 1..Len(stream[c]) /\ n + 1 \in 1..(Len(stream[c]) + 1)
        /\ n + 2 \in 1..(Len(stream[c]) + 1) /\ n + 1 + 1 = n + 2
    <3>1. Len(stream[c]) \in Nat
      BY StreamFacts
    <3> HIDE DEF n
    <3> QED
      BY <1>1, <3>1
  <2> HIDE DEF n, F
  <2> QED
    BY <2>1, StreamFacts DEF F
<1>3. /\ B!IsBuffer(b) /\ b.size \in Nat
      /\ B!Content(b) \in Seq(Bytes) /\ Len(B!Content(b)) = b.size
      /\ taken[c] \in Nat
  BY FieldTypes DEF IInv, TypeOK
<1>4. /\ routed'[c] = Append(routed[c], payload) /\ buf'[c] = r
      /\ UNCHANGED <<status, stream, taken>>
      /\ b.size - HeaderSize >= length
  BY DEF RouteMessage, NextMessage, IInv, TypeOK
<1> HIDE DEF length
<1>5. m \in 0..b.size /\ m \in Nat
  BY <1>2, <1>3, <1>4 DEF HeaderSize
<1>6. B!Content(r) = SubSeq(B!Content(b), m + 1, b.size) /\ r.size = b.size - m
  <2>1. B!Content(r) = SubSeq(B!Content(b), m + 1, b.size)
    BY <1>3, <1>5, ReadDropsFirst
  <2>2. r.size = b.size - m
    BY <1>3 DEF B!BytesRead, B!IsBuffer
  <2> QED
    BY <2>1, <2>2
<1>7. /\ \A k \in 1..b.size : B!Content(b)[k] = F[n + 1] + k - 1
      /\ F[n + 1] - 1 + b.size <= taken[c] /\ taken[c] <= Total(stream[c])
      /\ status[c] \in {"new", "open"} => taken[c] = F[n + 1] - 1 + b.size
      /\ \A i \in 1..n : routed[c][i] = Payload(stream[c], i)
      /\ status[c] # "new"
  <2>1. b.size > 4
    BY DEF NextMessage, MayHoldMessage, HeaderSize
  <2>2. F[1] = 1
    BY StreamFacts
  <2>3. status[c] = "new" => n = 0 /\ taken[c] = 0 /\ taken[c] = F[n + 1] - 1 + b.size
    BY DEF SentInv, InOrder
  <2>4. status[c] # "new"
    <3> SUFFICES ASSUME status[c] = "new" PROVE FALSE
      OBVIOUS
    <3>1. n + 1 = 1 /\ F[n + 1] = 1
      BY <2>2, <2>3
    <3>2. b.size = 0
      BY <1>3, <2>3, <3>1
    <3> QED
      BY <2>1, <3>2
  <2> QED
    BY <2>4 DEF SentInv, InOrder
<1> HIDE DEF F, r
<1>8. \A k \in 1..(b.size - m) : B!Content(r)[k] = F[n + 2] + k - 1
  <2> SUFFICES ASSUME NEW k \in 1..(b.size - m)
               PROVE  B!Content(r)[k] = F[n + 2] + k - 1
    OBVIOUS
  <2>1. B!Content(r)[k] = B!Content(b)[m + k] /\ m + k \in 1..b.size
    <3> DEFINE C == B!Content(b)
    <3>1. C \in Seq(Bytes) /\ Len(C) = b.size
      BY <1>3
    <3> HIDE DEF C, m
    <3>2. SubSeq(C, m + 1, b.size)[k] = C[m + k] /\ m + k \in 1..b.size
      BY <1>3, <1>5, <3>1
    <3> QED
      BY <1>6, <3>2 DEF C
  <2>2. B!Content(r)[k] = F[n + 1] + (m + k) - 1
    BY <1>7, <2>1
  <2> HIDE DEF n
  <2> QED
    BY <1>2, <1>3, <1>5, <2>2 DEF HeaderSize
<1>9. payload = Payload(stream[c], n + 1)
  <2> DEFINE C == B!Content(b)
  <2>1. C \in Seq(Bytes) /\ Len(C) = b.size
    BY <1>3
  <2>2. Payload(stream[c], n + 1) = [k \in 1..length |-> F[n + 1] + HeaderSize + k - 1]
    BY DEF Payload, F, length
  <2>3. payload = [k \in 1..length |-> C[HeaderSize + k]]
    <3>1. payload = SubSeq(C, HeaderSize + 1, HeaderSize + length)
      OBVIOUS
    <3> HIDE DEF C, payload
    <3> QED
      BY <1>2, <1>3, <1>4, <2>1, <3>1 DEF HeaderSize
  <2>4. \A k \in 1..length : C[HeaderSize + k] = F[n + 1] + HeaderSize + k - 1
    <3> SUFFICES ASSUME NEW k \in 1..length
                 PROVE  C[HeaderSize + k] = F[n + 1] + HeaderSize + k - 1
      OBVIOUS
    <3>1. HeaderSize + k \in 1..b.size
      BY <1>2, <1>3, <1>4, SMTT(20) DEF HeaderSize
    <3>2. C[HeaderSize + k] = F[n + 1] + (HeaderSize + k) - 1
      BY <1>7, <3>1
    <3> HIDE DEF C, n
    <3> QED
      BY <1>2, <3>2 DEF HeaderSize
  <2> HIDE DEF C
  <2> QED
    BY <2>2, <2>3, <2>4
<1> HIDE DEF payload
<1>10. /\ Len(routed'[c]) = n + 1
       /\ \A i \in 1..(n + 1) : routed'[c][i] = Payload(stream[c], i)
  <2>1. routed[c] \in Seq(Seq(Bytes))
    BY DEF IInv, TypeOK
  <2>2. /\ Len(Append(routed[c], payload)) = n + 1
        /\ Append(routed[c], payload)[n + 1] = payload
        /\ \A i \in 1..n : Append(routed[c], payload)[i] = routed[c][i]
    BY <2>1
  <2>3. \A i \in 1..(n + 1) : i \in 1..n \/ i = n + 1
    BY <1>1
  <2> HIDE DEF n
  <2> QED
    BY <1>4, <1>7, <1>9, <2>2, <2>3
<1>11. /\ F[n + 2] - 1 + r.size <= taken[c]
       /\ status[c] \in {"new", "open"} => taken[c] = F[n + 2] - 1 + r.size
  <2>1. F[n + 2] - 1 + r.size = F[n + 1] - 1 + b.size
    <3>1. HeaderSize \in Nat
      BY DEF HeaderSize
    <3>2. \A x, y, h, l, z \in Int : y = x + h + l => y - 1 + (z - (h + l)) = x - 1 + z
      OBVIOUS
    <3> HIDE DEF n, b, r, F, length
    <3>3. /\ F[n + 1] \in Int /\ F[n + 2] \in Int /\ length \in Int
          /\ b.size \in Int /\ HeaderSize \in Int
      BY <1>2, <1>3, <3>1
    <3>4. F[n + 2] - 1 + (b.size - (HeaderSize + length)) = F[n + 1] - 1 + b.size
      BY <1>2, <3>2, <3>3
    <3> QED
      BY <1>6, <3>4
  <2> HIDE DEF n, b
  <2> QED
    BY <1>7, <2>1
<1>12. n + 1 + 1 = n + 2 /\ n + 1 <= Len(stream[c])
  <2>1. Len(stream[c]) \in Nat
    BY StreamFacts
  <2> HIDE DEF n
  <2> QED
    BY <1>1, <2>1
<1>13. Start(stream'[c])[Len(routed'[c]) + 1] = F[n + 2]
  BY <1>4, <1>10, <1>12 DEF F
<1> HIDE DEF n, m, b
<1> QED
  BY <1>4, <1>6, <1>7, <1>8, <1>10, <1>11, <1>12, <1>13 DEF InOrder

\* One round of the loop over the messages.
LEMMA SentLoop ==
  ASSUME IInv, SentInv, NEW c \in Clients, LoopBody(c)
  PROVE  InOrder(c)'
<1>1. InOrder(c)
  BY DEF SentInv
<1>2. CASE NothingLeft(c)
  BY <1>1, <1>2 DEF NothingLeft, InOrder
<1>3. CASE NextMessage(c)
  <2> DEFINE length == stream[c][Len(routed[c]) + 1]
  <2>1. Grow(c, length) \/ Fragment(c, length) \/ RouteMessage(c, length)
    BY <1>1, <1>3, HeaderIsNext DEF NextMessage
  <2>2. CASE Grow(c, length)
    <3> DEFINE r == B!Resize(buf[c], NewCapacity(c, length))
    <3>1. UNCHANGED <<status, stream, taken, routed>> /\ buf'[c] = r
      BY <1>3, <2>2 DEF Grow, NextMessage, IInv, TypeOK
    <3>2. NewCapacity(c, length) \in Nat \ {0} /\ NewCapacity(c, length) >= buf[c].size
      <4>1. length \in Nat
        <5>1. /\ Len(routed[c]) < Len(stream[c]) /\ Len(routed[c]) \in Nat
              /\ Len(stream[c]) \in Nat
          BY <1>1, <1>3, HeaderIsNext, StreamFacts DEF NextMessage, IInv, TypeOK
        <5>2. Len(routed[c]) + 1 \in 1..Len(stream[c])
          BY <5>1
        <5> QED
          BY <5>2, StreamFacts
      <4>2. /\ buf[c].capacity \in Nat \ {0} /\ buf[c].size \in Nat
            /\ buf[c].size <= buf[c].capacity
        BY FieldTypes DEF IInv, TypeOK
      <4> HIDE DEF length
      <4> QED
        BY <4>1, <4>2 DEF NewCapacity
    <3>3. B!Content(r) = B!Content(buf[c]) /\ r.size = buf[c].size
      BY <3>2, ResizeKeepsContent DEF IInv, TypeOK, B!Resize
    <3> HIDE DEF r
    <3> QED
      BY <1>1, <3>1, <3>3 DEF InOrder
  <2>3. CASE Fragment(c, length)
    BY <1>1, <1>3, <2>3 DEF Fragment, NextMessage, InOrder
  <2>4. CASE RouteMessage(c, length)
    BY <1>3, <2>4, SentRoute
  <2> QED
    BY <2>1, <2>2, <2>3, <2>4
<1> QED
  BY <1>2, <1>3 DEF LoopBody

\* A step of c changes nothing of another connection.
LEMMA OthersAlone ==
  ASSUME IInv, NEW c \in Clients, NEW d \in Clients, d # c,
         \/ \E s \in Streams : Accept(c, s)
         \/ \E n \in 1..MaxBytes : Receive(c, n)
         \/ ReceiveEnd(c) \/ ReceiveFails(c) \/ LoopBody(c)
  PROVE  /\ status'[d] = status[d] /\ stream'[d] = stream[d]
         /\ taken'[d] = taken[d] /\ buf'[d] = buf[d] /\ routed'[d] = routed[d]
<1> USE DEF IInv, TypeOK
<1>1. CASE \E s \in Streams : Accept(c, s)
  BY <1>1 DEF Accept
<1>2. CASE \E n \in 1..MaxBytes : Receive(c, n)
  BY <1>2 DEF Receive
<1>3. CASE ReceiveEnd(c) \/ ReceiveFails(c)
  BY <1>3 DEF ReceiveEnd, DeleteWatcher, ReceiveFails
<1>4. CASE LoopBody(c)
  BY <1>4 DEF LoopBody, NothingLeft, NextMessage, Grow, Fragment, RouteMessage
<1> QED
  BY <1>1, <1>2, <1>3, <1>4

LEMMA SentStep == IInv /\ SentInv /\ [Next]_vars => SentInv'
<1> SUFFICES ASSUME IInv, SentInv, [Next]_vars PROVE SentInv'
  OBVIOUS
<1>1. CASE UNCHANGED vars
  BY <1>1 DEF vars, SentInv, InOrder
<1>2. CASE Ended
  BY <1>1, <1>2 DEF Ended
<1>3. ASSUME NEW c \in Clients,
             \/ \E s \in Streams : Accept(c, s)
             \/ \E n \in 1..MaxBytes : Receive(c, n)
             \/ ReceiveEnd(c) \/ ReceiveFails(c) \/ LoopBody(c)
      PROVE  SentInv'
  <2>1. InOrder(c)'
    <3>1. CASE ReceiveEnd(c)
      <4>1. /\ UNCHANGED <<stream, taken, buf, routed>> /\ status'[c] = "closed"
        BY <3>1 DEF ReceiveEnd, DeleteWatcher, IInv, TypeOK
      <4> QED
        BY <4>1 DEF SentInv, InOrder
    <3> QED
      BY <1>3, <3>1, SentAccept, SentReceive, SentFails, SentLoop
  <2>2. ASSUME NEW d \in Clients, d # c
        PROVE  InOrder(d)'
    BY <1>3, <2>2, OthersAlone, OrderOfOthers DEF SentInv
  <2> QED
    BY <2>1, <2>2 DEF SentInv
<1> QED
  BY <1>1, <1>2, <1>3 DEF Next

\* For streams of any messages, however TCP cuts them and wherever recv()
\* fails, the router gets the messages that were sent: each whole, once, in
\* order and from the first on; and wherever _ReadCallback reads a length,
\* there is one.
THEOREM MessagesRoutedAsSent == Spec => []RoutedAsSent
<1>1. IInv /\ SentInv => RoutedAsSent
  <2> SUFFICES ASSUME IInv, SentInv, NEW c \in Clients
               PROVE  /\ callback = c /\ MayHoldMessage(c) => MessagesAt(c) # {}
                      /\ Len(routed[c]) <= Len(stream[c])
                      /\ \A i \in 1..Len(routed[c]) : routed[c][i] = Payload(stream[c], i)
    BY DEF RoutedAsSent
  <2>1. InOrder(c)
    BY DEF SentInv
  <2>2. MayHoldMessage(c) => MessagesAt(c) # {}
    BY <2>1, HeaderIsNext
  <2> QED
    BY <2>1, <2>2 DEF InOrder
<1> QED
  BY <1>1, InvInit, InvStep, SentInit, SentStep, PTL DEF Spec

-----------------------------------------------------------------------------
(* No message is held back.                                                *)

\* The next message is incomplete if the buffer holds no more than a header,
\* or less than the header and the payload.
LEMMA ShortOfMessage ==
  ASSUME NEW s \in Seq(Nat \ {0}), NEW n \in Nat, n < Len(s), NEW size \in Nat,
         size <= HeaderSize \/ size < HeaderSize + s[n + 1]
  PROVE  Start(s)[n + 1] - 1 + size < Start(s)[n + 2] - 1
<1> DEFINE F == Start(s)
           length == s[n + 1]
<1>1. s \in Seq(Nat) /\ Len(s) \in Nat
  OBVIOUS
<1>2. n + 1 \in 1..Len(s) /\ n + 1 \in 1..(Len(s) + 1) /\ n + 1 + 1 = n + 2
  BY <1>1
<1>3. /\ length \in Nat \ {0} /\ F[n + 1] \in Nat
      /\ F[n + 2] = F[n + 1] + HeaderSize + length
  <2>1. /\ F \in [1..(Len(s) + 1) -> Nat]
        /\ \A i \in 1..Len(s) : F[i + 1] = F[i] + HeaderSize + s[i]
    BY <1>1, StartIs
  <2>2. length \in Nat \ {0}
    BY <1>2
  <2> HIDE DEF F
  <2>3. F[n + 1 + 1] = F[n + 1] + HeaderSize + s[n + 1]
    BY <1>2, <2>1
  <2> QED
    BY <1>2, <2>1, <2>2, <2>3
<1> HIDE DEF F, length
<1>4. size < 4 + length
  BY <1>3 DEF HeaderSize, length
<1> QED
  BY <1>3, <1>4, SMTT(20) DEF HeaderSize, F

\* The same of a connection.
LEMMA WhenIncomplete ==
  ASSUME IInv, NEW c \in Clients, InOrder(c), status[c] = "open",
         Len(routed[c]) < Len(stream[c]),
         ~MayHoldMessage(c) \/ buf[c].size < HeaderSize + stream[c][Len(routed[c]) + 1]
  PROVE  taken[c] < Start(stream[c])[Len(routed[c]) + 2] - 1
<1> DEFINE n == Len(routed[c])
<1>1. n \in Nat /\ stream[c] \in Seq(Nat \ {0})
  BY StreamFacts DEF IInv, TypeOK
<1>2. buf[c].size \in Nat /\ taken[c] = Start(stream[c])[n + 1] - 1 + buf[c].size
  BY FieldTypes DEF InOrder, IInv, TypeOK
<1>3. buf[c].size <= HeaderSize \/ buf[c].size < HeaderSize + stream[c][n + 1]
  BY <1>2 DEF MayHoldMessage, HeaderSize
<1> QED
  BY <1>1, <1>2, <1>3, ShortOfMessage

\* A round of the loop that ends the callback leaves the next message
\* incomplete: there is less than a header, a part of a message that fits, or
\* a part of one that is as yet too large for the buffer.
LEMMA LoopEnds ==
  ASSUME IInv, SentInv, NEW c \in Clients, LoopBody(c), status[c] = "open",
         callback' # c, Len(routed[c]) < Len(stream[c])
  PROVE  /\ taken[c] < Start(stream[c])[Len(routed[c]) + 2] - 1
         /\ UNCHANGED <<stream, taken, routed>>
<1>1. InOrder(c)
  BY DEF SentInv
<1>2. CASE NothingLeft(c)
  BY <1>1, <1>2, WhenIncomplete DEF NothingLeft
<1>3. CASE NextMessage(c)
  <2> DEFINE length == stream[c][Len(routed[c]) + 1]
  <2>1. Grow(c, length) \/ Fragment(c, length) \/ RouteMessage(c, length)
    BY <1>1, <1>3, HeaderIsNext DEF NextMessage
  <2>2. ~RouteMessage(c, length)
    BY DEF LoopBody, RouteMessage
  <2>3. /\ length \in Nat /\ buf[c].size \in Nat /\ buf[c].capacity \in Nat
        /\ buf[c].size <= buf[c].capacity
    <3>1. Len(routed[c]) \in Nat /\ Len(stream[c]) \in Nat
      BY StreamFacts DEF IInv, TypeOK
    <3>2. Len(routed[c]) + 1 \in 1..Len(stream[c])
      BY <3>1
    <3> QED
      BY <3>2, StreamFacts, FieldTypes DEF IInv, TypeOK
  <2>4. UNCHANGED <<stream, taken, routed>>
    BY <1>3, <2>1, <2>2 DEF NextMessage, Grow, Fragment
  <2>5. ~Fits(c, length) \/ buf[c].size - HeaderSize < length
    BY <2>1, <2>2 DEF Grow, Fragment
  <2>6. buf[c].size < HeaderSize + length
    <3> HIDE DEF length
    <3> QED
      BY <2>3, <2>5 DEF Fits, HeaderSize
  <2> QED
    BY <1>1, <2>4, <2>6, WhenIncomplete
<1> QED
  BY <1>2, <1>3 DEF LoopBody

\* A new connection has sent nothing.
LEMMA NothingTaken ==
  ASSUME IInv, SentInv, NEW c \in Clients, status[c] = "new",
         NEW s \in Streams, Len(routed[c]) < Len(s)
  PROVE  taken[c] < Start(s)[Len(routed[c]) + 2] - 1
<1>1. taken[c] = 0 /\ Len(routed[c]) = 0
  BY DEF SentInv, InOrder
<1>2. s \in Seq(Nat \ {0}) /\ s \in Seq(Nat)
  BY DataSinkAssumption
<1>3. Start(s)[1] = 1
  BY <1>2, StartIs
<1>4. Start(s)[0 + 1] - 1 + 0 < Start(s)[0 + 2] - 1
  BY <1>1, <1>2, ShortOfMessage DEF HeaderSize
<1> QED
  BY <1>1, <1>3, <1>4

LEMMA HeldStep == IInv /\ SentInv /\ NoMessageHeldBack /\ [Next]_vars => NoMessageHeldBack'
<1> SUFFICES ASSUME IInv, SentInv, NoMessageHeldBack, [Next]_vars,
                    NEW d \in Clients, status'[d] = "open", callback' # d,
                    Len(routed'[d]) < Len(stream'[d])
             PROVE  taken'[d] < Start(stream'[d])[Len(routed'[d]) + 2] - 1
  BY DEF NoMessageHeldBack
<1>1. ASSUME status'[d] = status[d], stream'[d] = stream[d], taken'[d] = taken[d],
             routed'[d] = routed[d], callback # d
      PROVE  taken'[d] < Start(stream'[d])[Len(routed'[d]) + 2] - 1
  BY <1>1 DEF NoMessageHeldBack
<1>2. CASE UNCHANGED vars
  BY <1>1, <1>2 DEF vars
<1>3. CASE Ended
  BY <1>1, <1>3 DEF Ended, vars
<1>4. ASSUME NEW c \in Clients,
             \/ \E s \in Streams : Accept(c, s)
             \/ \E n \in 1..MaxBytes : Receive(c, n)
             \/ ReceiveEnd(c) \/ ReceiveFails(c) \/ LoopBody(c)
      PROVE  taken'[d] < Start(stream'[d])[Len(routed'[d]) + 2] - 1
  <2>1. CASE d # c
    <3>1. callback \in {c, NoClient}
      BY <1>4 DEF Accept, Receive, Readable, ReceiveEnd, ReceiveFails, LoopBody
    <3> QED
      BY <1>1, <1>4, <2>1, <3>1, OthersAlone, DataSinkAssumption
  <2>2. CASE d = c /\ \E s \in Streams : Accept(c, s)
    <3>1. PICK s \in Streams : Accept(c, s)
      BY <2>2
    <3>2. status[c] = "new" /\ stream'[c] = s /\ taken' = taken /\ routed' = routed
      BY <3>1 DEF Accept, IInv, TypeOK
    <3> QED
      BY <2>2, <3>2, NothingTaken
  <2>3. CASE d = c /\ \E n \in 1..MaxBytes : Receive(c, n)
    BY <2>3 DEF Receive
  <2>4. CASE d = c /\ (ReceiveEnd(c) \/ ReceiveFails(c))
    BY <2>4 DEF ReceiveEnd, DeleteWatcher, ReceiveFails, IInv, TypeOK
  <2>5. CASE d = c /\ LoopBody(c)
    <3>1. UNCHANGED status
      BY <2>5 DEF LoopBody, NothingLeft, NextMessage
    <3>2. /\ UNCHANGED <<stream, taken>> /\ callback = c
          /\ routed' = routed \/ \E l \in {stream[c][i] : i \in MessagesAt(c)} : RouteMessage(c, l)
      BY <2>5 DEF LoopBody, NothingLeft, NextMessage, Grow, Fragment
    <3>3. routed' = routed
      BY <2>5, <3>2 DEF RouteMessage
    <3> QED
      BY <2>5, <3>1, <3>2, <3>3, LoopEnds
  <2> QED
    BY <1>4, <2>1, <2>2, <2>3, <2>4, <2>5
<1> QED
  BY <1>2, <1>3, <1>4 DEF Next

\* For streams of any messages, however TCP cuts them: between callbacks, a
\* message that has arrived whole has been routed, so that none waits in the
\* buffer for bytes that need never come.
THEOREM NothingHeldBack == Spec => []NoMessageHeldBack
<1>1. Init => NoMessageHeldBack
  BY DEF Init, NoMessageHeldBack
<1> QED
  BY <1>1, InvInit, InvStep, SentInit, SentStep, HeldStep, PTL DEF Spec
=============================================================================
