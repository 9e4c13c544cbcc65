------------------------------ MODULE DataSink ------------------------------
(***************************************************************************)
(* server/DataSink.cpp: the loop thread of the server, which accepts       *)
(* connections from daemons and cuts the bytes it receives on each into    *)
(* the length-prefixed messages that Streamer sends.                       *)
(*                                                                         *)
(* A connection carries a stream of messages, given by their payload       *)
(* lengths; a byte is known by its position in the stream, and TCP         *)
(* delivers the bytes in order and in pieces of any size.  The daemon may  *)
(* end the connection between any two bytes, or the connection may break.  *)
(***************************************************************************)
EXTENDS Integers, Sequences

CONSTANTS
  Clients,    \* connections
  Streams,    \* the streams a connection may carry: sequences of lengths
  MaxBytes,   \* bytes of the longest stream
  StartSize,  \* RECEIVE_BUF_START_SIZE
  NoClient,   \* no connection
  Junk        \* a byte of no stream

Bytes == 1..MaxBytes
B == INSTANCE ByteBuffer

\* An int in front of the payload (StreamItem).
HeaderSize == 4

\* Start(s)[i] is the position of the first byte of message i of stream s,
\* and for the message after the last one, of the end of the stream.
Start(s) ==
  LET f[i \in 1..(Len(s) + 1)] == IF i = 1 THEN 1 ELSE f[i - 1] + HeaderSize + s[i - 1]
  IN  f
Total(s) == Start(s)[Len(s) + 1] - 1

ASSUME DataSinkAssumption ==
  /\ MaxBytes \in Nat
  /\ Streams \subseteq Seq(Nat \ {0})
  /\ \A s \in Streams : Total(s) \in 0..MaxBytes
  /\ StartSize \in Nat /\ StartSize > HeaderSize
  /\ NoClient \notin Clients
  /\ Junk \notin Bytes

VARIABLES
  status,   \* [Clients -> its connection, see Status]
  stream,   \* [Clients -> what the client sends]
  taken,    \* [Clients -> bytes received]
  buf,      \* [Clients -> the ByteBuffer of its watcher]
  routed,   \* [Clients -> the payloads given to DataRouter::Route]
  callback, \* the connection whose _ReadCallback is in its loop, or NoClient
  ended,    \* history: connections that the client ended or that broke
  aborted   \* an assertion has failed

vars == <<status, stream, taken, buf, routed, callback, ended, aborted>>

\* failed: recv() has returned -1 and the watcher is still there.
Status == {"new", "open", "failed", "closed"}

Init ==
  /\ status = [c \in Clients |-> "new"]
  /\ stream = [c \in Clients |-> <<>>]
  /\ taken = [c \in Clients |-> 0]
  /\ buf = [c \in Clients |-> B!New(StartSize)]
  /\ routed = [c \in Clients |-> <<>>]
  /\ callback = NoClient
  /\ ended = {}
  /\ aborted = FALSE

-----------------------------------------------------------------------------
\* _AcceptCallback: the connection gets a watcher with an empty buffer.
Accept(c, s) ==
  /\ callback = NoClient
  /\ status[c] = "new"
  /\ status' = [status EXCEPT ![c] = "open"]
  /\ stream' = [stream EXCEPT ![c] = s]
  /\ buf' = [buf EXCEPT ![c] = B!New(StartSize)]
  /\ UNCHANGED <<taken, routed, callback, ended, aborted>>

\* The bytes with which the stream goes on.
NextBytes(c, n) == [i \in 1..n |-> taken[c] + i]

\* _ReadCallback as far as recv(), which finds room for len bytes.
Readable(c) == callback = NoClient /\ status[c] = "open"
Room(c) == B!GetContinuousBytesLeft(B!Defragment(buf[c]))

\* recv() returns n > 0 bytes; the loop over the messages begins.
Receive(c, n) ==
  /\ Readable(c)
  /\ n <= Room(c) /\ n <= Total(stream[c]) - taken[c]
  /\ taken' = [taken EXCEPT ![c] = @ + n]
  /\ buf' = [buf EXCEPT ![c] =
               B!BytesWritten(B!Write(B!Defragment(@), NextBytes(c, n)), n)]
  /\ callback' = c
  /\ UNCHANGED <<status, stream, routed, ended, aborted>>

\* _DeleteAndCleanupWatcher.
DeleteWatcher(c) == status' = [status EXCEPT ![c] = "closed"]

\* recv() returns 0 because the client has closed its end, or because the
\* connection has failed before, or because there is no room: the watcher and
\* the connection go.
ReceiveEnd(c) ==
  /\ callback = NoClient
  /\ status[c] \in {"open", "failed"}
  /\ ended' = IF status[c] = "open" /\ Room(c) > 0 THEN ended \cup {c} ELSE ended
  /\ DeleteWatcher(c)
  /\ UNCHANGED <<stream, taken, buf, routed, callback, aborted>>

\* recv() returns -1.  BytesWritten takes it for a count; the test for an
\* error, on an unsigned int, never holds, and the loop begins.
ReceiveFails(c) ==
  LET b == B!Defragment(buf[c]) IN
  /\ Readable(c)
  /\ ended' = ended \cup {c}
  /\ status' = [status EXCEPT ![c] = "failed"]
  /\ \/ /\ B!BytesWrittenAsserts(b, -1)
        /\ buf' = [buf EXCEPT ![c] = B!BytesWritten(b, -1)]
        /\ callback' = c
        /\ UNCHANGED aborted
     \/ /\ ~B!BytesWrittenAsserts(b, -1)
        /\ aborted' = TRUE
        /\ UNCHANGED <<buf, callback>>
  /\ UNCHANGED <<stream, taken, routed>>

-----------------------------------------------------------------------------
(* The loop of _ReadCallback over the messages in the buffer b of c.       *)

\* The messages of c whose header starts at the buffer's read reference.
MessagesAt(c) ==
  {i \in 1..Len(stream[c]) :
     \A k \in 1..HeaderSize : B!Content(buf[c])[k] = Start(stream[c])[i] + k - 1}

\* There could be one more full message.
MayHoldMessage(c) == buf[c].size > HeaderSize

\* The loop ends, and with it the callback.
LeaveLoop == callback' = NoClient

NothingLeft(c) ==
  /\ ~MayHoldMessage(c)
  /\ LeaveLoop
  /\ UNCHANGED <<status, stream, taken, buf, routed, ended, aborted>>

\* Mutant: the header is forgotten in the comparison with the capacity.
FitsWithoutHeader(c, length) == length <= buf[c].capacity

\* Can the buffer hold the message and its header?
Fits(c, length) == length <= buf[c].capacity - HeaderSize

\* Mutant: the capacity grows to the length of the message and no further.
GrowToLength(c, length) ==
  IF length > buf[c].capacity THEN length ELSE buf[c].capacity

\* What the buffer is resized to for a message that does not fit.
NewCapacity(c, length) ==
  IF length > 2 * buf[c].capacity THEN length ELSE 2 * buf[c].capacity

\* The buffer is too small: it grows and the loop ends.
Grow(c, length) ==
  /\ ~Fits(c, length)
  /\ buf' = [buf EXCEPT ![c] = B!Resize(@, NewCapacity(c, length))]
  /\ LeaveLoop
  /\ UNCHANGED routed

\* The message is not complete yet.
Fragment(c, length) ==
  /\ Fits(c, length)
  /\ buf[c].size - HeaderSize < length
  /\ LeaveLoop
  /\ UNCHANGED <<buf, routed>>

\* Mutant: only the first message of a read is routed.
RouteOne(c, length) ==
  /\ Fits(c, length)
  /\ buf[c].size - HeaderSize >= length
  /\ routed' = [routed EXCEPT ![c] =
       Append(@, SubSeq(B!Content(buf[c]), HeaderSize + 1, HeaderSize + length))]
  /\ buf' = [buf EXCEPT ![c] = B!BytesRead(@, HeaderSize + length)]
  /\ LeaveLoop

\* The message is routed, header and payload leave the buffer.
RouteMessage(c, length) ==
  /\ Fits(c, length)
  /\ buf[c].size - HeaderSize >= length
  /\ routed' = [routed EXCEPT ![c] =
       Append(@, SubSeq(B!Content(buf[c]), HeaderSize + 1, HeaderSize + length))]
  /\ buf' = [buf EXCEPT ![c] = B!BytesRead(@, HeaderSize + length)]
  /\ UNCHANGED callback

NextMessage(c) ==
  /\ MayHoldMessage(c)
  /\ \E i \in MessagesAt(c) :
       LET length == stream[c][i] IN
         Grow(c, length) \/ Fragment(c, length) \/ RouteMessage(c, length)
  /\ UNCHANGED <<status, stream, taken, ended, aborted>>

LoopBody(c) ==
  /\ callback = c
  /\ NothingLeft(c) \/ NextMessage(c)

-----------------------------------------------------------------------------
Ended == ((\A c \in Clients : status[c] = "closed") \/ aborted) /\ UNCHANGED vars

Next ==
  \/ /\ ~aborted
     /\ \E c \in Clients :
          \/ \E s \in Streams : Accept(c, s)
          \/ \E n \in 1..MaxBytes : Receive(c, n)
          \/ ReceiveEnd(c)
          \/ ReceiveFails(c)
          \/ LoopBody(c)
  \/ Ended

\* Bytes that were sent on a connection that stays arrive, the loop thread
\* runs, and Route returns.  Nobody has to connect, nor a connection to end.
Fairness ==
  \A c \in Clients :
    /\ SF_vars(~aborted /\ \E n \in 1..MaxBytes : Receive(c, n))
    /\ WF_vars(~aborted /\ LoopBody(c))

Spec == Init /\ [][Next]_vars
FairSpec == Spec /\ Fairness

-----------------------------------------------------------------------------
TypeOK ==
  /\ status \in [Clients -> Status]
  /\ stream \in [Clients -> Streams \cup {<<>>}]
  /\ taken \in [Clients -> 0..MaxBytes]
  /\ DOMAIN buf = Clients
  /\ \A c \in Clients : B!IsBuffer(buf[c])
  /\ routed \in [Clients -> Seq(Seq(Bytes))]
  /\ callback \in Clients \cup {NoClient}
  /\ ended \subseteq Clients
  /\ aborted \in BOOLEAN

\* The payload of message i of stream s.
Payload(s, i) == [k \in 1..s[i] |-> Start(s)[i] + HeaderSize + k - 1]

\* However TCP cuts the stream, the messages routed are the messages sent,
\* each whole, once and in order, from the first one on, also on a connection
\* that breaks; and what is read as a length is one (_ReadCallback with
\* ByteBuffer's Defragment and Resize).
RoutedAsSent ==
  \A c \in Clients :
    /\ callback = c /\ MayHoldMessage(c) => MessagesAt(c) # {}
    /\ Len(routed[c]) <= Len(stream[c])
    /\ \A i \in 1..Len(routed[c]) : routed[c][i] = Payload(stream[c], i)

\* There is always room to receive into: recv() with a length of 0 would
\* return 0, and the server would take a live client for disconnected.  Only
\* a client that has gone is closed.
OnlyGoneClientsClosed == \A c \in Clients : status[c] = "closed" => c \in ended

\* Between callbacks, a message that has arrived whole has been routed: none
\* waits in the buffer for bytes that need never come.
NoMessageHeldBack ==
  \A c \in Clients :
    LET n == Len(routed[c]) IN
      status[c] = "open" /\ callback # c /\ n < Len(stream[c]) =>
        taken[c] < Start(stream[c])[n + 2] - 1

\* Every message that a daemon sends reaches the router unless the connection
\* ends first: whatever a buffer looks like, the rest of a message fits in.
AllRouted ==
  \A c \in Clients :
    status[c] = "open" ~>
      \/ Len(routed[c]) = Len(stream[c])
      \/ c \in ended \/ aborted

\* The assertion in ByteBuffer::BytesWritten holds (ByteBuffer.cpp:95).
AssertionHolds == ~aborted
=============================================================================
