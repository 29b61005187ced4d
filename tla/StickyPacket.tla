----------------------------- MODULE StickyPacket -----------------------------
(***************************************************************************)
(* Framing of messages on a TCP connection: Socket::onRead receives bytes  *)
(* in pieces of any size into the Buffer of the socket, and StickyPacket   *)
(* cuts them into messages by the length in their header.  Bytes are named *)
(* by their position in the stream: the buffer holds positions front to    *)
(* read, so Size() is read - front, and Align or Reset moves front.        *)
(***************************************************************************)
EXTENDS Integers, Sequences

CONSTANTS
  HeadLen,   \* sizeof(MsgHdr)
  Lens,      \* uTotalLen of the messages the peer may send
  Cap0,      \* TCP_BUFFER_SIZE
  MaxPkt,    \* MAX_PKT_SIZE
  MaxMsgs    \* bound: messages the peer sends

ASSUME HeadAssumption == HeadLen \in Nat \ {0}
ASSUME LensAssumption == Lens \subseteq {l \in Nat : l >= HeadLen}
ASSUME CapAssumption == /\ Cap0 \in Nat /\ Cap0 >= HeadLen
                        /\ MaxPkt \in Nat /\ MaxPkt >= Cap0
                        /\ MaxMsgs \in Nat

VARIABLES
  ends,       \* position after each message the peer sent
  closed,     \* the peer closed the connection
  read,       \* bytes received
  front,      \* position of the first byte of the buffer
  cap,        \* _capacity
  offset,     \* offset of the dispatch loop
  delivered,  \* position and length given to the callback, oldest first
  pc          \* where onRead is

vars == <<ends, closed, read, front, cap, offset, delivered, pc>>
stream == <<ends, closed>>

Start(i) == IF i = 1 THEN 0 ELSE ends[i - 1]
Sent == IF ends = <<>> THEN 0 ELSE ends[Len(ends)]
Size == read - front

\* uTotalLen of a header at position p: any bytes if no message starts there.
Headers(p) ==
  LET here == {i \in DOMAIN ends : Start(i) = p} IN
  IF here = {} THEN Lens ELSE {ends[i] - p : i \in here}

Init == /\ ends = <<>> /\ closed = FALSE
        /\ read = 0 /\ front = 0
        /\ cap = Cap0
        /\ offset = 0
        /\ delivered = <<>>
        /\ pc = "recv"
-----------------------------------------------------------------------------
(* The peer *)

Send(l) == /\ ~closed /\ Len(ends) < MaxMsgs
           /\ ends' = Append(ends, Sent + l)
           /\ UNCHANGED <<closed, read, front, cap, offset, delivered, pc>>

PeerClose == /\ ~closed
             /\ closed' = TRUE
             /\ UNCHANGED <<ends, read, front, cap, offset, delivered, pc>>
-----------------------------------------------------------------------------
(* Socket::onRead *)

\* recvfrom into the idle space got k bytes; _on_read is called with the buffer.
Recv(k) ==
  /\ pc = "recv" /\ read + k <= Sent /\ Size + k <= cap
  /\ read' = read + k
  /\ pc' = "sticky"
  /\ UNCHANGED <<ends, closed, front, cap, offset, delivered>>

\* recvfrom got 0: the peer closed the connection, or no space was idle.
RecvEof ==
  /\ pc = "recv"
  /\ Size = cap \/ (closed /\ read = Sent)
  /\ pc' = "eof"
  /\ UNCHANGED <<ends, closed, read, front, cap, offset, delivered>>
-----------------------------------------------------------------------------
(* StickyPacket *)

HeaderShort ==
  /\ pc = "sticky" /\ Size < HeadLen
  /\ pc' = "recv"
  /\ UNCHANGED <<ends, closed, read, front, cap, offset, delivered>>

\* Mutant of Incomplete: the buffer never grows.
Incomplete_NoGrow ==
  /\ pc = "sticky" /\ Size >= HeadLen
  /\ \E total \in Headers(front) : Size < total
  /\ pc' = "recv"
  /\ UNCHANGED <<ends, closed, read, front, cap, offset, delivered>>

\* The first message is not whole; the buffer grows if it could not hold it.
Incomplete ==
  /\ pc = "sticky" /\ Size >= HeadLen
  /\ \E total \in Headers(front) :
       /\ Size < total
       /\ \/ total <= cap /\ pc' = "recv" /\ UNCHANGED cap
          \/ total > MaxPkt /\ total > cap /\ pc' = "failed" /\ UNCHANGED cap
          \/ total <= MaxPkt /\ total > cap /\ pc' = "recv" /\ cap' = total
  /\ UNCHANGED <<ends, closed, read, front, offset, delivered>>

BeginDispatch ==
  /\ pc = "sticky" /\ Size >= HeadLen
  /\ \E total \in Headers(front) : Size >= total
  /\ offset' = 0
  /\ pc' = "dispatch"
  /\ UNCHANGED <<ends, closed, read, front, cap, delivered>>

\* Mutant of Dispatch: one message per call.
Dispatch_Once ==
  /\ pc = "dispatch" /\ Size - offset >= HeadLen
  /\ \E total \in Headers(front + offset) :
       /\ Size - offset >= total
       /\ delivered' = Append(delivered, <<front + offset, total>>)
       /\ front' = front + offset + total
  /\ offset' = 0 /\ pc' = "recv"
  /\ UNCHANGED <<ends, closed, read, cap>>

Dispatch ==
  /\ pc = "dispatch" /\ Size - offset >= HeadLen
  /\ \E total \in Headers(front + offset) :
       /\ Size - offset >= total
       /\ delivered' = Append(delivered, <<front + offset, total>>)
       /\ offset' = offset + total
  /\ UNCHANGED <<ends, closed, read, front, cap, pc>>

\* Mutant of EndDispatch: always Reset, the tail is dropped.
EndDispatch_Reset ==
  /\ pc = "dispatch"
  /\ Size - offset < HeadLen \/ \E total \in Headers(front + offset) : Size - offset < total
  /\ front' = read /\ offset' = 0
  /\ pc' = "recv"
  /\ UNCHANGED <<ends, closed, read, cap, delivered>>

\* Align moves the tail to the front of the buffer; Reset if there is none.
EndDispatch ==
  /\ pc = "dispatch"
  /\ Size - offset < HeadLen \/ \E total \in Headers(front + offset) : Size - offset < total
  /\ front' = front + offset /\ offset' = 0
  /\ pc' = "recv"
  /\ UNCHANGED <<ends, closed, read, cap, delivered>>

\* onRecv exits the process, or the connection has ended.
Stopped == pc \in {"failed", "eof"} /\ UNCHANGED vars
-----------------------------------------------------------------------------
OnRead == \/ \E k \in 1..(Sent - read) : Recv(k)
          \/ RecvEof
          \/ HeaderShort \/ Incomplete
          \/ BeginDispatch \/ Dispatch \/ EndDispatch

Next == \/ \E l \in Lens : Send(l)
        \/ PeerClose
        \/ OnRead
        \/ Stopped

Spec == Init /\ [][Next]_vars

\* The epoll thread goes on reading while there is something to read.
FairSpec == Spec /\ WF_vars(OnRead)
-----------------------------------------------------------------------------
(* Properties *)

\* Every variable keeps its type and the buffer holds what it was given.
TypeOK == /\ ends \in Seq(Nat)
          /\ closed \in BOOLEAN
          /\ read \in Nat /\ front \in Nat /\ offset \in Nat /\ cap \in Nat
          /\ front + offset <= read
          /\ read - front <= cap
          /\ cap <= MaxPkt
          /\ delivered \in Seq(Nat \X Nat)
          /\ pc \in {"recv", "sticky", "dispatch", "failed", "eof"}

\* However the stream was cut, between two calls no whole message is left in
\* the buffer: with an edge-triggered socket nothing would come to dispatch it.
NoneLeftBehind ==
  pc = "recv" => \A i \in DOMAIN ends : i > Len(delivered) => read < ends[i]

\* Reading stops for a cause.  recvfrom never gets 0 bytes for lack of space in
\* the buffer, which onRead would take for the end of the connection; and
\* StickyPacket fails, which ends the process, only for a message longer than
\* MAX_PKT_SIZE.
StopsForCause ==
  LET next == Len(delivered) + 1 IN
  /\ pc = "eof" => closed /\ read = Sent
  /\ pc = "failed" => next \in DOMAIN ends /\ ends[next] - Start(next) > MaxPkt

\* The framing of StickyPacket holds: the three above, the bounds of the buffer
\* included, at every step.
Framing == TypeOK /\ NoneLeftBehind /\ StopsForCause

Stream == INSTANCE MessageStream
            WITH sent <- [i \in DOMAIN ends |-> <<Start(i), ends[i] - Start(i)>>]

\* Whatever the pieces the bytes arrive in, the callback gets the messages that
\* were sent: whole, once each, in order.
InOrder == Stream!Spec

\* Every message sent before one that is too long is delivered.
AllDelivered ==
  \A i \in 1..MaxMsgs :
    (Len(ends) >= i) ~> (Len(delivered) >= i \/ pc = "failed")
===============================================================================
