------------------------------ MODULE SendBuffer ------------------------------
(***************************************************************************)
(* Socket::send_b: a TCP socket that collects small packets in _SndBuffer. *)
(* Any thread appends, a buffer that is large enough is offered to the     *)
(* kernel at once, a timer of the poller offers what is left, and what the *)
(* kernel does not take for too long is reported as the socket's error.    *)
(* All of it runs under _mtx_sock_fd.  Nothing stops writing (_sendable is *)
(* always true), and nothing but sending empties the buffer: it outlives   *)
(* the connection.                                                         *)
(***************************************************************************)
EXTENDS Integers, Sequences

CONSTANTS
  First,      \* TCP_BUFFER_SIZE * 2, the first capacity
  Enough,     \* TCP_BUFFER_SIZE / 2, more than this is offered at once
  MaxCap,     \* _max_bufsize_b
  FlushTimes, \* _flush_b_times
  Delay,      \* _snd_timeout_b, the delay of the timer
  Patience,   \* 10 in timer_b
  PacketLens, \* lengths of packets
  Room,       \* room of the kernel's buffer
  Late,       \* bound: how late the poller runs the timer
  MaxBytes,   \* bound: bytes given to send_b
  MaxConns    \* bound: connections

ASSUME SendBufferAssumption ==
  /\ {First, Enough, MaxCap, Late, MaxBytes, MaxConns} \subseteq Nat
  /\ {FlushTimes, Delay, Patience, Room} \subseteq Nat \ {0}
  /\ PacketLens \subseteq Nat \ {0}

VARIABLES
  buf,        \* the data of _SndBuffer
  capacity,   \* its capacity
  up,         \* _sock_fd is there
  elapsed,    \* _snd_ticker_b
  clock,      \* time since the timer ran
  report,     \* _err_emit, and what with
  crashed,    \* flush_b went through a null _sock_fd
  conns,      \* connections made
  room,       \* room left in the kernel
  peer,       \* reads, stalled, gone
  given,      \* history: the bytes send_b answered success for
  sent,       \* history: the bytes the kernel took, on any connection
  waited      \* history: time since there are bytes and the kernel took none

socket == <<buf, capacity, elapsed, report, crashed>>
network == <<up, conns, peer>>
history == <<given, sent, waited>>
bufferVars == <<socket, network, room, clock, history>>

Ages == Patience * FlushTimes + FlushTimes + Delay + Late + 1
Older(t) == IF t < Ages THEN t + 1 ELSE t

\* The allocation of SetSndType may fail, which is reported.
BufferInit == /\ buf = <<>> /\ capacity \in {0, First}
              /\ report = IF capacity = First THEN "none" ELSE "failed"
              /\ up = TRUE /\ conns = 1 /\ room = Room /\ peer = "reads"
              /\ elapsed = 0 /\ clock = 0 /\ crashed = FALSE
              /\ given = <<>> /\ sent = <<>> /\ waited = 0

EmitErr(what) == report' = IF report = "none" THEN what ELSE report
-----------------------------------------------------------------------------
(* flush_b, of a buffer that holds b *)

\* send() with MSG_NOSIGNAL on a descriptor that does not block: -1, or what fits.
Offered(b) == IF room < Len(b) THEN room ELSE Len(b)
Refused(b) == b # <<>> /\ up /\ peer = "gone"

\* Mutant of Flush: what was sent of a packet is not taken from the buffer.
Flush_NoAlign(b) ==
  LET n == IF b = <<>> \/ ~up \/ Refused(b) THEN 0 ELSE Offered(b) IN
  /\ crashed' = (crashed \/ (b # <<>> /\ ~up))
  /\ sent' = sent \o SubSeq(b, 1, n) /\ room' = room - n
  /\ buf' = IF n = Len(b) THEN <<>> ELSE b
  /\ elapsed' = IF b = <<>> \/ n > 0 THEN 0 ELSE elapsed
  /\ waited' = IF b = <<>> \/ n > 0 THEN 0 ELSE waited

\* Mutant of Flush: a buffer that is empty leaves the ticker as it is.
Flush_NoReset(b) ==
  LET n == IF b = <<>> \/ ~up \/ Refused(b) THEN 0 ELSE Offered(b) IN
  /\ crashed' = (crashed \/ (b # <<>> /\ ~up))
  /\ sent' = sent \o SubSeq(b, 1, n) /\ room' = room - n
  /\ buf' = SubSeq(b, n + 1, Len(b))
  /\ elapsed' = IF n > 0 THEN 0 ELSE elapsed
  /\ waited' = IF b = <<>> \/ n > 0 THEN 0 ELSE waited

\* An empty buffer, like progress, resets the ticker; the rest is moved to the front.
Flush(b) ==
  LET n == IF b = <<>> \/ ~up \/ Refused(b) THEN 0 ELSE Offered(b) IN
  /\ crashed' = (crashed \/ (b # <<>> /\ ~up))
  /\ sent' = sent \o SubSeq(b, 1, n) /\ room' = room - n
  /\ buf' = SubSeq(b, n + 1, Len(b))
  /\ elapsed' = IF b = <<>> \/ n > 0 THEN 0 ELSE elapsed
  /\ waited' = IF b = <<>> \/ n > 0 THEN 0 ELSE waited
-----------------------------------------------------------------------------
(* send_b, on any thread *)

Packet(len) == [i \in 1..len |-> Len(given) + i]
Grown(len) == (capacity + len) * 2

\* The packet fits, or the buffer grows, to more than _max_bufsize_b once.
SendB(len) ==
  /\ ~crashed /\ Len(given) + len <= MaxBytes
  /\ \/ len <= capacity - Len(buf) /\ UNCHANGED capacity
     \/ len > capacity - Len(buf) /\ capacity <= MaxCap /\ capacity' = Grown(len)
  /\ given' = given \o Packet(len)
  /\ LET b == buf \o Packet(len) IN
     IF Len(b) > Enough
     THEN Flush(b) /\ (IF Refused(b) THEN EmitErr("failed") ELSE UNCHANGED report)
     ELSE /\ buf' = b
          /\ waited' = IF buf = <<>> THEN 0 ELSE waited
          /\ UNCHANGED <<elapsed, report, crashed, sent, room>>
  /\ UNCHANGED <<network, clock>>

\* The buffer is too large to grow, or the allocation fails.
SendFails(len) ==
  /\ ~crashed /\ Len(given) + len <= MaxBytes
  /\ len > capacity - Len(buf)
  /\ EmitErr("failed")
  /\ UNCHANGED <<buf, capacity, elapsed, crashed, network, room, clock, history>>
-----------------------------------------------------------------------------
(* timer_b, on the poller *)

\* Mutant of Timer: small packets wait for more to come.
Timer_NoFlush ==
  /\ ~crashed /\ clock >= Delay
  /\ clock' = 0
  /\ IF elapsed > FlushTimes /\ Len(buf) > Enough
     THEN Flush(buf) ELSE UNCHANGED <<buf, elapsed, crashed, sent, room, waited>>
  /\ UNCHANGED <<capacity, network, given, report>>

\* First the flush, whose progress resets the ticker, then the timeout.
Timer ==
  /\ ~crashed /\ clock >= Delay
  /\ clock' = 0
  /\ IF elapsed > FlushTimes
     THEN Flush(buf) ELSE UNCHANGED <<buf, elapsed, crashed, sent, room, waited>>
  /\ \/ elapsed > FlushTimes /\ Refused(buf) /\ EmitErr("failed")
     \/ /\ ~(elapsed > FlushTimes /\ Refused(buf)) /\ elapsed' > Patience * FlushTimes
        /\ ~crashed' /\ EmitErr("timeout")
     \/ /\ ~(elapsed > FlushTimes /\ Refused(buf))
        /\ elapsed' <= Patience * FlushTimes \/ crashed'
        /\ UNCHANGED report
  /\ UNCHANGED <<capacity, network, given>>

Tick ==
  /\ ~crashed /\ clock < Delay + Late
  /\ clock' = clock + 1
  /\ elapsed' = Older(elapsed)
  /\ waited' = IF buf = <<>> THEN waited ELSE Older(waited)
  /\ UNCHANGED <<buf, capacity, report, crashed, network, room, given, sent>>
-----------------------------------------------------------------------------
(* The connection *)

Drain ==
  /\ up /\ peer = "reads" /\ room < Room
  /\ room' = Room
  /\ UNCHANGED <<socket, network, clock, history>>

PeerStops ==
  /\ up /\ peer = "reads"
  /\ \E how \in {"stalled", "gone"} : peer' = how
  /\ UNCHANGED <<socket, up, conns, room, clock, history>>

\* closeSock(true): the descriptor goes, and the mark of the error.
CloseSock ==
  /\ ~crashed /\ up
  /\ up' = FALSE /\ report' = "none"
  /\ UNCHANGED <<buf, capacity, elapsed, crashed, conns, peer, room, clock, history>>

Connect ==
  /\ ~crashed /\ ~up /\ conns < MaxConns
  /\ up' = TRUE /\ conns' = conns + 1 /\ room' = Room /\ peer' = "reads"
  /\ UNCHANGED <<socket, clock, history>>

Crash == crashed /\ UNCHANGED bufferVars

BufferNext == \/ \E len \in PacketLens : SendB(len) \/ SendFails(len)
              \/ Timer \/ Tick \/ Drain \/ PeerStops \/ CloseSock \/ Connect \/ Crash

Fairness == WF_bufferVars(Timer) /\ WF_bufferVars(Tick) /\ WF_bufferVars(Drain)
BufferSpec == BufferInit /\ [][BufferNext]_bufferVars
BufferFairSpec == BufferSpec /\ Fairness
-----------------------------------------------------------------------------
(* Properties *)

BufferTypeOK ==
  /\ buf \in Seq(Nat) /\ given \in Seq(Nat) /\ sent \in Seq(Nat)
  /\ capacity \in Nat /\ room \in 0..Room
  /\ up \in BOOLEAN /\ crashed \in BOOLEAN
  /\ report \in {"none", "failed", "timeout"}
  /\ peer \in {"reads", "stalled", "gone"}
  /\ conns \in Nat /\ elapsed \in Nat /\ clock \in Nat /\ waited \in Nat

\* What the kernel took and what is in the buffer are the bytes given.
Exact == given = sent \o buf

\* They fit in the memory, which grows to a bounded size.
Fits == /\ Len(buf) <= capacity
        /\ \/ capacity \in {0, First}
           \/ \E c \in 0..MaxCap, l \in PacketLens : capacity = (c + l) * 2

\* The bytes send_b answered success for are those the kernel took and those
\* that are in the buffer, in order and once each, whatever part the kernel
\* took of which call; they fit in the memory, which stays bounded if the peer
\* stops reading.
StreamKept == BufferTypeOK /\ Exact /\ Fits

\* "socket send timeout" is the word for a kernel that took nothing of what it
\* was offered for several periods, and not for a socket that had nothing to
\* send before: the ticker may not be left from then.
TimeoutIsReal ==
  [][report = "none" /\ report' = "timeout"
       => waited > (Patience - 1) * FlushTimes - Delay - Late]_bufferVars

\* Bytes that are given are taken by the kernel, without another call of send_b,
\* or an error is reported: a peer that stops reading is not waited for for ever.
Settled == buf # <<>> ~> \/ buf = <<>> \/ report # "none"
                         \/ ~up \/ crashed
===============================================================================
