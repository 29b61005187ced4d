---------------------------------- MODULE Kcp ----------------------------------
(***************************************************************************)
(* The KCP library (depend/kcp/ikcp.c), with which file transfer over raw  *)
(* sockets gets a reliable stream of messages: two control blocks, a       *)
(* network between them that loses, duplicates and reorders datagrams, and *)
(* applications that send and receive when they like.                      *)
(*                                                                         *)
(* Time is what is due: Expire makes a segment's resendts pass, and        *)
(* ProbeExpire ts_probe; the timestamps and the round trip times, which    *)
(* only say how soon, are left out.  KcpClient turns the congestion window *)
(* off (nocwnd = 1), so cwnd and ssthresh are never read and left out too. *)
(* Sequence numbers are counted modulo SnMod, as they are modulo 2^32.     *)
(***************************************************************************)
EXTENDS Integers, Sequences, FiniteSets, SequencesExt, FiniteSetsExt

CONSTANTS
  Peers,       \* the two control blocks
  SnMod,       \* 2^32
  FirstSn,     \* segments each side sent, and had acknowledged, before
  WndRcv,      \* IKCP_WND_RCV: least receive window, and bound of a message
  SndWnd, RcvWnd,  \* windows asked of ikcp_wndsize
  FastResend,  \* fastresend
  FastLimit,   \* IKCP_FASTACK_LIMIT
  Mtu,         \* mtu, in units of the overhead of a segment
  FragLen,     \* length of a segment's data, in the same unit
  Lens,        \* segments in the messages handed to ikcp_send
  MaxMsgs,     \* bound: messages each side sends
  MaxFaults,   \* bound: datagrams lost, duplicated or overtaken
  NetCap       \* bound: datagrams on their way to one side

ASSUME KcpAssumption ==
  /\ IsFiniteSet(Peers) /\ Cardinality(Peers) = 2
  /\ SnMod \in Nat /\ FirstSn \in 0..(SnMod - 1)
  /\ WndRcv \in Nat \ {0} /\ SndWnd \in Nat \ {0} /\ RcvWnd \in Nat \ {0}
  /\ 2 * (SndWnd + Max({WndRcv, RcvWnd})) < SnMod
  /\ FastResend \in Nat /\ FastLimit \in Nat \ {0}
  /\ 1 + FragLen <= Mtu
  /\ Lens \subseteq Nat \ {0}
  /\ MaxMsgs \in [Peers -> Nat]
  /\ MaxFaults \in Nat /\ NetCap \in Nat

VARIABLES
  kcb,     \* the control block of each side
  net,     \* datagrams on their way to each side
  sent,    \* sizes of the messages each side handed to ikcp_send
  got,     \* messages ikcp_recv gave to each side
  faults   \* faults of the network so far

vars == <<kcb, net, sent, got, faults>>

Other(p) == CHOOSE q \in Peers : q # p

\* _itimediff
Diff(later, earlier) ==
  LET d == (later - earlier) % SnMod IN IF d < SnMod \div 2 THEN d ELSE d - SnMod

Plus(sn, n) == (sn + n) % SnMod

\* ikcp_wndsize: the receive window is never less than IKCP_WND_RCV.
RcvWindow == IF RcvWnd > WndRcv THEN RcvWnd ELSE WndRcv

\* ikcp_create
NewKcb == [sndQueue |-> <<>>, sndBuf |-> {}, sndUna |-> FirstSn, sndNxt |-> FirstSn,
           rcvQueue |-> <<>>, rcvBuf |-> {}, rcvNxt |-> FirstSn,
           ackList |-> <<>>, rmtWnd |-> WndRcv,
           probe |-> {}, probeWait |-> FALSE, probeDue |-> FALSE]

Init == /\ kcb = [p \in Peers |-> NewKcb]
        /\ net = [p \in Peers |-> <<>>]
        /\ sent = [p \in Peers |-> <<>>]
        /\ got = [p \in Peers |-> <<>>]
        /\ faults = 0
-----------------------------------------------------------------------------
(* ikcp_send *)

\* Fragment j of message i of n segments: the data, and how many follow it.
Fragment(i, j, n) == [data |-> <<i, j>>, frg |-> n - j]

\* A message of IKCP_WND_RCV segments or more is refused (-2).
SendMsg(p, n) ==
  /\ Len(sent[p]) < MaxMsgs[p]
  /\ n < WndRcv
  /\ LET i == Len(sent[p]) + 1 IN
     kcb' = [kcb EXCEPT ![p].sndQueue = @ \o [j \in 1..n |-> Fragment(i, j, n)]]
  /\ sent' = [sent EXCEPT ![p] = Append(@, n)]
  /\ UNCHANGED <<net, got, faults>>
-----------------------------------------------------------------------------
(* ikcp_input *)

\* ikcp_shrink_buf
ShrinkBuf(k) ==
  LET first(s) == \A t \in k.sndBuf : Diff(s.sn, t.sn) <= 0 IN
  [k EXCEPT !.sndUna = IF k.sndBuf = {} THEN k.sndNxt
                       ELSE (CHOOSE s \in k.sndBuf : first(s)).sn]

\* ikcp_parse_una: everything before una has arrived.
ParseUna(k, una) == [k EXCEPT !.sndBuf = {s \in @ : Diff(una, s.sn) <= 0}]

InFlight(k, sn) == Diff(sn, k.sndUna) >= 0 /\ Diff(sn, k.sndNxt) < 0

\* Mutant of ParseAck: an acknowledgment is taken for all before it as well.
ParseAck_Cumulative(k, sn) ==
  IF InFlight(k, sn) THEN [k EXCEPT !.sndBuf = {s \in @ : Diff(s.sn, sn) > 0}] ELSE k

\* ikcp_parse_ack
ParseAck(k, sn) ==
  IF InFlight(k, sn) THEN [k EXCEPT !.sndBuf = {s \in @ : s.sn # sn}] ELSE k

\* ikcp_parse_fastack; counted no further than the limit flush compares with.
ParseFastack(k, sn) ==
  IF ~InFlight(k, sn) THEN k ELSE
  [k EXCEPT !.sndBuf =
     {IF Diff(sn, s.sn) > 0 /\ s.fastack < FastResend
        THEN [s EXCEPT !.fastack = @ + 1] ELSE s : s \in @}]

\* Mutant of MoveAvailable: the receive window is not looked at.
MoveAvailable_NoWindow(k) ==
  LET next(n) == {s \in k.rcvBuf : s.sn = Plus(k.rcvNxt, n - 1)}
      n == Max({j \in 0..Cardinality(k.rcvBuf) : \A i \in 1..j : next(i) # {}})
      seg(j) == CHOOSE s \in next(j) : TRUE
  IN [k EXCEPT !.rcvBuf = @ \ {seg(j) : j \in 1..n},
               !.rcvQueue = @ \o [j \in 1..n |-> [data |-> seg(j).data, frg |-> seg(j).frg]],
               !.rcvNxt = Plus(@, n)]

\* The loop of ikcp_parse_data and ikcp_recv that moves what is in order from
\* rcv_buf to rcv_queue, as far as the window allows.
MoveAvailable(k) ==
  LET next(n) == {s \in k.rcvBuf : s.sn = Plus(k.rcvNxt, n - 1)}
      fits(n) == /\ Len(k.rcvQueue) + n <= RcvWindow
                 /\ \A j \in 1..n : next(j) # {}
      n == Max({j \in 0..Cardinality(k.rcvBuf) : fits(j)})
      seg(j) == CHOOSE s \in next(j) : TRUE
  IN [k EXCEPT !.rcvBuf = @ \ {seg(j) : j \in 1..n},
               !.rcvQueue = @ \o [j \in 1..n |-> [data |-> seg(j).data, frg |-> seg(j).frg]],
               !.rcvNxt = Plus(@, n)]

\* ikcp_parse_data
ParseData(k, s) ==
  IF Diff(s.sn, Plus(k.rcvNxt, RcvWindow)) >= 0 \/ Diff(s.sn, k.rcvNxt) < 0 THEN k
  ELSE IF \E t \in k.rcvBuf : t.sn = s.sn THEN MoveAvailable(k)
  ELSE MoveAvailable([k EXCEPT !.rcvBuf = @ \cup {[sn |-> s.sn, frg |-> s.frg, data |-> s.data]}])

\* Mutant of InputPush: what lies before rcv_nxt is not acknowledged again.
InputPush_NoReack(k, s) ==
  IF Diff(s.sn, Plus(k.rcvNxt, RcvWindow)) >= 0 \/ Diff(s.sn, k.rcvNxt) < 0 THEN k
  ELSE ParseData([k EXCEPT !.ackList = Append(@, s.sn)], s)

\* IKCP_CMD_PUSH: acknowledged whenever it is not beyond the window.
InputPush(k, s) ==
  IF Diff(s.sn, Plus(k.rcvNxt, RcvWindow)) >= 0 THEN k
  ELSE ParseData([k EXCEPT !.ackList = Append(@, s.sn)], s)

\* One segment of a datagram.
InputSeg(k0, s) ==
  LET k == ShrinkBuf(ParseUna([k0 EXCEPT !.rmtWnd = s.wnd], s.una)) IN
  CASE s.cmd = "ack"  -> ShrinkBuf(ParseAck(k, s.sn))
    [] s.cmd = "push" -> InputPush(k, s)
    [] s.cmd = "wask" -> [k EXCEPT !.probe = @ \cup {"tell"}]
    [] s.cmd = "wins" -> k

\* ikcp_input; the largest sn acknowledged in the datagram goes to fastack.
InputDatagram(k, segs) ==
  LET acks == {s.sn : s \in {t \in ToSet(segs) : t.cmd = "ack"}}
      maxack == CHOOSE sn \in acks : \A t \in acks : Diff(sn, t) >= 0
      after == FoldLeft(InputSeg, k, segs)
  IN IF acks = {} THEN after ELSE ParseFastack(after, maxack)

Input(p) ==
  /\ net[p] # <<>>
  /\ \E k \in {InputDatagram(kcb[p], Head(net[p]))} : kcb' = [kcb EXCEPT ![p] = k]
  /\ net' = [net EXCEPT ![p] = Tail(@)]
  /\ UNCHANGED <<sent, got, faults>>
-----------------------------------------------------------------------------
(* ikcp_update and ikcp_flush *)

\* ikcp_wnd_unused
WndUnused(k) == IF Len(k.rcvQueue) < RcvWindow THEN RcvWindow - Len(k.rcvQueue) ELSE 0

\* What flush does to the window probe, before it sends the commands.
ProbeWindow(k) ==
  IF k.rmtWnd # 0 THEN [k EXCEPT !.probeWait = FALSE, !.probeDue = FALSE]
  ELSE IF ~k.probeWait THEN [k EXCEPT !.probeWait = TRUE, !.probeDue = FALSE]
  ELSE IF k.probeDue THEN [k EXCEPT !.probe = @ \cup {"ask"}, !.probeDue = FALSE]
  ELSE k

\* Segments move from snd_queue to snd_buf as far as both windows allow.
FillSndBuf(k) ==
  LET cwnd == Min({SndWnd, k.rmtWnd})
      n == Min({Len(k.sndQueue), Max({0, cwnd - Diff(k.sndNxt, k.sndUna)})})
      seg(j) == [sn |-> Plus(k.sndNxt, j - 1), frg |-> k.sndQueue[j].frg, data |-> k.sndQueue[j].data,
                 xmit |-> 0, fastack |-> 0, due |-> FALSE]
  IN [k EXCEPT !.sndQueue = SubSeq(@, n + 1, Len(@)),
               !.sndBuf = @ \cup {seg(j) : j \in 1..n},
               !.sndNxt = Plus(@, n)]

\* Sent at once, when its time is over, or when later ones were acknowledged.
NeedSend(s) == \/ s.xmit = 0
               \/ s.due
               \/ s.fastack >= FastResend /\ s.xmit <= FastLimit

\* xmit is counted no further than the limit it is compared with.
Transmitted(s) ==
  [s EXCEPT !.xmit = IF @ > FastLimit THEN @ ELSE @ + 1,
            !.fastack = IF s.xmit = 0 \/ s.due THEN @ ELSE 0,
            !.due = FALSE]

SizeOf(s) == IF s.cmd = "push" THEN 1 + FragLen ELSE 1

\* Segments are put into one datagram as long as mtu allows.
Pack(segs) ==
  LET size(d) == FoldLeft(LAMBDA n, s : n + SizeOf(s), 0, d)
      put(ds, s) == IF ds # <<>> /\ size(Last(ds)) + SizeOf(s) <= Mtu
                    THEN Append(Front(ds), Append(Last(ds), s)) ELSE Append(ds, <<s>>)
  IN FoldLeft(put, <<>>, segs)

\* The control block after ikcp_flush.
Flushed(k) ==
  LET f == FillSndBuf([ProbeWindow(k) EXCEPT !.ackList = <<>>, !.probe = {}]) IN
  [f EXCEPT !.sndBuf = {IF NeedSend(s) THEN Transmitted(s) ELSE s : s \in @}]

\* The datagrams of ikcp_flush: acknowledgments, window commands, data.
Output(k) ==
  LET seg(cmd, sn, frg, data) ==
        [cmd |-> cmd, sn |-> sn, frg |-> frg, data |-> data, wnd |-> WndUnused(k), una |-> k.rcvNxt]
      f == ProbeWindow(k)
      due == {s \in FillSndBuf(f).sndBuf : NeedSend(s)}
      data == CHOOSE d \in [1..Cardinality(due) -> due] :
                \A i, j \in DOMAIN d : i < j => Diff(d[i].sn, d[j].sn) < 0
  IN Pack([j \in DOMAIN k.ackList |-> seg("ack", k.ackList[j], 0, <<>>)]
          \o (IF "ask" \in f.probe THEN <<seg("wask", 0, 0, <<>>)>> ELSE <<>>)
          \o (IF "tell" \in f.probe THEN <<seg("wins", 0, 0, <<>>)>> ELSE <<>>)
          \o [j \in DOMAIN data |-> seg("push", data[j].sn, data[j].frg, data[j].data)])

Update(p) ==
  /\ \E out \in {Output(kcb[p])}, k \in {Flushed(kcb[p])} :
       /\ net[Other(p)] = <<>> \/ Len(net[Other(p)]) + Len(out) <= NetCap
       /\ kcb' = [kcb EXCEPT ![p] = k]
       /\ net' = [net EXCEPT ![Other(p)] = @ \o out]
  /\ UNCHANGED <<sent, got, faults>>

\* A timer runs out when nothing is on the way any more; or earlier, which
\* counts as a fault of the network: it was slow.
Elapses == \/ /\ \A q \in Peers : net[q] = <<>> /\ kcb[q].ackList = <<>> /\ kcb[q].probe = {}
              /\ UNCHANGED faults
           \/ faults < MaxFaults /\ faults' = faults + 1

\* resendts of a segment passes.
Expire(p) ==
  /\ Elapses
  /\ \E s \in kcb[p].sndBuf :
       /\ s.xmit > 0 /\ ~s.due
       /\ kcb' = [kcb EXCEPT ![p].sndBuf = (@ \ {s}) \cup {[s EXCEPT !.due = TRUE]}]
  /\ UNCHANGED <<net, sent, got>>

\* ts_probe passes.
ProbeExpire(p) ==
  /\ Elapses
  /\ kcb[p].probeWait /\ ~kcb[p].probeDue
  /\ kcb' = [kcb EXCEPT ![p].probeDue = TRUE]
  /\ UNCHANGED <<net, sent, got>>
-----------------------------------------------------------------------------
(* ikcp_recv *)

\* Mutant of Complete: one segment is enough.
Complete_First(k) == k.rcvQueue # <<>>

\* ikcp_peeksize: all the segments of the next message are there.
Complete(k) == k.rcvQueue # <<>> /\ Len(k.rcvQueue) >= Head(k.rcvQueue).frg + 1

\* The segments up to the one with frg 0 are merged into the message.
Recv(p) ==
  LET k == kcb[p]
      n == Min({j \in DOMAIN k.rcvQueue : k.rcvQueue[j].frg = 0} \cup {Len(k.rcvQueue)})
      moved == MoveAvailable([k EXCEPT !.rcvQueue = SubSeq(@, n + 1, Len(@))])
      recover == Len(k.rcvQueue) >= RcvWindow /\ Len(moved.rcvQueue) < RcvWindow
  IN /\ Complete(k)
     /\ got' = [got EXCEPT ![p] = Append(@, [j \in 1..n |-> k.rcvQueue[j].data])]
     /\ kcb' = [kcb EXCEPT ![p] = IF recover THEN [moved EXCEPT !.probe = @ \cup {"tell"}]
                                             ELSE moved]
     /\ UNCHANGED <<net, sent, faults>>
-----------------------------------------------------------------------------
(* The network *)

Fault == faults < MaxFaults /\ faults' = faults + 1 /\ UNCHANGED <<kcb, sent, got>>

Lose(p) == Fault /\ \E i \in DOMAIN net[p] : net' = [net EXCEPT ![p] = RemoveAt(@, i)]

Duplicate(p) == Fault /\ Len(net[p]) < NetCap
                /\ \E i \in DOMAIN net[p] : net' = [net EXCEPT ![p] = Append(@, net[p][i])]

Overtake(p) ==
  Fault /\ \E i \in 2..Len(net[p]) :
             net' = [net EXCEPT ![p] = <<net[p][i]>> \o RemoveAt(@, i)]
-----------------------------------------------------------------------------
Next == \E p \in Peers :
          \/ \E n \in Lens : SendMsg(p, n)
          \/ Input(p) \/ Update(p) \/ Recv(p)
          \/ Expire(p) \/ ProbeExpire(p)
          \/ Lose(p) \/ Duplicate(p) \/ Overtake(p)

Spec == Init /\ [][Next]_vars

\* The timer calls ikcp_update, the socket's handler ikcp_input, the application
\* goes on receiving, and time passes; MaxFaults bounds what the network takes.
\* The first three are weak fairness with ENABLED written out as the condition
\* it amounts to, which TLC evaluates much faster.
CanUpdate(p) ==
  /\ Output(kcb[p]) # <<>> \/ Flushed(kcb[p]) # kcb[p]
  /\ net[Other(p)] = <<>> \/ Len(net[Other(p)]) + Len(Output(kcb[p])) <= NetCap

FairSpec ==
  /\ Spec
  /\ \A p \in Peers :
       /\ []<>(net[p] = <<>>) \/ []<><<Input(p)>>_vars
       /\ []<>~Complete(kcb[p]) \/ []<><<Recv(p)>>_vars
       /\ []<>~CanUpdate(p) \/ []<><<Update(p)>>_vars
       /\ WF_vars(Expire(p)) /\ WF_vars(ProbeExpire(p))
-----------------------------------------------------------------------------
(* Properties *)

Sns == 0..(SnMod - 1)

\* Every field of the control blocks keeps its type, and counters their range.
TypeOK ==
  /\ \A p \in Peers :
       LET k == kcb[p] IN
       /\ k.sndUna \in Sns /\ k.sndNxt \in Sns /\ k.rcvNxt \in Sns
       /\ k.rmtWnd \in 0..RcvWindow
       /\ k.probe \subseteq {"ask", "tell"} /\ k.probeWait \in BOOLEAN /\ k.probeDue \in BOOLEAN
       /\ \A s \in k.sndBuf : /\ s.sn \in Sns /\ s.xmit \in 0..(FastLimit + 1)
                              /\ s.fastack \in 0..FastResend /\ s.due \in BOOLEAN
       /\ \A s \in k.rcvBuf : s.sn \in Sns
  /\ faults \in 0..MaxFaults

\* What side p has of the stream of its peer, in order of the fragments.
Held(p) == {s.data : s \in kcb[p].rcvBuf}
           \cup {kcb[p].rcvQueue[j].data : j \in DOMAIN kcb[p].rcvQueue}
           \cup UNION {ToSet(got[p][i]) : i \in DOMAIN got[p]}

Waiting(p) == {s.data : s \in kcb[p].sndBuf}
              \cup {kcb[p].sndQueue[j].data : j \in DOMAIN kcb[p].sndQueue}

\* A segment is forgotten by its sender only when the receiver has it: losses,
\* duplicates, late and reordered acknowledgments never make una or an
\* acknowledgment release one that is still missing.
NothingForgotten ==
  \A p \in Peers : \A i \in DOMAIN sent[p] : \A j \in 1..sent[p][i] :
    <<i, j>> \in Waiting(p) \cup Held(Other(p))

\* The control blocks hold what they should, within their types.
Retained == TypeOK /\ NothingForgotten

\* No queue of the receiver outgrows its window, whatever the application reads,
\* and no more than the send window is in flight.
WindowsHold ==
  \A p \in Peers :
    LET k == kcb[p] IN
    /\ Len(k.rcvQueue) <= RcvWindow
    /\ \A s \in k.rcvBuf : Diff(s.sn, k.rcvNxt) \in 0..(RcvWindow - 1)
    /\ Cardinality({s.sn : s \in k.rcvBuf}) = Cardinality(k.rcvBuf)
    /\ Diff(k.sndNxt, k.sndUna) \in 0..SndWnd
    /\ \A s \in k.sndBuf : InFlight(k, s.sn)

Stream(p) == INSTANCE MessageStream
  WITH sent <- [i \in DOMAIN sent[p] |-> [j \in 1..sent[p][i] |-> <<i, j>>]],
       delivered <- got[Other(p)]

\* Each side receives the messages the other sent: whole, each once, in order.
Reliable == /\ \A p \in Peers : Stream(p)!Init
            /\ [][\A p \in Peers : Stream(p)!Next \/ UNCHANGED Stream(p)!vars]_vars

\* And all of them, once the network stops failing: no window stays closed
\* because the message that opens it was lost, no segment is never sent again.
Arrives == \A p \in Peers : \A i \in 1..MaxMsgs[p] :
             (Len(sent[p]) >= i) ~> (Len(got[Other(p)]) >= i /\ Cardinality(kcb[p].sndBuf) = 0)
===============================================================================
