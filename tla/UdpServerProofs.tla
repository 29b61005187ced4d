--------------------------- MODULE UdpServerProofs ---------------------------
(***************************************************************************)
(* What the UDP server guarantees for any number of peers and datagrams:   *)
(* none vanishes inside the server, only one that arrived between the bind *)
(* and the connect of another peer's socket gets into the session of that  *)
(* peer, and a session is handed its own peer's datagrams once, in order.  *)
(***************************************************************************)
EXTENDS UdpServer, SequenceTheorems, TLAPS

(* The inductive invariant. *)

Held(q) == {q[i] : i \in DOMAIN q}

\* The socket that is being made, and the datagram it is made for.
Making ==
  /\ loop # "create" => /\ buf[Srv] = <<>> /\ flow = {}
                        /\ \A p \in Peers : st[p] # "bound"
  /\ loop = "create" => /\ cur = Srv
                        /\ \E d \in Datagrams :
                             /\ buf[Srv] = <<d>> /\ st[d[1]] = "bound"
                             /\ \A p \in Peers : st[p] = "bound" => p = d[1]

\* A session that waits for its removal gets no event.
Watched ==
  /\ \A p \in ready \cap Peers : st[p] \in {"bound", "own"}
  /\ \A p \in batch \cap Peers : st[p] = "own"
  /\ loop = "read" => cur \in Socks
  /\ loop = "read" /\ cur # Srv => st[cur] = "own" /\ cur \notin batch

\* The server's socket is read empty before the loop looks at a session's.
Sorted ==
  \A d \in Held(queue[Srv]) :
    /\ st[d[1]] # "off"
    /\ st[d[1]] \in {"bound", "own"} => cur = Srv /\ loop \in {"read", "create"}

\* What is left in the buffer of a session is not its own.
Strays == \A p \in Peers : Held(buf[p]) \subseteq strayed

Foreign == \A p \in Peers : \A d \in Held(got[p]) : d[1] = p \/ d \in strayed

Known(d) == \/ \E s \in Socks : d \in Held(queue[s])
            \/ loop = "create" /\ buf[Srv] = <<d>>
            \/ d \in Held(got[d[1]])
            \/ d \in strayed \cup closed

Kept == \A p \in Peers : \A n \in 1..sent[p] : Known(<<p, n>>)

IInv == TypeOK /\ Making /\ Watched /\ Sorted /\ Strays /\ Foreign /\ Kept

-----------------------------------------------------------------------------
(* Sequences and what they hold. *)

LEMMA HeldEmpty == Held(<<>>) = {}
BY DEF Held

LEMMA HeldAppend ==
  ASSUME NEW S, NEW q \in Seq(S), NEW x \in S
  PROVE  Append(q, x) \in Seq(S) /\ Held(Append(q, x)) = Held(q) \cup {x}
<1>1. /\ Append(q, x) \in Seq(S) /\ DOMAIN Append(q, x) = 1..(Len(q) + 1)
      /\ DOMAIN q = 1..Len(q) /\ Len(q) \in Nat
      /\ \A i \in 1..Len(q) : Append(q, x)[i] = q[i]
      /\ Append(q, x)[Len(q) + 1] = x
  OBVIOUS
<1>2. \A i \in DOMAIN q : i \in DOMAIN Append(q, x) BY <1>1
<1>3. \A i \in DOMAIN Append(q, x) : i \in DOMAIN q \/ i = Len(q) + 1 BY <1>1
<1>4. Len(q) + 1 \in DOMAIN Append(q, x) BY <1>1
<1> QED BY <1>1, <1>2, <1>3, <1>4 DEF Held

LEMMA HeldHead ==
  ASSUME NEW S, NEW q \in Seq(S), q # <<>>
  PROVE  /\ Head(q) \in S /\ Tail(q) \in Seq(S)
         /\ Held(q) = Held(Tail(q)) \cup {Head(q)}
<1>1. /\ Head(q) \in S /\ Tail(q) \in Seq(S) /\ Head(q) = q[1]
      /\ DOMAIN q = 1..Len(q) /\ Len(q) \in Nat \ {0}
      /\ DOMAIN Tail(q) = 1..(Len(q) - 1)
      /\ \A i \in 1..(Len(q) - 1) : Tail(q)[i] = q[i + 1]
  OBVIOUS
<1>2. \A i \in DOMAIN Tail(q) : i + 1 \in DOMAIN q /\ Tail(q)[i] = q[i + 1]
  BY <1>1
<1>3. \A i \in DOMAIN q : \/ i = 1
                          \/ i - 1 \in DOMAIN Tail(q) /\ Tail(q)[i - 1] = q[i]
  BY <1>1
<1>4. 1 \in DOMAIN q BY <1>1
<1>5. Held(Tail(q)) \cup {Head(q)} \subseteq Held(q)
  BY <1>1, <1>2, <1>4 DEF Held
<1>6. ASSUME NEW x \in Held(q) PROVE x \in Held(Tail(q)) \cup {Head(q)}
  <2>1. PICK i \in DOMAIN q : x = q[i] BY <1>6 DEF Held
  <2>2. CASE i = 1 BY <1>1, <2>1, <2>2
  <2>3. CASE i - 1 \in DOMAIN Tail(q) /\ Tail(q)[i - 1] = q[i]
    BY <2>1, <2>3 DEF Held
  <2> QED BY <1>3, <2>2, <2>3
<1> QED BY <1>1, <1>5, <1>6

LEMMA HeldConcat ==
  ASSUME NEW S, NEW a \in Seq(S), NEW b \in Seq(S)
  PROVE  a \o b \in Seq(S) /\ Held(a \o b) = Held(a) \cup Held(b)
<1>1. /\ a \o b \in Seq(S) /\ DOMAIN a = 1..Len(a) /\ DOMAIN b = 1..Len(b)
      /\ Len(a) \in Nat /\ Len(b) \in Nat
      /\ DOMAIN (a \o b) = 1..(Len(a) + Len(b))
      /\ \A i \in 1..(Len(a) + Len(b)) :
           (a \o b)[i] = IF i <= Len(a) THEN a[i] ELSE b[i - Len(a)]
  OBVIOUS
<1>2. \A i \in DOMAIN a : i \in DOMAIN (a \o b) /\ (a \o b)[i] = a[i] BY <1>1
<1>3. \A i \in DOMAIN b : Len(a) + i \in DOMAIN (a \o b)
                          /\ (a \o b)[Len(a) + i] = b[i]
  BY <1>1
<1>4. \A i \in DOMAIN (a \o b) :
        \/ i \in DOMAIN a /\ (a \o b)[i] = a[i]
        \/ i - Len(a) \in DOMAIN b /\ (a \o b)[i] = b[i - Len(a)]
  BY <1>1
<1>5. Held(a) \cup Held(b) \subseteq Held(a \o b)
  <2>1. Held(a) \subseteq Held(a \o b) BY <1>2 DEF Held
  <2>2. ASSUME NEW x \in Held(b) PROVE x \in Held(a \o b)
    <3>1. PICK i \in DOMAIN b : x = b[i] BY <2>2 DEF Held
    <3> DEFINE j == Len(a) + i
    <3>2. j \in DOMAIN (a \o b) /\ (a \o b)[j] = x BY <1>3, <3>1
    <3> HIDE DEF j
    <3> QED BY <3>2 DEF Held
  <2> QED BY <2>1, <2>2
<1>6. ASSUME NEW x \in Held(a \o b) PROVE x \in Held(a) \cup Held(b)
  <2>1. PICK i \in DOMAIN (a \o b) : x = (a \o b)[i] BY <1>6 DEF Held
  <2>2. CASE i \in DOMAIN a /\ (a \o b)[i] = a[i] BY <2>1, <2>2 DEF Held
  <2>3. CASE i - Len(a) \in DOMAIN b /\ (a \o b)[i] = b[i - Len(a)]
    <3> DEFINE j == i - Len(a)
    <3>1. j \in DOMAIN b /\ x = b[j] BY <2>1, <2>3
    <3> HIDE DEF j
    <3> QED BY <3>1 DEF Held
  <2> QED BY <1>4, <2>2, <2>3
<1> QED BY <1>1, <1>5, <1>6

LEMMA HeldOne == ASSUME NEW d PROVE Held(<<d>>) = {d} /\ <<d>>[Len(<<d>>)] = d
BY DEF Held

LEMMA Typed ==
  ASSUME IInv
  PROVE  /\ \A s \in Socks : queue[s] \in Seq(Datagrams) /\ buf[s] \in Seq(Datagrams)
         /\ \A p \in Peers : got[p] \in Seq(Datagrams) /\ p \in Socks
         /\ queue \in [Socks -> Seq(Datagrams)] /\ buf \in [Socks -> Seq(Datagrams)]
         /\ got \in [Peers -> Seq(Datagrams)] /\ st \in [Peers -> States]
         /\ Srv \in Socks /\ Srv \notin Peers
         /\ \A d \in Datagrams : d[1] \in Peers
BY SocksAssumption DEF IInv, TypeOK, Socks, Datagrams

-----------------------------------------------------------------------------
(* What the property says in these terms. *)

LEMMA InvImpliesAccounted == IInv => Accounted
<1> SUFFICES ASSUME IInv PROVE Accounted OBVIOUS
<1>1. ForeignOnlyIfStrayed
  BY DEF IInv, Foreign, ForeignOnlyIfStrayed, Handed, Held
<1>2. ASSUME NEW p \in Peers, NEW n \in 1..sent[p]
      PROVE  <<p, n>> \in Waiting \cup Handed(p) \cup strayed \cup closed
  <2> DEFINE d == <<p, n>>
  <2>1. Known(d) /\ d[1] = p BY DEF IInv, Kept
  <2>2. CASE \E s \in Socks : d \in Held(queue[s]) BY <2>2 DEF Waiting, Held
  <2>3. CASE loop = "create" /\ buf[Srv] = <<d>>
    <3>1. buf[Srv][Len(buf[Srv])] = d BY <2>3, HeldOne
    <3> QED BY <2>3, <3>1 DEF Waiting
  <2>4. CASE d \in Held(got[d[1]]) BY <2>1, <2>4 DEF Handed, Held
  <2> QED BY <2>1, <2>2, <2>3, <2>4 DEF Known
<1> QED BY <1>1, <1>2 DEF IInv, Accounted, NothingVanishes

\* A step that sends nothing keeps every datagram known that it keeps known.
LEMMA KeptIf ==
  ASSUME IInv, UNCHANGED sent, \A d \in Datagrams : Known(d) => Known(d)'
  PROVE  Kept'
<1>1. ASSUME NEW p \in Peers, NEW n \in 1..sent[p] PROVE <<p, n>> \in Datagrams
  <2>1. sent[p] \in 0..MaxSent BY DEF IInv, TypeOK
  <2>2. n \in 1..MaxSent BY <2>1, BoundsAssumption
  <2> QED BY <2>2 DEF Datagrams
<1> QED BY <1>1 DEF IInv, Kept

-----------------------------------------------------------------------------
(* Peers and the kernel. *)

LEMMA DestIsSocket ==
  ASSUME IInv, NEW p \in Peers
  PROVE  /\ Dest(p) \in Socks
         /\ Dest(p) = Srv => st[p] \notin {"own", "off"}
<1>1. CASE st[p] \in {"own", "off"}
  BY <1>1, Typed DEF Dest
<1>2. CASE st[p] \notin {"own", "off"} /\ p \in flow
  <2>1. loop = "create" BY <1>2 DEF IInv, Making
  <2>2. \E q \in Peers : st[q] = "bound"
    BY <2>1, Typed DEF IInv, Making
  <2>3. (CHOOSE q \in Peers : st[q] = "bound") \in Peers BY <2>2
  <2> QED BY <1>2, <2>3, Typed DEF Dest
<1>3. CASE st[p] \notin {"own", "off"} /\ p \notin flow
  BY <1>3, Typed DEF Dest
<1> QED BY <1>1, <1>2, <1>3

LEMMA ArriveStep ==
  ASSUME IInv, NEW p \in Peers, Arrive(p)
  PROVE  IInv'
<1> DEFINE s == Dest(p)
           d == <<p, sent[p] + 1>>
<1>1. sent[p] \in 0..MaxSent /\ sent[p] < MaxSent
  BY DEF IInv, TypeOK, Arrive
<1>2. sent[p] + 1 \in 1..MaxSent /\ d \in Datagrams /\ d[1] = p
  BY <1>1, BoundsAssumption DEF Datagrams
<1>3. /\ sent' = [sent EXCEPT ![p] = @ + 1] /\ sent'[p] = sent[p] + 1
      /\ queue' = [queue EXCEPT ![s] = Append(@, d)]
      /\ ready' = IF Registered(s) THEN ready \cup {s} ELSE ready
      /\ UNCHANGED <<refused, replies, batch, st, flow, buf, last, loop, cur,
                     got, strayed, closed>>
  BY DEF Arrive, Notify, sessions, history, IInv, TypeOK
<1>4. s \in Socks /\ (s = Srv => st[p] \notin {"own", "off"}) BY DestIsSocket
<1> HIDE DEF s, d
<1>5. queue[s] \in Seq(Datagrams) BY <1>4, Typed
<1>6. Append(queue[s], d) \in Seq(Datagrams)
      /\ Held(Append(queue[s], d)) = Held(queue[s]) \cup {d}
  BY <1>2, <1>5, HeldAppend
<1>7. /\ queue' \in [Socks -> Seq(Datagrams)]
      /\ Held(queue'[s]) = Held(queue[s]) \cup {d}
      /\ \A t \in Socks \ {s} : queue'[t] = queue[t]
  BY <1>3, <1>4, <1>6, Typed
<1>8. sent' \in [Peers -> 0..MaxSent]
      /\ \A q \in Peers \ {p} : sent'[q] = sent[q]
  BY <1>2, <1>3 DEF IInv, TypeOK
<1>9. ready' \subseteq Socks BY <1>3, <1>4 DEF IInv, TypeOK
<1>10. TypeOK' BY <1>3, <1>7, <1>8, <1>9 DEF IInv, TypeOK
<1>11. Making' /\ Strays' /\ Foreign'
  BY <1>3 DEF IInv, Making, Strays, Foreign
<1>12. Watched'
  <2>1. \A q \in ready' \cap Peers : st[q] \in {"bound", "own"}
    BY <1>3, Typed DEF IInv, Watched, Registered
  <2> QED BY <1>3, <2>1 DEF IInv, Watched
<1>13. Sorted'
  <2>1. \A x \in Held(queue'[Srv]) : x \in Held(queue[Srv]) \/ (x = d /\ s = Srv)
    BY <1>7, Typed
  <2>2. s = Srv => /\ st[d[1]] # "off" /\ st[d[1]] # "own"
                   /\ st[d[1]] = "bound" => cur = Srv /\ loop = "create"
    BY <1>2, <1>4 DEF IInv, Making
  <2> QED BY <1>3, <2>1, <2>2 DEF IInv, Sorted
<1>14. Kept'
  <2>1. \A x : Known(x) => Known(x)'
    <3>1. \A t \in Socks : Held(queue[t]) \subseteq Held(queue'[t]) BY <1>7
    <3> QED BY <1>3, <3>1 DEF Known
  <2>2. \A x : x = d => Known(x)' BY <1>4, <1>7 DEF Known
  <2>3. \A q \in Peers : \A n \in 1..sent'[q] :
          n \in 1..sent[q] \/ <<q, n>> = d
    BY <1>1, <1>3, <1>8 DEF d
  <2> QED BY <2>1, <2>2, <2>3 DEF IInv, Kept
<1> QED BY <1>10, <1>11, <1>12, <1>13, <1>14 DEF IInv

\* A step that moves no datagram.
LEMMA Quiet ==
  ASSUME IInv,
         UNCHANGED <<sent, queue, sessions, history>>,
         refused' \subseteq Peers, replies' \in 0..MaxRefused,
         ready' \subseteq Socks, batch' \subseteq Socks,
         cur' \in Socks \cup {None},
         \/ loop # "create" /\ loop' \in {"wait", "events", "read"}
         \/ UNCHANGED <<loop, cur>>,
         loop = "read" /\ cur = Srv =>
           queue[Srv] = <<>> \/ UNCHANGED <<loop, cur>>,
         Watched'
  PROVE  IInv'
<1>1. UNCHANGED <<sent, queue, st, flow, buf, last, got, strayed, closed>>
  BY DEF sessions, history
<1>2. TypeOK' BY <1>1 DEF IInv, TypeOK
<1>3. Making' BY <1>1 DEF IInv, Making
<1>4. Strays' /\ Foreign' BY <1>1 DEF IInv, Strays, Foreign
<1>5. Sorted'
  <2>1. CASE UNCHANGED <<loop, cur>> BY <1>1, <2>1 DEF IInv, Sorted
  <2>2. CASE queue[Srv] = <<>> BY <1>1, <2>2, HeldEmpty DEF Sorted
  <2>3. CASE loop # "create" /\ ~(loop = "read" /\ cur = Srv)
    BY <1>1, <2>3 DEF IInv, Sorted
  <2> QED BY <2>1, <2>2, <2>3
<1>6. \A d : Known(d) => Known(d)' BY <1>1 DEF Known
<1>7. Kept' BY <1>1, <1>6, KeptIf
<1> QED BY <1>2, <1>3, <1>4, <1>5, <1>7 DEF IInv

LEMMA ReplyStep ==
  ASSUME IInv, Reply
  PROVE  IInv'
<1>1. /\ last \in Peers /\ st[last] = "own" /\ replies < MaxRefused
      /\ replies' = replies + 1 /\ refused' = refused \cup {last}
      /\ UNCHANGED <<sent, queue, batch, sessions, loop, cur, history>>
  BY DEF Reply, IInv, TypeOK
<1>2. ready' = ready \cup {last} BY <1>1 DEF Reply, Notify, Registered
<1>3. /\ replies \in 0..MaxRefused /\ refused \subseteq Peers /\ ready \subseteq Socks
      /\ batch \subseteq Socks /\ cur \in Socks \cup {None} /\ last \in Socks
  BY <1>1, Typed DEF IInv, TypeOK
<1>4. replies' \in 0..MaxRefused BY <1>1, <1>3, BoundsAssumption
<1>5. Watched' BY <1>1, <1>2 DEF IInv, Watched, sessions
<1> QED BY <1>1, <1>2, <1>3, <1>4, <1>5, Quiet

LEMMA LoopStep ==
  ASSUME IInv, \/ EpollWait \/ BatchDone
               \/ \E s \in Socks : Dispatch(s) \/ ReadEmpty(s) \/ ReadError(s)
  PROVE  IInv'
<1>1. /\ refused \subseteq Peers /\ replies \in 0..MaxRefused
      /\ ready \subseteq Socks /\ batch \subseteq Socks
      /\ cur \in Socks \cup {None} /\ Srv \notin Peers
  BY Typed DEF IInv, TypeOK
<1>2. CASE EpollWait
  <2>1. /\ loop = "wait" /\ loop' = "events" /\ batch' = ready /\ ready' = {}
        /\ UNCHANGED <<sent, queue, refused, replies, sessions, cur, history>>
    BY <1>2 DEF EpollWait, kernel
  <2>2. Watched' BY <2>1 DEF IInv, Making, Watched, sessions
  <2> QED BY <1>1, <2>1, <2>2, Quiet
<1>3. CASE BatchDone
  <2>1. /\ loop = "events" /\ loop' = "wait" /\ cur' = None
        /\ UNCHANGED <<sent, queue, refused, replies, ready, batch, sessions, history>>
    BY <1>3 DEF BatchDone, kernel, epoll
  <2>2. Watched' BY <2>1 DEF IInv, Watched, sessions
  <2> QED BY <1>1, <2>1, <2>2, Quiet
<1>4. ASSUME NEW s \in Socks, Dispatch(s) PROVE IInv'
  <2>1. /\ loop = "events" /\ loop' = "read" /\ cur' = s /\ s \in batch
        /\ batch' = batch \ {s}
        /\ UNCHANGED <<sent, queue, refused, replies, ready, sessions, history>>
    BY <1>4 DEF Dispatch, kernel
  <2>2. s \in Peers \/ s = Srv BY DEF Socks
  <2>3. Watched' BY <2>1, <2>2 DEF IInv, Watched, sessions
  <2> QED BY <1>1, <2>1, <2>3, Quiet
<1>5. ASSUME NEW s \in Socks, ReadEmpty(s) \/ ReadError(s) PROVE IInv'
  <2>1. /\ loop = "read" /\ cur = s /\ loop' = "events"
        /\ s = Srv => queue[Srv] = <<>>
        /\ refused' \subseteq Peers
        /\ UNCHANGED <<sent, queue, replies, ready, batch, sessions, cur, history>>
    BY <1>1, <1>5 DEF ReadEmpty, ReadError, Reading, kernel, epoll
  <2>2. Watched' BY <2>1 DEF IInv, Watched, sessions
  <2> QED BY <1>1, <2>1, <2>2, Quiet
<1> QED BY <1>2, <1>3, <1>4, <1>5

-----------------------------------------------------------------------------
(* What is read. *)

\* The first datagram of a queue is taken.
LEMMA Taking ==
  ASSUME IInv, NEW s \in Socks, queue[s] # <<>>,
         queue' = [queue EXCEPT ![s] = Tail(@)]
  PROVE  /\ Head(queue[s]) \in Datagrams /\ Head(queue[s])[1] \in Peers
         /\ Head(queue[s]) \in Held(queue[s])
         /\ queue' \in [Socks -> Seq(Datagrams)]
         /\ \A t \in Socks : /\ Held(queue'[t]) \subseteq Held(queue[t])
                             /\ Held(queue[t]) \subseteq
                                  Held(queue'[t]) \cup {Head(queue[s])}
<1>1. queue[s] \in Seq(Datagrams) BY Typed
<1>2. /\ Head(queue[s]) \in Datagrams /\ Tail(queue[s]) \in Seq(Datagrams)
      /\ Held(queue[s]) = Held(Tail(queue[s])) \cup {Head(queue[s])}
  BY <1>1, HeldHead
<1>3. /\ queue' \in [Socks -> Seq(Datagrams)] /\ queue'[s] = Tail(queue[s])
      /\ \A t \in Socks \ {s} : queue'[t] = queue[t]
  BY <1>2, Typed
<1> QED BY <1>2, <1>3, Typed

LEMMA Filling ==
  ASSUME IInv, NEW s \in Socks, Received(s)
  PROVE  /\ Filled(s) \in Seq(Datagrams) /\ Len(Filled(s)) <= Cap
         /\ Held(Filled(s)) = Held(buf[s]) \cup {Head(queue[s])}
         /\ buf[s] = <<>> => Filled(s) = <<Head(queue[s])>>
<1>1. /\ queue[s] \in Seq(Datagrams) /\ buf[s] \in Seq(Datagrams)
      /\ queue[s] # <<>> /\ Len(buf[s]) < Cap
  BY Typed DEF Received
<1>2. Head(queue[s]) \in Datagrams BY <1>1, HeldHead
<1>3. /\ Append(buf[s], Head(queue[s])) \in Seq(Datagrams)
      /\ Held(Append(buf[s], Head(queue[s]))) = Held(buf[s]) \cup {Head(queue[s])}
  BY <1>1, <1>2, HeldAppend
<1>4. Len(Append(buf[s], Head(queue[s]))) = Len(buf[s]) + 1 /\ Len(buf[s]) \in Nat
  BY <1>1
<1>5. Len(Append(buf[s], Head(queue[s]))) <= Cap
  BY <1>1, <1>4, CapAssumption
<1>6. \A x : Append(<<>>, x) = <<x>> OBVIOUS
<1>7. buf[s] = <<>> => Append(buf[s], Head(queue[s])) = <<Head(queue[s])>>
  BY <1>6
<1> QED BY <1>3, <1>5, <1>7 DEF Filled

\* A buffer that is left alone or emptied.
LEMMA StillFits ==
  ASSUME IInv, NEW b, \A s \in Socks : b[s] \in {<<>>, buf[s]}
  PROVE  \A s \in Socks : Len(b[s]) <= Cap
<1>1. Len(<<>>) <= Cap
  <2>1. Len(<<>>) = 0 OBVIOUS
  <2> QED BY <2>1, CapAssumption
<1>2. \A s \in Socks : Len(buf[s]) <= Cap BY DEF IInv, TypeOK
<1> QED BY <1>1, <1>2

LEMMA FullStep ==
  ASSUME IInv, NEW p \in Peers, ReadFull(p)
  PROVE  IInv'
<1>1. /\ loop = "read" /\ cur = p /\ queue[p] # <<>> /\ loop' = "events"
      /\ closed' = closed \cup {Head(queue[p])}
      /\ queue' = [queue EXCEPT ![p] = Tail(@)]
      /\ st' = [st EXCEPT ![p] = "off"] /\ ready' = ready \ {p}
      /\ UNCHANGED <<sent, refused, replies, batch, flow, buf, last, cur, got,
                     strayed>>
  BY DEF ReadFull, Reading
<1>2. p \in Socks /\ p # Srv /\ Srv \in Socks BY Typed
<1>3. /\ Head(queue[p]) \in Datagrams /\ queue' \in [Socks -> Seq(Datagrams)]
      /\ \A t \in Socks : /\ Held(queue'[t]) \subseteq Held(queue[t])
                          /\ Held(queue[t]) \subseteq
                               Held(queue'[t]) \cup {Head(queue[p])}
  BY <1>1, <1>2, Taking
<1>4. /\ st' \in [Peers -> States] /\ st'[p] = "off"
      /\ \A q \in Peers \ {p} : st'[q] = st[q]
  BY <1>1, Typed DEF States
<1>5. TypeOK' BY <1>1, <1>3, <1>4 DEF IInv, TypeOK
<1>6. Making' BY <1>1, <1>4 DEF IInv, Making
<1>7. Watched'
  <2>1. p \notin batch BY <1>1, <1>2 DEF IInv, Watched
  <2> QED BY <1>1, <1>4, <2>1 DEF IInv, Watched
<1>8. Sorted'
  <2>1. \A d \in Held(queue[Srv]) : st[d[1]] \notin {"off", "own", "bound"}
    BY <1>1, <1>2 DEF IInv, Sorted
  <2>2. st[p] = "own" BY <1>1, <1>2 DEF IInv, Watched
  <2>3. \A d \in Held(queue'[Srv]) : d \in Held(queue[Srv]) /\ d[1] \in Peers
    <3>1. \A d \in Held(queue[Srv]) : d \in Datagrams
      BY <1>2, Typed DEF Held
    <3> QED BY <1>2, <1>3, <3>1, Typed
  <2> QED BY <1>4, <2>1, <2>2, <2>3 DEF Sorted
<1>9. Strays' /\ Foreign' BY <1>1 DEF IInv, Strays, Foreign
<1>10. \A d : Known(d) => Known(d)' BY <1>1, <1>3 DEF Known
<1>11. Kept' BY <1>1, <1>10, KeptIf
<1> QED BY <1>5, <1>6, <1>7, <1>8, <1>9, <1>11 DEF IInv

\* The handler of a session takes what the buffer of s holds.
LEMMA Handing ==
  ASSUME IInv, NEW p \in Peers, NEW s \in Socks, Received(s), Hand(p, s),
         st[p] # "off"
  PROVE  /\ got' \in [Peers -> Seq(Datagrams)] /\ buf' \in [Socks -> Seq(Datagrams)]
         /\ Held(got'[p]) = Held(got[p]) \cup Held(buf[s]) \cup {Head(queue[s])}
         /\ \A q \in Peers \ {p} : got'[q] = got[q]
         /\ buf'[s] = <<>> /\ \A t \in Socks \ {s} : buf'[t] = buf[t]
<1>1. /\ got' = [got EXCEPT ![p] = @ \o Filled(s)]
      /\ buf' = [buf EXCEPT ![s] = <<>>]
  BY DEF Hand
<1>2. got[p] \in Seq(Datagrams) /\ Filled(s) \in Seq(Datagrams)
      /\ Held(Filled(s)) = Held(buf[s]) \cup {Head(queue[s])}
  BY Typed, Filling
<1>3. got[p] \o Filled(s) \in Seq(Datagrams)
      /\ Held(got[p] \o Filled(s)) = Held(got[p]) \cup Held(Filled(s))
  BY <1>2, HeldConcat
<1>4. <<>> \in Seq(Datagrams) OBVIOUS
<1> QED BY <1>1, <1>2, <1>3, <1>4, Typed

\* The server's socket hands a datagram to a session, new or not.
LEMMA ServerHands ==
  ASSUME IInv, NEW p \in Peers, Received(Srv), Head(queue[Srv])[1] = p,
         queue' = [queue EXCEPT ![Srv] = Tail(@)],
         st' \in [Peers -> States],
         \A q \in Peers : st'[q] = st[q] \/ (st[q] = "none" /\ st'[q] = "bare"),
         Hand(p, Srv), last' = p,
         UNCHANGED <<sent, refused, replies, epoll, flow, loop, cur, strayed, closed>>
  PROVE  IInv'
<1> DEFINE m == Head(queue[Srv])
<1>1. Srv \in Socks /\ queue[Srv] # <<>> /\ loop = "read" /\ cur = Srv
  BY Typed DEF Received, Reading
<1>2. /\ m \in Datagrams /\ m \in Held(queue[Srv])
      /\ queue' \in [Socks -> Seq(Datagrams)]
      /\ \A t \in Socks : /\ Held(queue'[t]) \subseteq Held(queue[t])
                          /\ Held(queue[t]) \subseteq Held(queue'[t]) \cup {m}
  BY <1>1, Taking
<1>3. st[p] # "off" BY <1>2 DEF IInv, Sorted
<1>4. /\ got' \in [Peers -> Seq(Datagrams)] /\ buf' \in [Socks -> Seq(Datagrams)]
      /\ Held(got'[p]) = Held(got[p]) \cup Held(buf[Srv]) \cup {m}
      /\ \A q \in Peers \ {p} : got'[q] = got[q]
      /\ buf'[Srv] = <<>> /\ \A t \in Socks \ {Srv} : buf'[t] = buf[t]
  BY <1>1, <1>3, Handing
<1>5. buf[Srv] = <<>> /\ Held(buf[Srv]) = {}
  BY <1>1, HeldEmpty DEF IInv, Making
<1> HIDE DEF m
<1>6. TypeOK'
  <2>1. \A s \in Socks : Len(buf'[s]) <= Cap BY <1>4, StillFits
  <2> QED BY <1>2, <1>4, <2>1 DEF IInv, TypeOK, epoll
<1>7. Making'
  <2>1. flow' = {} /\ loop' = "read" /\ \A q \in Peers : st'[q] # "bound"
    BY <1>1 DEF IInv, Making
  <2> QED BY <1>4, <2>1 DEF Making
<1>8. Watched' BY <1>1 DEF IInv, Watched, epoll
<1>9. Sorted'
  <2>1. \A d \in Held(queue'[Srv]) : d \in Held(queue[Srv]) /\ d[1] \in Peers
    <3>1. \A d \in Held(queue[Srv]) : d \in Datagrams
      BY <1>1, Typed DEF Held
    <3> QED BY <1>1, <1>2, <3>1, Typed
  <2> QED BY <1>1, <2>1 DEF IInv, Sorted
<1>10. Strays' BY <1>1, <1>4, Typed DEF IInv, Strays
<1>11. Foreign'
  <2>1. m[1] = p BY DEF m
  <2> QED BY <1>4, <1>5, <2>1 DEF IInv, Foreign
<1>12. \A d \in Datagrams : Known(d) => Known(d)'
  <2>1. m[1] = p /\ \A d \in Datagrams : d[1] \in Peers BY Typed DEF m
  <2>2. \A d \in Datagrams : Held(got[d[1]]) \subseteq Held(got'[d[1]])
    BY <1>4, <2>1
  <2>3. m \in Held(got'[m[1]]) BY <1>4, <2>1
  <2>4. UNCHANGED <<loop, strayed, closed>> OBVIOUS
  <2> QED BY <1>1, <1>2, <2>2, <2>3, <2>4 DEF Known
<1>13. Kept' BY <1>12, KeptIf
<1> QED BY <1>6, <1>7, <1>8, <1>9, <1>10, <1>11, <1>13 DEF IInv

\* A datagram of a new peer, and its socket is bound.
LEMMA BindStep ==
  ASSUME IInv, NEW p \in Peers, Received(Srv), Head(queue[Srv])[1] = p,
         queue' = [queue EXCEPT ![Srv] = Tail(@)],
         st' = [st EXCEPT ![p] = "bound"], flow' \in SUBSET Unconnected,
         buf' = [buf EXCEPT ![Srv] = Filled(Srv)], loop' = "create",
         UNCHANGED <<sent, refused, replies, epoll, cur, got, last, strayed, closed>>,
         st[p] = "none"
  PROVE  IInv'
<1> DEFINE m == Head(queue[Srv])
<1>1. Srv \in Socks /\ queue[Srv] # <<>> /\ loop = "read" /\ cur = Srv
  BY Typed DEF Received, Reading
<1>2. /\ m \in Datagrams /\ m[1] = p
      /\ queue' \in [Socks -> Seq(Datagrams)]
      /\ \A t \in Socks : /\ Held(queue'[t]) \subseteq Held(queue[t])
                          /\ Held(queue[t]) \subseteq Held(queue'[t]) \cup {m}
  BY <1>1, Taking
<1>3. /\ Filled(Srv) \in Seq(Datagrams) /\ Len(Filled(Srv)) <= Cap
      /\ Filled(Srv) = <<m>>
  BY <1>1, Filling DEF IInv, Making
<1> HIDE DEF m
<1>4. /\ buf' \in [Socks -> Seq(Datagrams)] /\ buf'[Srv] = <<m>>
      /\ \A t \in Socks \ {Srv} : buf'[t] = buf[t]
      /\ \A t \in Socks : Len(buf'[t]) <= Cap
  BY <1>1, <1>3 DEF IInv, TypeOK
<1>5. /\ st' \in [Peers -> States] /\ st'[p] = "bound"
      /\ \A q \in Peers \ {p} : st'[q] = st[q]
  BY Typed DEF States
<1>6. flow' \subseteq Peers BY DEF Unconnected
<1>7. TypeOK' BY <1>2, <1>4, <1>5, <1>6 DEF IInv, TypeOK, epoll
<1>8. Making'
  <2>1. \A q \in Peers : st'[q] = "bound" => q = p
    BY <1>1, <1>5 DEF IInv, Making
  <2> QED BY <1>1, <1>2, <1>4, <1>5, <2>1 DEF Making
<1>9. Watched' BY <1>1, <1>5 DEF IInv, Watched, epoll
<1>10. Sorted'
  <2>1. \A d \in Held(queue'[Srv]) : d \in Held(queue[Srv]) /\ d[1] \in Peers
    <3>1. \A d \in Held(queue[Srv]) : d \in Datagrams
      BY <1>1, Typed DEF Held
    <3> QED BY <1>1, <1>2, <3>1, Typed
  <2> QED BY <1>1, <1>5, <2>1 DEF IInv, Sorted
<1>11. Strays' /\ Foreign'
  BY <1>1, <1>4, Typed DEF IInv, Strays, Foreign
<1>12. \A d : Known(d) => Known(d)'
  BY <1>1, <1>2, <1>4 DEF Known
<1>13. Kept' BY <1>12, KeptIf
<1> QED BY <1>7, <1>8, <1>9, <1>10, <1>11, <1>13 DEF IInv

LEMMA ServerStep ==
  ASSUME IInv, NEW p \in Peers, ReadServer(p)
  PROVE  IInv'
<1>1. /\ Received(Srv) /\ Head(queue[Srv])[1] = p
      /\ queue' = [queue EXCEPT ![Srv] = Tail(@)]
      /\ UNCHANGED <<sent, refused, replies, epoll, cur, strayed, closed>>
  BY DEF ReadServer
<1>2. st \in [Peers -> States] BY Typed
<1>3. CASE /\ st[p] = "none" /\ st' = [st EXCEPT ![p] = "bound"]
           /\ flow' \in SUBSET Unconnected
           /\ buf' = [buf EXCEPT ![Srv] = Filled(Srv)] /\ loop' = "create"
           /\ UNCHANGED <<got, last>>
  BY <1>1, <1>3, BindStep
<1>4. CASE /\ st[p] = "none" /\ st' = [st EXCEPT ![p] = "bare"]
           /\ Hand(p, Srv) /\ last' = p /\ UNCHANGED <<flow, loop>>
  <2>1. st' \in [Peers -> States]
        /\ \A q \in Peers : st'[q] = st[q] \/ (st[q] = "none" /\ st'[q] = "bare")
    BY <1>2, <1>4 DEF States
  <2> QED BY <1>1, <1>4, <2>1, ServerHands
<1>5. CASE Hand(p, Srv) /\ last' = p /\ UNCHANGED <<st, flow, loop>>
  BY <1>1, <1>2, <1>5, ServerHands
<1> QED BY <1>3, <1>4, <1>5 DEF ReadServer

LEMMA ConnectStep ==
  ASSUME IInv, Connect
  PROVE  IInv'
<1>1. loop = "create" /\ cur = Srv /\ Srv \in Socks BY Typed DEF IInv, Making, Connect
<1>2. PICK m \in Datagrams :
        /\ buf[Srv] = <<m>> /\ st[m[1]] = "bound"
        /\ \A q \in Peers : st[q] = "bound" => q = m[1]
  BY <1>1 DEF IInv, Making
<1> DEFINE p == m[1]
<1>3. p \in Peers /\ buf[Srv][Len(buf[Srv])] = m BY <1>2, HeldOne, Typed
<1>4. /\ st' = [st EXCEPT ![p] = "own"] /\ flow' = {} /\ last' = p
      /\ got' = [got EXCEPT ![p] = @ \o <<m>>]
      /\ buf' = [buf EXCEPT ![Srv] = <<>>] /\ loop' = "read"
      /\ UNCHANGED <<sent, queue, refused, replies, ready, batch, cur, strayed, closed>>
  BY <1>2, <1>3 DEF Connect, kernel, epoll
<1> HIDE DEF p
<1>5. /\ st' \in [Peers -> States] /\ st'[p] = "own"
      /\ \A q \in Peers \ {p} : st'[q] = st[q]
  BY <1>3, <1>4, Typed DEF States
<1>6. /\ buf' \in [Socks -> Seq(Datagrams)] /\ buf'[Srv] = <<>>
      /\ \A t \in Socks \ {Srv} : buf'[t] = buf[t]
  <2>1. <<>> \in Seq(Datagrams) OBVIOUS
  <2> QED BY <1>1, <1>4, <2>1, Typed
<1>7. /\ got' \in [Peers -> Seq(Datagrams)]
      /\ Held(got'[p]) = Held(got[p]) \cup {m}
      /\ \A q \in Peers \ {p} : got'[q] = got[q]
  <2>1. got[p] \in Seq(Datagrams) /\ <<m>> \in Seq(Datagrams) BY <1>3, Typed
  <2>2. got[p] \o <<m>> \in Seq(Datagrams)
        /\ Held(got[p] \o <<m>>) = Held(got[p]) \cup {m}
    <3>1. Held(<<m>>) = {m} BY HeldOne
    <3>2. got[p] \o <<m>> \in Seq(Datagrams)
          /\ Held(got[p] \o <<m>>) = Held(got[p]) \cup Held(<<m>>)
      BY <2>1, HeldConcat
    <3> QED BY <3>1, <3>2
  <2> QED BY <1>3, <1>4, <2>2, Typed
<1>8. TypeOK'
  <2>1. \A s \in Socks : Len(buf'[s]) <= Cap BY <1>6, StillFits
  <2> QED BY <1>3, <1>4, <1>5, <1>6, <1>7, <2>1 DEF IInv, TypeOK
<1>9. \A q \in Peers : st'[q] # "bound" BY <1>2, <1>5 DEF p
<1>10. Making' BY <1>4, <1>6, <1>9 DEF Making
<1>11. Watched' BY <1>1, <1>4, <1>5 DEF IInv, Watched
<1>12. Sorted'
  <2>1. \A d \in Held(queue[Srv]) : d \in Datagrams /\ d[1] \in Peers
    BY <1>1, Typed DEF Held
  <2> QED BY <1>1, <1>4, <1>5, <2>1 DEF IInv, Sorted
<1>13. Strays' BY <1>4, <1>6, Typed DEF IInv, Strays
<1>14. Foreign' BY <1>4, <1>7 DEF IInv, Foreign, p
<1>15. \A d \in Datagrams : Known(d) => Known(d)'
  <2>1. \A d \in Datagrams : d[1] \in Peers BY Typed
  <2>2. \A d \in Datagrams : buf[Srv] = <<d>> => d = m BY <1>2
  <2>3. \A d \in Datagrams : Held(got[d[1]]) \subseteq Held(got'[d[1]])
    BY <1>7, <2>1
  <2>4. m \in Held(got'[m[1]]) BY <1>7 DEF p
  <2> QED BY <1>4, <2>2, <2>3, <2>4 DEF Known
<1>16. Kept' BY <1>4, <1>15, KeptIf
<1> QED BY <1>8, <1>10, <1>11, <1>12, <1>13, <1>14, <1>16 DEF IInv

LEMMA SessionStep ==
  ASSUME IInv, NEW p \in Peers, ReadSession(p)
  PROVE  IInv'
<1> DEFINE m == Head(queue[p])
<1>1. /\ p \in Socks /\ Srv \in Socks /\ p # Srv
      /\ Received(p) /\ queue[p] # <<>> /\ loop = "read" /\ cur = p
      /\ queue' = [queue EXCEPT ![p] = Tail(@)]
      /\ UNCHANGED <<sent, refused, replies, epoll, st, flow, loop, cur, closed>>
  BY Typed DEF ReadSession, Received, Reading
<1>2. /\ m \in Datagrams /\ queue' \in [Socks -> Seq(Datagrams)]
      /\ \A t \in Socks : /\ Held(queue'[t]) \subseteq Held(queue[t])
                          /\ Held(queue[t]) \subseteq Held(queue'[t]) \cup {m}
  BY <1>1, Taking
<1>3. st[p] = "own" BY <1>1 DEF IInv, Watched
<1>4. \/ /\ m[1] = p /\ Hand(p, p) /\ last' = p /\ UNCHANGED strayed
      \/ /\ buf' = [buf EXCEPT ![p] = Filled(p)]
         /\ strayed' = strayed \cup {m}
         /\ UNCHANGED <<got, last>>
  BY DEF ReadSession
<1> HIDE DEF m
<1>5. Watched' BY <1>1 DEF IInv, Watched, epoll
<1>6. Sorted' BY <1>1, <1>2 DEF IInv, Sorted
<1>7. CASE m[1] = p /\ Hand(p, p) /\ last' = p /\ UNCHANGED strayed
  <2>1. /\ got' \in [Peers -> Seq(Datagrams)] /\ buf' \in [Socks -> Seq(Datagrams)]
        /\ Held(got'[p]) = Held(got[p]) \cup Held(buf[p]) \cup {m}
        /\ \A q \in Peers \ {p} : got'[q] = got[q]
        /\ buf'[p] = <<>> /\ \A t \in Socks \ {p} : buf'[t] = buf[t]
    BY <1>1, <1>3, <1>7, Handing DEF m
  <2>2. TypeOK'
    <3>1. \A s \in Socks : Len(buf'[s]) <= Cap BY <2>1, StillFits
    <3> QED BY <1>1, <1>2, <1>7, <2>1, <3>1 DEF IInv, TypeOK, epoll
  <2>3. Making' BY <1>1, <2>1 DEF IInv, Making
  <2>4. Strays' BY <1>1, <1>7, <2>1, HeldEmpty, Typed DEF IInv, Strays
  <2>5. Foreign'
    <3>1. Held(buf[p]) \subseteq strayed BY DEF IInv, Strays
    <3>2. \A d \in Held(got'[p]) : d[1] = p \/ d \in strayed
      BY <1>7, <2>1, <3>1 DEF IInv, Foreign
    <3> QED BY <1>7, <2>1, <3>2 DEF IInv, Foreign
  <2>6. \A d \in Datagrams : Known(d) => Known(d)'
    <3>1. \A d \in Datagrams : d[1] \in Peers BY Typed
    <3>2. \A d \in Datagrams : Held(got[d[1]]) \subseteq Held(got'[d[1]])
      BY <2>1, <3>1
    <3>3. m \in Held(got'[m[1]]) BY <1>7, <2>1
    <3> QED BY <1>1, <1>2, <1>7, <3>2, <3>3 DEF Known
  <2>7. Kept' BY <1>1, <2>6, KeptIf
  <2> QED BY <1>5, <1>6, <2>2, <2>3, <2>4, <2>5, <2>7 DEF IInv
<1>8. CASE /\ buf' = [buf EXCEPT ![p] = Filled(p)]
           /\ strayed' = strayed \cup {m} /\ UNCHANGED <<got, last>>
  <2>1. /\ Filled(p) \in Seq(Datagrams) /\ Len(Filled(p)) <= Cap
        /\ Held(Filled(p)) = Held(buf[p]) \cup {m}
    BY <1>1, Filling DEF m
  <2>2. /\ buf' \in [Socks -> Seq(Datagrams)] /\ buf'[p] = Filled(p)
        /\ \A t \in Socks \ {p} : buf'[t] = buf[t]
        /\ \A t \in Socks : Len(buf'[t]) <= Cap
    BY <1>1, <1>8, <2>1 DEF IInv, TypeOK
  <2>3. TypeOK' BY <1>1, <1>2, <1>8, <2>2 DEF IInv, TypeOK, epoll
  <2>4. Making' BY <1>1, <2>2 DEF IInv, Making
  <2>5. Strays' BY <1>1, <1>8, <2>1, <2>2, Typed DEF IInv, Strays
  <2>6. Foreign' BY <1>8 DEF IInv, Foreign
  <2>7. \A d \in Datagrams : Known(d) => Known(d)'
    BY <1>1, <1>2, <1>8, <2>2 DEF Known
  <2>8. Kept' BY <1>1, <2>7, KeptIf
  <2> QED BY <1>5, <1>6, <2>3, <2>4, <2>5, <2>6, <2>8 DEF IInv
<1> QED BY <1>4, <1>7, <1>8

LEMMA RemoveStep ==
  ASSUME IInv, NEW p \in Peers, Remove(p)
  PROVE  IInv'
<1>1. /\ loop = "wait" /\ st[p] = "off"
      /\ st' = [st EXCEPT ![p] = "none"]
      /\ closed' = closed \cup {queue[p][i] : i \in DOMAIN queue[p]}
      /\ queue' = [queue EXCEPT ![p] = <<>>]
      /\ refused' = refused \ {p}
      /\ buf' = [buf EXCEPT ![p] = <<>>]
      /\ last' \in {None, last}
      /\ UNCHANGED <<sent, replies, ready, batch, flow, loop, cur, got, strayed>>
  BY DEF Remove, epoll
<1>2. p \in Socks /\ Srv \in Socks /\ p # Srv /\ <<>> \in Seq(Datagrams) BY Typed
<1>3. /\ st' \in [Peers -> States] /\ st'[p] = "none"
      /\ \A q \in Peers \ {p} : st'[q] = st[q]
  BY <1>1, Typed DEF States
<1>4. /\ queue' \in [Socks -> Seq(Datagrams)] /\ queue'[p] = <<>>
      /\ \A t \in Socks \ {p} : queue'[t] = queue[t]
      /\ buf' \in [Socks -> Seq(Datagrams)] /\ buf'[p] = <<>>
      /\ \A t \in Socks \ {p} : buf'[t] = buf[t]
  BY <1>1, <1>2, Typed
<1>5. queue[p] \in Seq(Datagrams) /\ Held(queue[p]) \subseteq Datagrams
  BY <1>2, Typed DEF Held
<1>6. closed' = closed \cup Held(queue[p]) BY <1>1 DEF Held
<1>7. TypeOK'
  <2>1. \A s \in Socks : Len(buf'[s]) <= Cap BY <1>4, StillFits
  <2> QED BY <1>1, <1>3, <1>4, <1>5, <1>6, <2>1 DEF IInv, TypeOK
<1>8. Making' BY <1>1, <1>2, <1>3, <1>4 DEF IInv, Making
<1>9. Watched'
  <2>1. p \notin ready /\ p \notin batch BY <1>1 DEF IInv, Watched
  <2> QED BY <1>1, <1>3, <2>1 DEF IInv, Watched
<1>10. Sorted'
  <2>1. \A d \in Held(queue[Srv]) : d[1] \in Peers
    BY <1>2, Typed DEF Held
  <2> QED BY <1>1, <1>2, <1>3, <1>4, <2>1 DEF IInv, Sorted
<1>11. Strays' BY <1>1, <1>4, HeldEmpty, Typed DEF IInv, Strays
<1>12. Foreign' BY <1>1 DEF IInv, Foreign
<1>13. \A d : Known(d) => Known(d)' BY <1>1, <1>4, <1>6 DEF Known
<1>14. Kept' BY <1>1, <1>13, KeptIf
<1> QED BY <1>7, <1>8, <1>9, <1>10, <1>11, <1>12, <1>14 DEF IInv

-----------------------------------------------------------------------------
(* The theorem. *)

LEMMA InitEstablishesIInv == Init => IInv
<1> SUFFICES ASSUME Init PROVE IInv OBVIOUS
<1>1. Srv \in Socks /\ \A p \in Peers : p \in Socks BY DEF Socks
<1>2. TypeOK
  BY BoundsAssumption, CapAssumption DEF Init, TypeOK, States
<1>3. Making /\ Watched BY <1>1 DEF Init, Making, Watched
<1>4. Sorted /\ Strays /\ Foreign
  BY <1>1, HeldEmpty DEF Init, Sorted, Strays, Foreign
<1>5. Kept BY DEF Init, Kept
<1> QED BY <1>2, <1>3, <1>4, <1>5 DEF IInv

LEMMA NextKeepsIInv == IInv /\ [Next]_vars => IInv'
<1> SUFFICES ASSUME IInv, [Next]_vars PROVE IInv' OBVIOUS
<1>1. CASE UNCHANGED vars
  BY <1>1 DEF vars, IInv, TypeOK, Making, Watched, Sorted, Strays, Foreign,
              Kept, Known
<1>2. ASSUME NEW p \in Peers, Arrive(p) \/ Remove(p) PROVE IInv'
  BY <1>2, ArriveStep, RemoveStep
<1>3. CASE Reply BY <1>3, ReplyStep
<1>4. CASE Loop
  BY <1>4, LoopStep, ConnectStep, ServerStep, SessionStep, FullStep DEF Loop
<1> QED BY <1>1, <1>2, <1>3, <1>4 DEF Next, Idle

\* Every datagram is accounted for: none vanishes in the server, and only one
\* that strayed between bind and connect is handed to another peer's session
\* (UdpServer::onRead, onRead_l, createSession and Socket::onRead).
THEOREM UdpServerAccounts == Spec => []Accounted
BY InvImpliesAccounted, InitEstablishesIInv, NextKeepsIInv, PTL DEF Spec

-----------------------------------------------------------------------------
(* The order of each peer's datagrams.  They stand in one line: what its    *)
(* sessions were handed, the datagram a session is being made for, what the *)
(* server's socket holds, what its own socket holds.                        *)

Mine(q, p) == {d \in Held(q) : d[1] = p}

\* The datagrams of p in q are in the order they were sent.
Rising(q, p) == \A i, j \in DOMAIN q :
  i < j /\ q[i][1] = p /\ q[j][1] = p => q[i][2] < q[j][2]

Below(A, B) == \A d \in A, e \in B : d[2] < e[2]

\* Nothing p sends now comes to a socket of its own.
Aside(p) == st[p] \in {"none", "bare"} \/ (st[p] = "bound" /\ p \notin flow)

Line(p) ==
  /\ Rising(got[p], p) /\ Rising(queue[Srv], p) /\ Rising(queue[p], p)
  /\ Below(Mine(got[p], p),
           Mine(buf[Srv], p) \cup Mine(queue[Srv], p) \cup Mine(queue[p], p))
  /\ Below(Mine(buf[Srv], p), Mine(queue[Srv], p) \cup Mine(queue[p], p))
  /\ Below(Mine(queue[Srv], p), Mine(queue[p], p))
  /\ \A d \in Mine(got[p], p) \cup Mine(buf[Srv], p) \cup Mine(queue[Srv], p)
              \cup Mine(queue[p], p) : d[2] <= sent[p]
  /\ Mine(buf[p], p) = {}
  /\ Aside(p) => Mine(queue[p], p) = {}

OInv == IInv /\ \A p \in Peers : Line(p)

LEMMA RisingEmpty == ASSUME NEW p PROVE Rising(<<>>, p) /\ Mine(<<>>, p) = {}
BY HeldEmpty DEF Rising, Mine

LEMMA RisingOne ==
  ASSUME NEW p, NEW d
  PROVE  /\ Rising(<<d>>, p) /\ Mine(<<d>>, p) = {x \in {d} : x[1] = p}
         /\ d[1] = p => Mine(<<d>>, p) = {d}
<1>1. \A i, j \in DOMAIN <<d>> : ~(i < j) OBVIOUS
<1> QED BY <1>1, HeldOne DEF Rising, Mine

LEMMA RisingTail ==
  ASSUME NEW p, NEW q \in Seq(Datagrams), q # <<>>, Rising(q, p)
  PROVE  /\ Rising(Tail(q), p)
         /\ Mine(q, p) = Mine(Tail(q), p) \cup {x \in {Head(q)} : x[1] = p}
         /\ Head(q)[1] = p => Below({Head(q)}, Mine(Tail(q), p))
<1>1. /\ Head(q) = q[1] /\ DOMAIN q = 1..Len(q) /\ Len(q) \in Nat \ {0}
      /\ DOMAIN Tail(q) = 1..(Len(q) - 1)
      /\ \A i \in 1..(Len(q) - 1) : Tail(q)[i] = q[i + 1]
  OBVIOUS
<1>2. \A i \in DOMAIN Tail(q) : /\ i + 1 \in DOMAIN q /\ Tail(q)[i] = q[i + 1]
                                /\ 1 < i + 1 /\ i \in Nat
  BY <1>1
<1>3. 1 \in DOMAIN q BY <1>1
<1>4. Rising(Tail(q), p)
  <2> SUFFICES ASSUME NEW i \in DOMAIN Tail(q), NEW j \in DOMAIN Tail(q), i < j,
                      Tail(q)[i][1] = p, Tail(q)[j][1] = p
               PROVE  Tail(q)[i][2] < Tail(q)[j][2]
    BY DEF Rising
  <2>1. i + 1 < j + 1 BY <1>2
  <2> QED BY <1>2, <2>1 DEF Rising
<1>5. Held(q) = Held(Tail(q)) \cup {Head(q)} BY HeldHead
<1>6. ASSUME Head(q)[1] = p, NEW d \in Mine(Tail(q), p) PROVE Head(q)[2] < d[2]
  <2>1. PICK i \in DOMAIN Tail(q) : d = Tail(q)[i] BY <1>6 DEF Mine, Held
  <2> DEFINE k == i + 1
  <2>2. k \in DOMAIN q /\ q[k] = d /\ 1 < k BY <1>2, <2>1
  <2>3. d[1] = p /\ q[1] = Head(q) BY <1>1, <1>6 DEF Mine
  <2> HIDE DEF k
  <2> QED BY <1>3, <1>6, <2>2, <2>3 DEF Rising
<1> QED BY <1>4, <1>5, <1>6 DEF Mine, Below

LEMMA RisingConcat ==
  ASSUME NEW p, NEW a \in Seq(Datagrams), NEW b \in Seq(Datagrams),
         Rising(a, p), Rising(b, p), Below(Mine(a, p), Mine(b, p))
  PROVE  Rising(a \o b, p) /\ Mine(a \o b, p) = Mine(a, p) \cup Mine(b, p)
<1>1. /\ DOMAIN a = 1..Len(a) /\ DOMAIN b = 1..Len(b)
      /\ Len(a) \in Nat /\ Len(b) \in Nat
      /\ DOMAIN (a \o b) = 1..(Len(a) + Len(b))
      /\ \A i \in 1..(Len(a) + Len(b)) :
           (a \o b)[i] = IF i <= Len(a) THEN a[i] ELSE b[i - Len(a)]
  OBVIOUS
<1>2. \A i \in DOMAIN (a \o b) : i <= Len(a) => i \in DOMAIN a /\ (a \o b)[i] = a[i]
  BY <1>1
<1>3. \A i \in DOMAIN (a \o b) :
        ~(i <= Len(a)) => i - Len(a) \in DOMAIN b /\ (a \o b)[i] = b[i - Len(a)]
  BY <1>1
<1>4. Mine(a \o b, p) = Mine(a, p) \cup Mine(b, p)
  <2>1. Held(a \o b) = Held(a) \cup Held(b) BY HeldConcat
  <2> QED BY <2>1 DEF Mine
<1>5. ASSUME NEW i \in DOMAIN (a \o b), NEW j \in DOMAIN (a \o b), i < j,
             (a \o b)[i][1] = p, (a \o b)[j][1] = p
      PROVE  (a \o b)[i][2] < (a \o b)[j][2]
  <2>0. i \in Nat /\ j \in Nat BY <1>1
  <2>1. CASE j <= Len(a)
    <3>1. i <= Len(a) BY <1>1, <1>5, <2>0, <2>1
    <3> QED BY <1>2, <1>5, <2>1, <3>1 DEF Rising
  <2>2. CASE ~(i <= Len(a))
    <3>1. ~(j <= Len(a)) BY <1>1, <1>5, <2>0, <2>2
    <3>2. i - Len(a) < j - Len(a) BY <1>1, <1>5, <2>0
    <3> QED BY <1>3, <1>5, <2>2, <3>1, <3>2 DEF Rising
  <2>3. CASE i <= Len(a) /\ ~(j <= Len(a))
    <3> DEFINE k == j - Len(a)
    <3>1. i \in DOMAIN a /\ k \in DOMAIN b /\ (a \o b)[i] = a[i] /\ (a \o b)[j] = b[k]
      BY <1>2, <1>3, <2>3
    <3> HIDE DEF k
    <3>2. a[i] \in Mine(a, p) /\ b[k] \in Mine(b, p) BY <1>5, <3>1 DEF Mine, Held
    <3> QED BY <3>1, <3>2 DEF Below
  <2> QED BY <2>1, <2>2, <2>3
<1> QED BY <1>4, <1>5 DEF Rising

LEMMA RisingAppend ==
  ASSUME NEW p, NEW q \in Seq(Datagrams), NEW d \in Datagrams, Rising(q, p),
         d[1] = p => Below(Mine(q, p), {d})
  PROVE  /\ Rising(Append(q, d), p)
         /\ Mine(Append(q, d), p) = Mine(q, p) \cup {x \in {d} : x[1] = p}
<1> DEFINE b == <<d>>
<1>1. Rising(b, p) /\ Mine(b, p) = {x \in {d} : x[1] = p} BY RisingOne
<1>2. Append(q, d) = q \o b /\ b \in Seq(Datagrams) OBVIOUS
<1> HIDE DEF b
<1>3. Below(Mine(q, p), Mine(b, p)) BY <1>1 DEF Below
<1>4. /\ Rising(q \o b, p)
      /\ Mine(q \o b, p) = Mine(q, p) \cup Mine(b, p)
  BY <1>1, <1>2, <1>3, RisingConcat
<1> QED BY <1>1, <1>2, <1>4

LEMMA Numbered ==
  ASSUME IInv
  PROVE  /\ \A p \in Peers : sent[p] \in Nat
         /\ \A s \in Socks, p \in Peers : \A d \in Mine(queue[s], p) \cup Mine(buf[s], p) :
              d \in Datagrams /\ d[2] \in Nat /\ d[1] = p
         /\ \A p \in Peers : \A d \in Mine(got[p], p) :
              d \in Datagrams /\ d[2] \in Nat /\ d[1] = p
         /\ \A d \in Datagrams : d[2] \in Nat
<1>1. \A p \in Peers : sent[p] \in Nat BY BoundsAssumption DEF IInv, TypeOK
<1>2. \A d \in Datagrams : d[2] \in Nat BY BoundsAssumption DEF Datagrams
<1>3. \A q \in Seq(Datagrams) : \A d \in Held(q) : d \in Datagrams BY DEF Held
<1> QED BY <1>1, <1>2, <1>3, Typed DEF Mine

\* A step that brings p nothing, and keeps the order in the queues it shortens.
LEMMA LineKept ==
  ASSUME OInv, NEW p \in Peers,
         Rising(got'[p], p), Rising(queue'[Srv], p), Rising(queue'[p], p),
         Mine(got'[p], p) \subseteq Mine(got[p], p),
         Mine(queue'[Srv], p) \subseteq Mine(queue[Srv], p),
         Mine(queue'[p], p) \subseteq Mine(queue[p], p),
         Mine(buf'[Srv], p) \subseteq Mine(buf[Srv], p),
         Mine(buf'[p], p) \subseteq Mine(buf[p], p),
         sent'[p] \in Nat, sent[p] <= sent'[p],
         Aside(p)' => Aside(p) \/ Mine(queue'[p], p) = {}
  PROVE  Line(p)'
<1>1. Line(p) /\ IInv BY DEF OInv
<1>2. \A d \in Mine(got[p], p) \cup Mine(buf[Srv], p) \cup Mine(queue[Srv], p)
              \cup Mine(queue[p], p) : d[2] \in Nat
  BY <1>1, Numbered, Typed
<1>3. \A d \in Mine(got[p], p) \cup Mine(buf[Srv], p) \cup Mine(queue[Srv], p)
              \cup Mine(queue[p], p) : d[2] <= sent'[p]
  BY <1>1, <1>2, Numbered DEF Line
<1>4. Mine(buf'[p], p) = {} BY <1>1 DEF Line
<1>5. Aside(p)' => Mine(queue'[p], p) = {} BY <1>1 DEF Line
<1>6. Below(Mine(got'[p], p),
            Mine(buf'[Srv], p) \cup Mine(queue'[Srv], p) \cup Mine(queue'[p], p))
  BY <1>1 DEF Line, Below
<1>7. /\ Below(Mine(buf'[Srv], p), Mine(queue'[Srv], p) \cup Mine(queue'[p], p))
      /\ Below(Mine(queue'[Srv], p), Mine(queue'[p], p))
  BY <1>1 DEF Line, Below
<1> QED BY <1>3, <1>4, <1>5, <1>6, <1>7 DEF Line
LEMMA ArriveOrders ==
  ASSUME OInv, NEW p \in Peers, Arrive(p)
  PROVE  \A q \in Peers : Line(q)'
<1> DEFINE s == Dest(p)
           d == <<p, sent[p] + 1>>
<1>0. IInv /\ \A q \in Peers : Line(q) BY DEF OInv
<1>1. sent[p] \in 0..MaxSent /\ sent[p] < MaxSent BY <1>0 DEF IInv, TypeOK, Arrive
<1>2. d \in Datagrams /\ d[1] = p /\ d[2] = sent[p] + 1
  BY <1>1, BoundsAssumption DEF Datagrams
<1>3. /\ sent' = [sent EXCEPT ![p] = @ + 1] /\ sent'[p] = sent[p] + 1
      /\ \A q \in Peers \ {p} : sent'[q] = sent[q]
      /\ queue' = [queue EXCEPT ![s] = Append(@, d)]
      /\ UNCHANGED <<st, flow, buf, got>>
  BY <1>0 DEF Arrive, Notify, sessions, history, IInv, TypeOK
<1>4. s \in Socks BY <1>0, DestIsSocket
<1>5. /\ s = Srv => Aside(p)
      /\ s = p => ~Aside(p)
  <2>1. Srv \notin Peers /\ p # Srv BY <1>0, Typed
  <2>2. CASE st[p] \in {"own", "off"} BY <2>1, <2>2 DEF Dest, Aside
  <2>3. CASE st[p] \notin {"own", "off"} /\ p \in flow
    <3>1. loop = "create" BY <1>0, <2>3 DEF IInv, Making
    <3>2. PICK q \in Peers : /\ st[q] = "bound"
                             /\ \A r \in Peers : st[r] = "bound" => r = q
      BY <1>0, <3>1, Typed DEF IInv, Making
    <3>3. (CHOOSE r \in Peers : st[r] = "bound") = q BY <3>2
    <3> QED BY <2>1, <2>3, <3>2, <3>3 DEF Dest, Aside
  <2>4. CASE st[p] \notin {"own", "off"} /\ p \notin flow
    <3>1. st[p] \in {"none", "bare", "bound"} BY <1>0, <2>4, Typed DEF States
    <3> QED BY <2>1, <2>4, <3>1 DEF Dest, Aside
  <2> QED BY <2>2, <2>3, <2>4
<1> HIDE DEF s, d
<1>6. queue[s] \in Seq(Datagrams) /\ queue'[s] = Append(queue[s], d)
      /\ \A t \in Socks \ {s} : queue'[t] = queue[t]
  BY <1>0, <1>3, <1>4, Typed
<1>7. Srv \in Socks /\ Srv \notin Peers /\ \A q \in Peers : q \in Socks BY <1>0, Typed
<1>8. ASSUME NEW q \in Peers, q # p PROVE Line(q)'
  <2>1. ASSUME NEW t \in {Srv, q}
        PROVE  Rising(queue'[t], q) /\ Mine(queue'[t], q) \subseteq Mine(queue[t], q)
    <3>1. Rising(queue[t], q) BY <1>0 DEF Line
    <3>2. CASE t = s
      <4>1. d[1] # q BY <1>2, <1>8
      <4>2. /\ Rising(Append(queue[s], d), q)
            /\ Mine(Append(queue[s], d), q)
                 = Mine(queue[s], q) \cup {x \in {d} : x[1] = q}
        BY <1>2, <1>6, <3>1, <3>2, <4>1, RisingAppend
      <4> QED BY <1>6, <3>2, <4>1, <4>2
    <3> QED BY <1>6, <1>7, <3>1, <3>2
  <2>2. Rising(got'[q], q) /\ sent'[q] \in Nat /\ sent[q] <= sent'[q]
    <3>1. sent'[q] = sent[q] /\ sent[q] \in Nat BY <1>0, <1>3, <1>8, Numbered
    <3>2. Rising(got'[q], q) BY <1>0, <1>3 DEF Line
    <3> QED BY <3>1, <3>2
  <2> QED BY <1>3, <2>1, <2>2, LineKept DEF Aside
<1>9. Line(p)'
  <2>1. \A x \in Mine(got[p], p) \cup Mine(buf[Srv], p) \cup Mine(queue[Srv], p)
              \cup Mine(queue[p], p) : x[2] \in Nat /\ x[2] <= sent[p]
    BY <1>0, <1>7, Numbered DEF Line
  <2>2. \A x \in Mine(got[p], p) \cup Mine(buf[Srv], p) \cup Mine(queue[Srv], p)
              \cup Mine(queue[p], p) : x[2] < d[2] /\ x[2] <= sent'[p]
    BY <1>1, <1>2, <1>3, <2>1
  <2>3. d[2] <= sent'[p] BY <1>1, <1>2, <1>3
  <2>4. s \in {Srv, p} =>
          /\ Rising(queue'[s], p) /\ Mine(queue'[s], p) = Mine(queue[s], p) \cup {d}
    <3>1. SUFFICES ASSUME s \in {Srv, p}
                   PROVE /\ Rising(queue'[s], p)
                         /\ Mine(queue'[s], p) = Mine(queue[s], p) \cup {d}
      OBVIOUS
    <3>2. Rising(queue[s], p) /\ Below(Mine(queue[s], p), {d})
      BY <1>0, <2>2, <3>1 DEF Line, Below
    <3>3. /\ Rising(Append(queue[s], d), p)
          /\ Mine(Append(queue[s], d), p) = Mine(queue[s], p) \cup {x \in {d} : x[1] = p}
      BY <1>2, <1>6, <3>2, RisingAppend
    <3> QED BY <1>2, <1>6, <3>3
  <2>5. CASE s = Srv
    <3>1. Mine(queue[p], p) = {} /\ queue'[p] = queue[p] /\ Aside(p)
      BY <1>0, <1>5, <1>6, <1>7, <2>5 DEF Line
    <3>2. /\ Rising(queue'[Srv], p) /\ Mine(queue'[Srv], p) = Mine(queue[Srv], p) \cup {d}
      BY <2>4, <2>5
    <3>3. /\ Below(Mine(got[p], p),
                   Mine(buf[Srv], p) \cup Mine(queue'[Srv], p) \cup Mine(queue'[p], p))
          /\ Below(Mine(buf[Srv], p), Mine(queue'[Srv], p) \cup Mine(queue'[p], p))
          /\ Below(Mine(queue'[Srv], p), Mine(queue'[p], p))
      BY <1>0, <2>2, <3>1, <3>2 DEF Line, Below
    <3>4. \A x \in Mine(got[p], p) \cup Mine(buf[Srv], p) \cup Mine(queue'[Srv], p)
                   \cup Mine(queue'[p], p) : x[2] <= sent'[p]
      BY <2>2, <2>3, <3>1, <3>2
    <3> QED BY <1>0, <1>3, <3>1, <3>2, <3>3, <3>4 DEF Line
  <2>6. CASE s = p
    <3>1. queue'[Srv] = queue[Srv] /\ ~Aside(p)
      BY <1>5, <1>6, <1>7, <2>6
    <3>2. /\ Rising(queue'[p], p) /\ Mine(queue'[p], p) = Mine(queue[p], p) \cup {d}
      BY <2>4, <2>6
    <3>3. /\ Below(Mine(got[p], p),
                   Mine(buf[Srv], p) \cup Mine(queue[Srv], p) \cup Mine(queue'[p], p))
          /\ Below(Mine(buf[Srv], p), Mine(queue[Srv], p) \cup Mine(queue'[p], p))
          /\ Below(Mine(queue[Srv], p), Mine(queue'[p], p))
      BY <1>0, <2>2, <3>2 DEF Line, Below
    <3>4. \A x \in Mine(got[p], p) \cup Mine(buf[Srv], p) \cup Mine(queue[Srv], p)
                   \cup Mine(queue'[p], p) : x[2] <= sent'[p]
      BY <2>2, <2>3, <3>2
    <3>5. ~Aside(p)' BY <1>3, <3>1 DEF Aside
    <3> QED BY <1>0, <1>3, <3>1, <3>2, <3>3, <3>4, <3>5 DEF Line
  <2>7. CASE s \notin {Srv, p}
    <3>1. queue'[Srv] = queue[Srv] /\ queue'[p] = queue[p] BY <1>6, <1>7, <2>7
    <3>2. sent'[p] \in Nat /\ sent[p] <= sent'[p] BY <1>1, <1>3
    <3>3. Rising(got[p], p) /\ Rising(queue[Srv], p) /\ Rising(queue[p], p)
      BY <1>0 DEF Line
    <3> QED BY <1>3, <3>1, <3>2, <3>3, LineKept DEF Aside
  <2> QED BY <2>5, <2>6, <2>7
<1> QED BY <1>8, <1>9

\* A step that takes from the queues nothing but heads or everything, hands out
\* nothing and empties no more than the server's buffer.
LEMMA QuietOrders ==
  ASSUME OInv, UNCHANGED <<sent, got>>,
         \A s \in Socks : /\ queue'[s] \in {queue[s], <<>>} \/
                              (queue[s] # <<>> /\ queue'[s] = Tail(queue[s]))
                          /\ buf'[s] \in {buf[s], <<>>},
         \A p \in Peers : Aside(p)' => Aside(p) \/ queue'[p] = <<>>
  PROVE  \A p \in Peers : Line(p)'
<1> SUFFICES ASSUME NEW p \in Peers PROVE Line(p)' OBVIOUS
<1>0. IInv /\ Line(p) BY DEF OInv
<1>1. Srv \in Socks /\ p \in Socks /\ \A s \in Socks : queue[s] \in Seq(Datagrams)
  BY <1>0, Typed
<1>2. ASSUME NEW s \in {Srv, p}
      PROVE  Rising(queue'[s], p) /\ Mine(queue'[s], p) \subseteq Mine(queue[s], p)
  <2>1. Rising(queue[s], p) /\ s \in Socks /\ queue[s] \in Seq(Datagrams)
    BY <1>0, <1>1 DEF Line
  <2>2. CASE queue'[s] = queue[s] BY <2>1, <2>2
  <2>3. CASE queue'[s] = <<>> BY <2>3, RisingEmpty
  <2>4. CASE queue[s] # <<>> /\ queue'[s] = Tail(queue[s])
    <3>1. Rising(Tail(queue[s]), p)
          /\ Mine(queue[s], p) = Mine(Tail(queue[s]), p) \cup {x \in {Head(queue[s])} : x[1] = p}
      BY <2>1, <2>4, RisingTail
    <3> QED BY <2>4, <3>1
  <2> QED BY <2>1, <2>2, <2>3, <2>4
<1>3. ASSUME NEW s \in {Srv, p} PROVE Mine(buf'[s], p) \subseteq Mine(buf[s], p)
  BY <1>1, RisingEmpty
<1>4. Rising(got'[p], p) /\ sent'[p] \in Nat /\ sent[p] <= sent'[p]
  BY <1>0, Numbered DEF Line
<1>5. Aside(p)' => Aside(p) \/ Mine(queue'[p], p) = {} BY RisingEmpty
<1> QED BY <1>2, <1>3, <1>4, <1>5, LineKept
\* The handler takes what the server's socket or the one being made brought:
\* b holds d alone, the first of those of p that wait.
LEMMA HandOrders ==
  ASSUME OInv, NEW p \in Peers, NEW b \in Seq(Datagrams), NEW d \in Datagrams,
         d[1] = p, Mine(b, p) = {d}, Rising(b, p),
         Below(Mine(got[p], p), {d}), d[2] <= sent[p],
         got' = [got EXCEPT ![p] = @ \o b], UNCHANGED sent,
         \A q \in Peers : \A s \in {Srv, q} :
           /\ Rising(queue'[s], q) /\ Mine(queue'[s], q) \subseteq Mine(queue[s], q)
           /\ Mine(buf'[s], q) \subseteq Mine(buf[s], q),
         Mine(buf'[Srv], p) = {},
         Below({d}, Mine(queue'[Srv], p) \cup Mine(queue'[p], p)),
         \A q \in Peers : Aside(q)' => Aside(q)
  PROVE  \A q \in Peers : Line(q)'
<1>0. IInv /\ \A q \in Peers : Line(q) BY DEF OInv
<1>1. /\ got[p] \in Seq(Datagrams) /\ got'[p] = got[p] \o b
      /\ \A q \in Peers \ {p} : got'[q] = got[q]
  BY <1>0, Typed
<1>2. ASSUME NEW q \in Peers, q # p PROVE Line(q)'
  <2>1. sent[q] \in Nat /\ sent'[q] = sent[q] BY <1>0, Numbered
  <2>2. Rising(got'[q], q) /\ got'[q] = got[q] BY <1>0, <1>1, <1>2 DEF Line
  <2>3. sent'[q] \in Nat /\ sent[q] <= sent'[q] BY <2>1
  <2> QED BY <2>2, <2>3, LineKept
<1>3. Line(p)'
  <2>1. Rising(got[p], p) /\ Below(Mine(got[p], p), Mine(b, p)) BY <1>0 DEF Line
  <2>2. Rising(got[p] \o b, p) /\ Mine(got[p] \o b, p) = Mine(got[p], p) \cup Mine(b, p)
    BY <1>1, <2>1, RisingConcat
  <2>3. Rising(got'[p], p) /\ Mine(got'[p], p) = Mine(got[p], p) \cup {d}
    BY <1>1, <2>2
  <2>4. /\ Below(Mine(got[p], p), Mine(queue'[Srv], p) \cup Mine(queue'[p], p))
        /\ Below(Mine(queue'[Srv], p), Mine(queue'[p], p))
    BY <1>0 DEF Line, Below
  <2>5. Below(Mine(got'[p], p),
              Mine(buf'[Srv], p) \cup Mine(queue'[Srv], p) \cup Mine(queue'[p], p))
    BY <2>3, <2>4 DEF Below
  <2>6. Below(Mine(buf'[Srv], p), Mine(queue'[Srv], p) \cup Mine(queue'[p], p))
    BY DEF Below
  <2>7. \A x \in Mine(got'[p], p) \cup Mine(buf'[Srv], p) \cup Mine(queue'[Srv], p)
                 \cup Mine(queue'[p], p) : x[2] <= sent'[p]
    BY <1>0, <2>3 DEF Line
  <2>8. Mine(buf'[p], p) = {} BY <1>0 DEF Line
  <2>9. Aside(p)' => Mine(queue'[p], p) = {} BY <1>0 DEF Line
  <2> QED BY <2>3, <2>4, <2>5, <2>6, <2>7, <2>8, <2>9 DEF Line
<1> QED BY <1>2, <1>3

\* What is left when the first datagram of a queue is taken.
LEMMA TakenOrders ==
  ASSUME OInv, NEW s \in Socks, queue[s] # <<>>,
         queue' = [queue EXCEPT ![s] = Tail(@)]
  PROVE  /\ \A q \in Peers : \A t \in {Srv, q} :
              Rising(queue'[t], q) /\ Mine(queue'[t], q) \subseteq Mine(queue[t], q)
         /\ \A q \in Peers :
              Head(queue[s])[1] = q /\ s \in {Srv, q} =>
                /\ Head(queue[s]) \in Mine(queue[s], q)
                /\ Below({Head(queue[s])}, Mine(queue'[s], q))
<1>0. IInv /\ \A q \in Peers : Line(q) BY DEF OInv
<1>1. /\ queue[s] \in Seq(Datagrams) /\ queue'[s] = Tail(queue[s])
      /\ \A t \in Socks \ {s} : queue'[t] = queue[t]
      /\ Srv \in Socks /\ \A q \in Peers : q \in Socks
  BY <1>0, Typed
<1>2. ASSUME NEW q \in Peers, NEW t \in {Srv, q}
      PROVE  /\ Rising(queue'[t], q) /\ Mine(queue'[t], q) \subseteq Mine(queue[t], q)
             /\ Head(queue[s])[1] = q /\ s = t =>
                  /\ Head(queue[s]) \in Mine(queue[s], q)
                  /\ Below({Head(queue[s])}, Mine(queue'[s], q))
  <2>1. Rising(queue[t], q) /\ t \in Socks BY <1>0, <1>1 DEF Line
  <2>2. CASE t # s BY <1>1, <2>1, <2>2
  <2>3. CASE t = s
    <3>1. /\ Rising(Tail(queue[s]), q)
          /\ Mine(queue[s], q)
               = Mine(Tail(queue[s]), q) \cup {x \in {Head(queue[s])} : x[1] = q}
          /\ Head(queue[s])[1] = q => Below({Head(queue[s])}, Mine(Tail(queue[s]), q))
      BY <1>1, <2>1, <2>3, RisingTail
    <3> QED BY <1>1, <2>3, <3>1
  <2> QED BY <2>2, <2>3
<1> QED BY <1>2

LEMMA ServerHandOrders ==
  ASSUME OInv, NEW p \in Peers, Received(Srv), Head(queue[Srv])[1] = p,
         queue' = [queue EXCEPT ![Srv] = Tail(@)],
         \A q \in Peers : st'[q] = st[q] \/ (st[q] = "none" /\ st'[q] = "bare"),
         Hand(p, Srv), UNCHANGED <<sent, flow>>
  PROVE  \A q \in Peers : Line(q)'
<1> DEFINE m == Head(queue[Srv])
<1>0. IInv /\ \A q \in Peers : Line(q) BY DEF OInv
<1>1. Srv \in Socks /\ queue[Srv] # <<>> /\ loop = "read" /\ cur = Srv
  BY <1>0, Typed DEF Received, Reading
<1>2. m \in Datagrams /\ m \in Held(queue[Srv]) BY <1>0, <1>1, Taking
<1>3. st[p] # "off" BY <1>0, <1>2 DEF IInv, Sorted
<1>4. buf[Srv] = <<>> BY <1>0, <1>1 DEF IInv, Making
<1>5. Filled(Srv) = <<m>> BY <1>0, <1>1, <1>4, Filling
<1>6. /\ got' = [got EXCEPT ![p] = @ \o <<m>>]
      /\ buf' = [buf EXCEPT ![Srv] = <<>>]
  BY <1>3, <1>5 DEF Hand
<1>7. /\ m \in Mine(queue[Srv], p) /\ Below({m}, Mine(queue'[Srv], p))
      /\ \A q \in Peers : \A t \in {Srv, q} :
           Rising(queue'[t], q) /\ Mine(queue'[t], q) \subseteq Mine(queue[t], q)
  BY <1>1, TakenOrders
<1> HIDE DEF m
<1>8. <<m>> \in Seq(Datagrams) /\ Rising(<<m>>, p) /\ Mine(<<m>>, p) = {m}
  <2>1. m[1] = p BY DEF m
  <2>2. Rising(<<m>>, p) /\ Mine(<<m>>, p) = {m} BY <2>1, RisingOne
  <2> QED BY <1>2, <2>2
<1>9. Below(Mine(got[p], p), {m}) /\ m[2] <= sent[p] /\ m[1] = p
  BY <1>0, <1>7 DEF Line, Below, m
<1>10. Below({m}, Mine(queue'[Srv], p) \cup Mine(queue'[p], p))
  BY <1>0, <1>7 DEF Line, Below
<1>11. \A q \in Peers : \A s \in {Srv, q} : Mine(buf'[s], q) \subseteq Mine(buf[s], q)
  <2>1. buf'[Srv] = <<>> /\ \A s \in Socks : buf'[s] \in {buf[s], <<>>}
    BY <1>0, <1>6, Typed
  <2> QED BY <1>0, <2>1, RisingEmpty, Typed
<1>12. Mine(buf'[Srv], p) = {} BY <1>0, <1>6, RisingEmpty, Typed
<1>13. \A q \in Peers : Aside(q)' => Aside(q) BY DEF Aside
<1> QED BY <1>2, <1>6, <1>7, <1>8, <1>9, <1>10, <1>11, <1>12, <1>13, HandOrders
LEMMA BindOrders ==
  ASSUME OInv, NEW p \in Peers, Received(Srv), Head(queue[Srv])[1] = p,
         queue' = [queue EXCEPT ![Srv] = Tail(@)],
         st' = [st EXCEPT ![p] = "bound"],
         buf' = [buf EXCEPT ![Srv] = Filled(Srv)],
         UNCHANGED <<sent, got>>, st[p] = "none", flow = {}
  PROVE  \A q \in Peers : Line(q)'
<1> DEFINE m == Head(queue[Srv])
<1>0. IInv /\ \A q \in Peers : Line(q) BY DEF OInv
<1>1. Srv \in Socks /\ Srv \notin Peers /\ queue[Srv] # <<>> /\ loop = "read" /\ cur = Srv
  BY <1>0, Typed DEF Received, Reading
<1>2. m \in Datagrams /\ m[1] = p BY <1>0, <1>1, Taking
<1>3. buf[Srv] = <<>> BY <1>0, <1>1 DEF IInv, Making
<1>4. Filled(Srv) = <<m>> BY <1>0, <1>1, <1>3, Filling
<1>5. /\ m \in Mine(queue[Srv], p) /\ Below({m}, Mine(queue'[Srv], p))
      /\ \A q \in Peers : \A t \in {Srv, q} :
           Rising(queue'[t], q) /\ Mine(queue'[t], q) \subseteq Mine(queue[t], q)
  BY <1>1, <1>2, TakenOrders
<1>6. /\ buf'[Srv] = <<m>> /\ \A q \in Peers : buf'[q] = buf[q]
  BY <1>0, <1>1, <1>4, Typed
<1>7. \A q \in Peers \ {p} : st'[q] = st[q] BY <1>0, Typed
<1> HIDE DEF m
<1>8. Mine(<<m>>, p) = {m} BY <1>2, RisingOne
<1>9. ASSUME NEW q \in Peers, q # p PROVE Line(q)'
  <2>1. sent[q] \in Nat /\ sent'[q] = sent[q] BY <1>0, Numbered
  <2>2. Rising(got'[q], q) /\ got'[q] = got[q] BY <1>0 DEF Line
  <2>3. sent'[q] \in Nat /\ sent[q] <= sent'[q] BY <2>1
  <2>4. Mine(buf'[Srv], q) = {}
    <3>1. Held(<<m>>) = {m} /\ m[1] # q BY <1>2, <1>9, HeldOne
    <3> QED BY <1>6, <3>1 DEF Mine
  <2>5. Aside(q)' => Aside(q) BY <1>7, <1>9 DEF Aside
  <2> QED BY <1>5, <1>6, <2>2, <2>3, <2>4, <2>5, LineKept
<1>10. Line(p)'
  <2>1. Rising(got'[p], p) /\ Rising(queue'[Srv], p) /\ Rising(queue'[p], p)
        /\ got'[p] = got[p] /\ sent' = sent
    BY <1>0, <1>5 DEF Line
  <2>2. Mine(buf'[Srv], p) = {m} BY <1>6, <1>8
  <2>3. Mine(queue[p], p) = {} BY <1>0 DEF Line, Aside
  <2>4. Mine(queue'[p], p) = {} BY <1>5, <2>3
  <2>5. Below(Mine(got'[p], p),
              Mine(buf'[Srv], p) \cup Mine(queue'[Srv], p) \cup Mine(queue'[p], p))
    BY <1>0, <1>5, <2>1, <2>2 DEF Line, Below
  <2>6. Below(Mine(buf'[Srv], p), Mine(queue'[Srv], p) \cup Mine(queue'[p], p))
    BY <1>5, <2>2, <2>4
  <2>7. Below(Mine(queue'[Srv], p), Mine(queue'[p], p)) BY <2>4 DEF Below
  <2>8. \A x \in Mine(got'[p], p) \cup Mine(buf'[Srv], p) \cup Mine(queue'[Srv], p)
                 \cup Mine(queue'[p], p) : x[2] <= sent'[p]
    BY <1>0, <1>5, <2>1, <2>2 DEF Line
  <2>9. Mine(buf'[p], p) = {} BY <1>0, <1>6 DEF Line
  <2> QED BY <2>1, <2>4, <2>5, <2>6, <2>7, <2>8, <2>9 DEF Line
<1> QED BY <1>9, <1>10

LEMMA ServerOrders ==
  ASSUME OInv, NEW p \in Peers, ReadServer(p)
  PROVE  \A q \in Peers : Line(q)'
<1>1. /\ Received(Srv) /\ Head(queue[Srv])[1] = p
      /\ queue' = [queue EXCEPT ![Srv] = Tail(@)] /\ UNCHANGED sent
  BY DEF ReadServer
<1>2. st \in [Peers -> States] /\ IInv BY Typed DEF OInv
<1>3. CASE /\ st[p] = "none" /\ st' = [st EXCEPT ![p] = "bound"]
           /\ buf' = [buf EXCEPT ![Srv] = Filled(Srv)] /\ UNCHANGED got
  <2>1. flow = {} BY <1>1, <1>2 DEF IInv, Making, Received, Reading
  <2> QED BY <1>1, <1>3, <2>1, BindOrders
<1>4. CASE /\ st[p] = "none" /\ st' = [st EXCEPT ![p] = "bare"]
           /\ Hand(p, Srv) /\ UNCHANGED flow
  <2>1. \A q \in Peers : st'[q] = st[q] \/ (st[q] = "none" /\ st'[q] = "bare")
    BY <1>2, <1>4
  <2> QED BY <1>1, <1>4, <2>1, ServerHandOrders
<1>5. CASE Hand(p, Srv) /\ UNCHANGED <<st, flow>>
  BY <1>1, <1>5, ServerHandOrders
<1> QED BY <1>3, <1>4, <1>5 DEF ReadServer

LEMMA ConnectOrders ==
  ASSUME OInv, Connect
  PROVE  \A q \in Peers : Line(q)'
<1>0. IInv /\ \A q \in Peers : Line(q) BY DEF OInv
<1>1. PICK m \in Datagrams :
        /\ buf[Srv] = <<m>> /\ st[m[1]] = "bound"
        /\ \A q \in Peers : st[q] = "bound" => q = m[1]
  BY <1>0 DEF IInv, Making, Connect
<1> DEFINE p == m[1]
<1>2. p \in Peers /\ buf[Srv][Len(buf[Srv])] = m BY <1>0, <1>1, HeldOne, Typed
<1>3. /\ st' = [st EXCEPT ![p] = "own"]
      /\ got' = [got EXCEPT ![p] = @ \o <<m>>]
      /\ buf' = [buf EXCEPT ![Srv] = <<>>]
      /\ UNCHANGED <<sent, queue>>
  BY <1>1, <1>2 DEF Connect, kernel
<1> HIDE DEF p
<1>4. Rising(<<m>>, p) /\ Mine(<<m>>, p) = {m} /\ <<m>> \in Seq(Datagrams) /\ m[1] = p
  BY RisingOne DEF p
<1>5. Mine(buf[Srv], p) = {m} BY <1>1, <1>4
<1>6. /\ Below(Mine(got[p], p), {m}) /\ m[2] <= sent[p]
      /\ Below({m}, Mine(queue[Srv], p) \cup Mine(queue[p], p))
  BY <1>0, <1>2, <1>5 DEF Line, Below
<1>7. \A s \in Socks : buf'[s] \in {buf[s], <<>>} BY <1>0, <1>3, Typed
<1>8. \A q \in Peers : \A s \in {Srv, q} :
        /\ Rising(queue'[s], q) /\ Mine(queue'[s], q) \subseteq Mine(queue[s], q)
        /\ Mine(buf'[s], q) \subseteq Mine(buf[s], q)
  BY <1>0, <1>3, <1>7, RisingEmpty, Typed DEF Line
<1>9. Mine(buf'[Srv], p) = {} BY <1>0, <1>3, RisingEmpty, Typed
<1>10. \A q \in Peers : Aside(q)' => Aside(q)
  <2>1. st'[p] = "own" /\ \A q \in Peers \ {p} : st'[q] = st[q] /\ st[q] # "bound"
    BY <1>0, <1>1, <1>2, <1>3, Typed DEF p
  <2> QED BY <2>1 DEF Aside
<1> QED BY <1>2, <1>3, <1>4, <1>6, <1>8, <1>9, <1>10, HandOrders

LEMMA SessionOrders ==
  ASSUME OInv, NEW p \in Peers, ReadSession(p)
  PROVE  \A q \in Peers : Line(q)'
<1> DEFINE m == Head(queue[p])
<1>0. IInv /\ \A q \in Peers : Line(q) BY DEF OInv
<1>1. /\ p \in Socks /\ Srv \in Socks /\ p # Srv
      /\ Received(p) /\ queue[p] # <<>> /\ loop = "read" /\ cur = p
      /\ queue' = [queue EXCEPT ![p] = Tail(@)]
      /\ UNCHANGED <<sent, st, flow>>
  BY <1>0, Typed DEF ReadSession, Received, Reading
<1>2. m \in Datagrams BY <1>0, <1>1, Taking
<1>3. st[p] = "own" BY <1>0, <1>1 DEF IInv, Watched
<1>4. /\ \A q \in Peers : \A t \in {Srv, q} :
           Rising(queue'[t], q) /\ Mine(queue'[t], q) \subseteq Mine(queue[t], q)
      /\ m[1] = p => m \in Mine(queue[p], p) /\ Below({m}, Mine(queue'[p], p))
  BY <1>1, TakenOrders
<1>5. \/ m[1] = p /\ Hand(p, p)
      \/ m[1] # p /\ buf' = [buf EXCEPT ![p] = Filled(p)] /\ UNCHANGED got
  BY DEF ReadSession
<1>6. Filled(p) = Append(buf[p], m) /\ buf[p] \in Seq(Datagrams)
  BY <1>0, <1>1, Typed DEF Filled
<1>7. Aside(p)' => Aside(p) BY <1>1 DEF Aside
<1> HIDE DEF m
<1>8. Mine(queue[Srv], p) = {}
  <2>1. \A d \in Held(queue[Srv]) : d[1] # p BY <1>0, <1>1, <1>3 DEF IInv, Sorted
  <2> QED BY <2>1 DEF Mine
<1>9. CASE m[1] = p /\ Hand(p, p)
  <2>1. /\ got' = [got EXCEPT ![p] = @ \o Filled(p)]
        /\ buf' = [buf EXCEPT ![p] = <<>>]
    BY <1>3, <1>9 DEF Hand
  <2>2. Mine(buf[p], p) = {} BY <1>0 DEF Line
  <2>3. Rising(buf[p], p)
    <3>1. \A i \in DOMAIN buf[p] : buf[p][i][1] # p BY <2>2 DEF Mine, Held
    <3> QED BY <3>1 DEF Rising
  <2>4. Below(Mine(buf[p], p), {m}) BY <2>2 DEF Below
  <2>5. /\ Rising(Append(buf[p], m), p)
        /\ Mine(Append(buf[p], m), p) = Mine(buf[p], p) \cup {x \in {m} : x[1] = p}
    BY <1>2, <1>6, <2>3, <2>4, RisingAppend
  <2>6. Rising(Filled(p), p) /\ Mine(Filled(p), p) = {m} /\ Filled(p) \in Seq(Datagrams)
    BY <1>2, <1>6, <1>9, <2>2, <2>5
  <2>7. Below(Mine(got[p], p), {m}) /\ m[2] <= sent[p]
    BY <1>0, <1>4, <1>9 DEF Line, Below
  <2>8. Mine(queue'[Srv], p) = {} BY <1>4, <1>8
  <2>9. Below({m}, Mine(queue'[Srv], p) \cup Mine(queue'[p], p))
    BY <1>4, <1>9, <2>8
  <2>10. \A s \in Socks : buf'[s] \in {buf[s], <<>>} BY <1>0, <1>1, <2>1, Typed
  <2>11. \A q \in Peers : \A s \in {Srv, q} : Mine(buf'[s], q) \subseteq Mine(buf[s], q)
    BY <1>0, <2>10, RisingEmpty, Typed
  <2>12. Mine(buf'[Srv], p) = {}
    <3>1. buf[Srv] = <<>> BY <1>0, <1>1 DEF IInv, Making
    <3>2. buf'[Srv] = <<>> BY <1>1, <2>10, <3>1
    <3> QED BY <3>2, RisingEmpty
  <2>13. \A q \in Peers : Aside(q)' => Aside(q) BY <1>1 DEF Aside
  <2> QED BY <1>1, <1>2, <1>4, <1>9, <2>1, <2>6, <2>7, <2>9, <2>11, <2>12, <2>13, HandOrders
<1>10. CASE m[1] # p /\ buf' = [buf EXCEPT ![p] = Filled(p)] /\ UNCHANGED got
  <2>1. Mine(buf'[p], p) = {}
    <3>1. Held(Append(buf[p], m)) = Held(buf[p]) \cup {m} BY <1>2, <1>6, HeldAppend
    <3>2. buf'[p] = Append(buf[p], m) /\ Mine(buf[p], p) = {}
      BY <1>0, <1>1, <1>6, <1>10, Typed DEF Line
    <3> QED BY <1>10, <3>1, <3>2 DEF Mine
  <2>2. \A s \in Socks \ {p} : buf'[s] = buf[s] BY <1>0, <1>10, Typed
  <2> SUFFICES ASSUME NEW q \in Peers PROVE Line(q)' OBVIOUS
  <2>3. q \in Socks BY <1>0, Typed
  <2>4. Mine(buf'[Srv], q) \subseteq Mine(buf[Srv], q)
        /\ Mine(buf'[q], q) \subseteq Mine(buf[q], q)
    BY <1>1, <2>1, <2>2, <2>3
  <2>5. Rising(got'[q], q) /\ got'[q] = got[q] BY <1>0, <1>10 DEF Line
  <2>6. sent[q] \in Nat /\ sent'[q] = sent[q] BY <1>0, <1>1, Numbered
  <2>7. sent'[q] \in Nat /\ sent[q] <= sent'[q] BY <2>6
  <2>8. Aside(q)' => Aside(q) BY <1>1 DEF Aside
  <2> QED BY <1>4, <2>4, <2>5, <2>7, <2>8, LineKept
<1> QED BY <1>5, <1>9, <1>10

LEMMA OthersOrder ==
  ASSUME OInv, \/ Reply \/ EpollWait \/ BatchDone
               \/ \E s \in Socks : Dispatch(s) \/ ReadEmpty(s) \/ ReadError(s)
               \/ \E p \in Peers : ReadFull(p) \/ Remove(p)
               \/ UNCHANGED vars
  PROVE  \A q \in Peers : Line(q)'
<1>0. IInv BY DEF OInv
<1>1. CASE UNCHANGED <<sent, queue, st, flow, buf, got>>
  <2>1. \A q \in Peers : Aside(q)' => Aside(q) BY <1>1 DEF Aside
  <2> QED BY <1>1, <2>1, QuietOrders
<1>2. ASSUME NEW p \in Peers, ReadFull(p) PROVE \A q \in Peers : Line(q)'
  <2>1. /\ queue' = [queue EXCEPT ![p] = Tail(@)] /\ queue[p] # <<>>
        /\ st' = [st EXCEPT ![p] = "off"] /\ UNCHANGED <<sent, got, buf, flow>>
    BY <1>2 DEF ReadFull
  <2>2. \A s \in Socks : /\ queue'[s] \in {queue[s], <<>>} \/
                              (queue[s] # <<>> /\ queue'[s] = Tail(queue[s]))
                         /\ buf'[s] \in {buf[s], <<>>}
    BY <1>0, <2>1, Typed
  <2>3. \A q \in Peers : Aside(q)' => Aside(q) BY <1>0, <2>1, Typed DEF Aside
  <2> QED BY <2>1, <2>2, <2>3, QuietOrders
<1>3. ASSUME NEW p \in Peers, Remove(p) PROVE \A q \in Peers : Line(q)'
  <2>1. /\ queue' = [queue EXCEPT ![p] = <<>>] /\ buf' = [buf EXCEPT ![p] = <<>>]
        /\ st' = [st EXCEPT ![p] = "none"] /\ UNCHANGED <<sent, got, flow>>
    BY <1>3 DEF Remove
  <2>2. \A s \in Socks : queue'[s] \in {queue[s], <<>>} /\ buf'[s] \in {buf[s], <<>>}
    BY <1>0, <2>1, Typed
  <2>3. \A q \in Peers : Aside(q)' => Aside(q) \/ queue'[q] = <<>>
    BY <1>0, <2>1, Typed DEF Aside
  <2> QED BY <2>1, <2>2, <2>3, QuietOrders
<1>4. ASSUME \/ Reply \/ EpollWait \/ BatchDone
             \/ \E s \in Socks : Dispatch(s) \/ ReadEmpty(s) \/ ReadError(s)
             \/ UNCHANGED vars
      PROVE  UNCHANGED <<sent, queue, st, flow, buf, got>>
  BY <1>4 DEF Reply, EpollWait, BatchDone, Dispatch, ReadEmpty, ReadError, vars,
              sessions, history, kernel
<1> QED BY <1>1, <1>2, <1>3, <1>4

LEMMA InitInOrder == Init => OInv
<1> SUFFICES ASSUME Init PROVE OInv OBVIOUS
<1>0. IInv BY InitEstablishesIInv
<1>1. ASSUME NEW p \in Peers PROVE Line(p)
  <2>1. /\ got[p] = <<>> /\ queue[Srv] = <<>> /\ queue[p] = <<>>
        /\ buf[Srv] = <<>> /\ buf[p] = <<>>
    BY DEF Init, Socks
  <2> QED BY <2>1, RisingEmpty DEF Line, Below
<1> QED BY <1>0, <1>1 DEF OInv

LEMMA NextInOrder == OInv /\ [Next]_vars => OInv'
<1> SUFFICES ASSUME OInv, [Next]_vars PROVE \A q \in Peers : Line(q)'
  BY NextKeepsIInv DEF OInv
<1>1. ASSUME NEW p \in Peers, Arrive(p) PROVE \A q \in Peers : Line(q)'
  BY <1>1, ArriveOrders
<1>2. CASE Loop
  BY <1>2, OthersOrder, ConnectOrders, ServerOrders, SessionOrders DEF Loop
<1> QED BY <1>1, <1>2, OthersOrder DEF Next, Idle

LEMMA OInvImpliesInOrder == OInv => InOrderOnce
<1> SUFFICES ASSUME OInv PROVE InOrderOnce OBVIOUS
<1>1. \A p \in Peers : Rising(got[p], p) BY DEF OInv, Line
<1> QED BY <1>1 DEF InOrderOnce, Rising

\* The datagrams of a peer are handed to its sessions in the order they arrived
\* and each at most once, over the change from the server's socket to the
\* session's own and over removals (UdpServer::createSession, Socket::onRead).
THEOREM UdpServerInOrder == Spec => []InOrderOnce
BY OInvImpliesInOrder, InitInOrder, NextInOrder, PTL DEF Spec
=============================================================================
