------------------------------ MODULE UdpServer ------------------------------
(***************************************************************************)
(* The UDP server: one socket bound to the port, and for every peer a      *)
(* session whose own socket is bound to the same port and then connected   *)
(* to the peer, so that the kernel sorts the datagrams.  All of it runs on *)
(* one loop thread; peers send at any moment, between bind and connect as  *)
(* well.  A datagram is <<peer, number>>.                                  *)
(***************************************************************************)
EXTENDS Naturals, Sequences, FiniteSets

CONSTANTS
  Peers,        \* addresses datagrams come from
  Srv,          \* the server's own socket; the session of p has the socket p
  None,         \* no socket, no session
  Cap,          \* datagrams the buffer of a socket holds (RAW_BUFFER_SIZE)
  MaxSent,      \* bound: datagrams of a peer
  MaxRefused    \* bound: replies that come back as "connection refused"

ASSUME SocksAssumption == Srv \notin Peers /\ None \notin Peers /\ None # Srv
ASSUME CapAssumption == Cap \in Nat \ {0}
ASSUME BoundsAssumption == MaxSent \in Nat /\ MaxRefused \in Nat

Socks == Peers \cup {Srv}

VARIABLES
  sent,     \* datagrams each peer has sent
  queue,    \* receive queue of each socket
  refused,  \* sockets with a pending ECONNREFUSED
  replies,  \* how many replies were refused
  ready,    \* sockets on epoll's ready list (edge-triggered)
  batch,    \* sockets of the last epoll_wait not handled yet
  st,       \* each peer's session and its socket
  flow,     \* peers the kernel assigns to the socket that is being made
  buf,      \* _buffer of each socket: the datagrams in it
  last,     \* _last_session
  loop,     \* where the loop thread is
  cur,      \* the socket whose event is handled
  got,      \* history: what was handed to the sessions of each peer
  strayed,  \* history: datagrams read from the socket of another peer
  closed    \* history: datagrams a full buffer or a closed socket dropped

vars == <<sent, queue, refused, replies, ready, batch, st, flow, buf, last,
          loop, cur, got, strayed, closed>>

kernel   == <<sent, queue, refused, replies>>
epoll    == <<ready, batch>>
sessions == <<st, flow, buf, last>>
history  == <<got, strayed, closed>>

\* none: no session.  bound: createSession is between bind and connect.
\* own: connected.  bare: the socket could not be opened.  off: an error was
\* reported, the session waits for its removal (enable is false).
States == {"none", "bound", "own", "bare", "off"}

Registered(s) == s = Srv \/ st[s] \in {"bound", "own"}
Datagrams == Peers \X (1..MaxSent)

Init == /\ sent = [p \in Peers |-> 0]
        /\ queue = [s \in Socks |-> <<>>]
        /\ refused = {} /\ replies = 0
        /\ ready = {} /\ batch = {}
        /\ st = [p \in Peers |-> "none"]
        /\ flow = {}
        /\ buf = [s \in Socks |-> <<>>]
        /\ last = None
        /\ loop = "wait" /\ cur = None
        /\ got = [p \in Peers |-> <<>>]
        /\ strayed = {} /\ closed = {}
-----------------------------------------------------------------------------
(* Peers and the kernel *)

\* The kernel prefers the socket connected to the sender.  Without one, and
\* while a second socket of the port is not connected, it picks one of the two
\* by a hash of the addresses (SO_REUSEPORT): the same one for each peer.
Dest(p) == IF st[p] \in {"own", "off"} THEN p
           ELSE IF p \in flow THEN CHOOSE q \in Peers : st[q] = "bound"
           ELSE Srv

Notify(s) == ready' = IF Registered(s) THEN ready \cup {s} ELSE ready

Arrive(p) ==
  /\ sent[p] < MaxSent
  /\ sent' = [sent EXCEPT ![p] = @ + 1]
  /\ queue' = [queue EXCEPT ![Dest(p)] = Append(@, <<p, sent'[p]>>)]
  /\ Notify(Dest(p))
  /\ UNCHANGED <<refused, replies, batch, sessions, loop, cur, history>>

\* sendclientdata: a reply to the session heard last; nobody is there.
Reply ==
  /\ last # None /\ st[last] = "own"
  /\ replies < MaxRefused
  /\ replies' = replies + 1
  /\ refused' = refused \cup {last}
  /\ Notify(last)
  /\ UNCHANGED <<sent, queue, batch, sessions, loop, cur, history>>
-----------------------------------------------------------------------------
(* EventLoop::runLoop *)

EpollWait ==
  /\ loop = "wait" /\ ready # {}
  /\ batch' = ready /\ ready' = {}
  /\ loop' = "events"
  /\ UNCHANGED <<kernel, sessions, cur, history>>

Dispatch(s) ==
  /\ loop = "events" /\ s \in batch
  /\ batch' = batch \ {s}
  /\ cur' = s /\ loop' = "read"
  /\ UNCHANGED <<kernel, ready, sessions, history>>

BatchDone ==
  /\ loop = "events" /\ batch = {}
  /\ loop' = "wait" /\ cur' = None
  /\ UNCHANGED <<kernel, epoll, sessions, history>>
-----------------------------------------------------------------------------
(* Socket::onRead *)

Reading(s) == loop = "read" /\ cur = s

\* EAGAIN
ReadEmpty(s) ==
  /\ Reading(s) /\ s \notin refused /\ queue[s] = <<>>
  /\ loop' = "events"
  /\ UNCHANGED <<kernel, epoll, sessions, cur, history>>

\* Any other error of a UDP socket is logged, and onRead returns.
ReadError(s) ==
  /\ Reading(s) /\ s \in refused
  /\ refused' = refused \ {s}
  /\ loop' = "events"
  /\ UNCHANGED <<sent, queue, replies, epoll, sessions, cur, history>>

\* No room: recvfrom of 0 bytes returns 0, taken for an end of stream.  emitErr
\* disables the session, removes the event and leaves the socket open; the
\* session is to be removed in kUdpDelayCloseMS.
ReadFull(p) ==
  /\ Reading(p) /\ p \notin refused
  /\ queue[p] # <<>> /\ Len(buf[p]) = Cap
  /\ closed' = closed \cup {Head(queue[p])}
  /\ queue' = [queue EXCEPT ![p] = Tail(@)]
  /\ st' = [st EXCEPT ![p] = "off"]
  /\ ready' = ready \ {p}
  /\ loop' = "events"
  /\ UNCHANGED <<sent, refused, replies, batch, flow, buf, last, cur, got,
                 strayed>>

\* recvfrom: the datagram goes behind what the buffer holds already.
Received(s) == /\ Reading(s) /\ s \notin refused
               /\ queue[s] # <<>> /\ Len(buf[s]) < Cap
Unconnected == {q \in Peers : st[q] \in {"none", "bare"}}
Filled(s) == Append(buf[s], Head(queue[s]))

\* emitSessionRecv: the handler takes all the buffer holds and resets it; a
\* session that waits for its removal takes nothing.
Hand(p, s) ==
  LET takes == st[p] # "off" IN
  /\ got' = [got EXCEPT ![p] = IF takes THEN @ \o Filled(s) ELSE @]
  /\ buf' = [buf EXCEPT ![s] = IF takes THEN <<>> ELSE Filled(s)]

\* Mutant of ReadServer: the loop is left after one datagram.
ReadServer_One(p) ==
  /\ Received(Srv) /\ Head(queue[Srv])[1] = p
  /\ queue' = [queue EXCEPT ![Srv] = Tail(@)]
  /\ IF st[p] = "none"
     THEN /\ st' = [st EXCEPT ![p] = "bound"] /\ loop' = "create"
          /\ flow' \in SUBSET Unconnected
          /\ buf' = [buf EXCEPT ![Srv] = Filled(Srv)]
          /\ UNCHANGED <<got, last>>
     ELSE Hand(p, Srv) /\ last' = p /\ loop' = "events" /\ UNCHANGED <<st, flow>>
  /\ UNCHANGED <<sent, refused, replies, epoll, cur, strayed, closed>>
\* The server's socket: UdpServer::onRead, onRead_l, getOrCreateSession.  A new
\* peer gets a session: its socket is bound (and watched), or bindUdpSock fails
\* and the session is made without.
ReadServer(p) ==
  /\ Received(Srv) /\ Head(queue[Srv])[1] = p
  /\ queue' = [queue EXCEPT ![Srv] = Tail(@)]
  /\ \/ /\ st[p] = "none"
        /\ st' = [st EXCEPT ![p] = "bound"]
        /\ flow' \in SUBSET Unconnected
        /\ buf' = [buf EXCEPT ![Srv] = Filled(Srv)]
        /\ loop' = "create"
        /\ UNCHANGED <<got, last>>
     \/ /\ st[p] = "none"
        /\ st' = [st EXCEPT ![p] = "bare"]
        /\ Hand(p, Srv) /\ last' = p
        /\ UNCHANGED <<flow, loop>>
     \/ /\ st[p] # "none"
        /\ Hand(p, Srv) /\ last' = p
        /\ UNCHANGED <<st, flow, loop>>
  /\ UNCHANGED <<sent, refused, replies, epoll, cur, strayed, closed>>

\* Mutant of Connect: the buffer of the server's socket is not reset.
Connect_NoReset ==
  /\ loop = "create"
  /\ LET p == buf[Srv][Len(buf[Srv])][1] IN
       /\ st' = [st EXCEPT ![p] = "own"]
       /\ flow' = {}
       /\ got' = [got EXCEPT ![p] = @ \o buf[Srv]]
       /\ last' = p
  /\ loop' = "read"
  /\ UNCHANGED <<kernel, epoll, buf, cur, strayed, closed>>

\* The rest of createSession and onRead_l: the socket is connected to the peer,
\* and the datagram that made the session is handed to it.
Connect ==
  /\ loop = "create"
  /\ LET p == buf[Srv][Len(buf[Srv])][1] IN
       /\ st' = [st EXCEPT ![p] = "own"]
       /\ flow' = {}
       /\ got' = [got EXCEPT ![p] = @ \o buf[Srv]]
       /\ buf' = [buf EXCEPT ![Srv] = <<>>]
       /\ last' = p
  /\ loop' = "read"
  /\ UNCHANGED <<kernel, epoll, cur, strayed, closed>>

\* The socket of a session: a datagram of another peer is left in the buffer.
ReadSession(p) ==
  /\ Received(p)
  /\ queue' = [queue EXCEPT ![p] = Tail(@)]
  /\ \/ /\ Head(queue[p])[1] = p
        /\ Hand(p, p) /\ last' = p
        /\ UNCHANGED strayed
     \/ /\ Head(queue[p])[1] # p
        /\ buf' = [buf EXCEPT ![p] = Filled(p)]
        /\ strayed' = strayed \cup {Head(queue[p])}
        /\ UNCHANGED <<got, last>>
  /\ UNCHANGED <<sent, refused, replies, epoll, st, flow, loop, cur, closed>>
-----------------------------------------------------------------------------
(* The timer of setOnErr *)

\* kUdpDelayCloseMS later the session leaves the map and its socket is closed.
Remove(p) ==
  /\ loop = "wait" /\ st[p] = "off"
  /\ st' = [st EXCEPT ![p] = "none"]
  /\ closed' = closed \cup {queue[p][i] : i \in DOMAIN queue[p]}
  /\ queue' = [queue EXCEPT ![p] = <<>>]
  /\ refused' = refused \ {p}
  /\ buf' = [buf EXCEPT ![p] = <<>>]
  /\ last' = IF last = p THEN None ELSE last
  /\ UNCHANGED <<sent, replies, epoll, flow, loop, cur, got, strayed>>
-----------------------------------------------------------------------------
Loop == \/ EpollWait \/ BatchDone \/ Connect
        \/ \E s \in Socks : Dispatch(s) \/ ReadEmpty(s) \/ ReadError(s)
        \/ \E p \in Peers : ReadServer(p) \/ ReadSession(p) \/ ReadFull(p)

\* Nothing arrives any more and nothing is left to do.
Idle == /\ loop = "wait" /\ ready = {}
        /\ UNCHANGED vars

Next == \/ \E p \in Peers : Arrive(p) \/ Remove(p)
        \/ Reply \/ Loop \/ Idle

Spec == Init /\ [][Next]_vars

\* The loop thread runs and its timers fire; nobody has to send.
Fairness == WF_vars(Loop) /\ \A p \in Peers : WF_vars(Remove(p))
FairSpec == Spec /\ Fairness
-----------------------------------------------------------------------------
TypeOK ==
  /\ sent \in [Peers -> 0..MaxSent]
  /\ queue \in [Socks -> Seq(Datagrams)]
  /\ refused \subseteq Peers /\ replies \in 0..MaxRefused
  /\ ready \subseteq Socks /\ batch \subseteq Socks
  /\ st \in [Peers -> States] /\ flow \subseteq Peers
  /\ buf \in [Socks -> Seq(Datagrams)]
  /\ \A s \in Socks : Len(buf[s]) <= Cap
  /\ last \in Peers \cup {None}
  /\ loop \in {"wait", "events", "read", "create"}
  /\ cur \in Socks \cup {None}
  /\ got \in [Peers -> Seq(Datagrams)]
  /\ strayed \subseteq Datagrams /\ closed \subseteq Datagrams

Handed(p) == {got[p][i] : i \in DOMAIN got[p]}
Waiting == (UNION {{queue[s][i] : i \in DOMAIN queue[s]} : s \in Socks})
           \cup (IF loop = "create" THEN {buf[Srv][Len(buf[Srv])]} ELSE {})

\* A peer's datagrams reach its session in the order they arrived and once,
\* although they come through two sockets while the session is being made:
\* the server's socket is read empty before the event of the new one is
\* looked at, and an error or a removal in between changes nothing.
InOrderOnce ==
  \A p \in Peers : \A i, j \in DOMAIN got[p] :
    i < j /\ got[p][i][1] = p /\ got[p][j][1] = p => got[p][i][2] < got[p][j][2]

\* No datagram vanishes in the server: it waits, was handed to the session of
\* its sender, strayed into the socket of another peer, or was in a socket
\* that failed.
NothingVanishes ==
  \A p \in Peers : \A n \in 1..sent[p] :
    <<p, n>> \in Waiting \cup Handed(p) \cup strayed \cup closed

\* Only a datagram that arrived between the bind and the connect of another
\* peer's socket is handed to the wrong session.
ForeignOnlyIfStrayed ==
  \A p \in Peers : \A d \in Handed(p) : d[1] = p \/ d \in strayed

\* Every datagram is accounted for: none vanishes and none but a stray reaches
\* the wrong session.
Accounted == TypeOK /\ NothingVanishes /\ ForeignOnlyIfStrayed

\* What is in a receive queue is read, an edge-triggered socket until it is
\* empty, unless a refused reply ended a read with the rest in the queue.
QueuesDrained ==
  [](replies = 0) => \A s \in Socks : queue[s] # <<>> ~> queue[s] = <<>>
=============================================================================
