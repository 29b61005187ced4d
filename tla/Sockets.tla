------------------------------- MODULE Sockets -------------------------------
(***************************************************************************)
(* TCP sockets of one poller: connect, accept, the events of a socket, the *)
(* report of its error and its end.  What is tracked is who still holds    *)
(* what: _event_map and epoll are keyed by descriptor numbers, which the   *)
(* kernel gives out again as soon as a file is closed; SockFD takes a      *)
(* socket out of the poller, SockNum closes its file; and a Socket may be  *)
(* let go by a thread other than the loop's, with events of it reported    *)
(* but not handled yet.                                                    *)
(*                                                                         *)
(* A program is a client (Clients) or a server (Conns).  A Socket is used  *)
(* for one connection; the file of socket s is called s, too.              *)
(***************************************************************************)
EXTENDS Naturals, Sequences, FiniteSets

CONSTANTS
  Clients,    \* sockets that connect
  Conns,      \* connections that come to the listener, and their sockets
  Fds,        \* descriptor numbers left to these sockets
  None,       \* no socket, no descriptor
  MaxData     \* bound: times data arrives on a connection

ASSUME SocksAssumption ==
  /\ Clients \cap Conns = {} /\ None \notin Clients \cup Conns
  /\ IsFiniteSet(Conns)
ASSUME FdsAssumption == Fds \subseteq Nat /\ None \notin Fds
ASSUME BoundsAssumption == MaxData \in Nat

Socks == Clients \cup Conns

VARIABLES
  peer,       \* connection: idle, syn, up, refused; pending in the backlog
  data,       \* unread data
  sentData,   \* times data arrived
  eof,        \* how the peer ended the connection: open, fin, rst
  fd,         \* descriptor of the open file
  backlog,    \* connections to accept, oldest first
  epoll,      \* files in epoll's interest list
  ready,      \* files on its ready list (edge-triggered)
  listener,   \* the listening socket is on the ready list
  eventMap,   \* _event_map: socket and callback registered for a descriptor
  batch,      \* events of the last epoll_wait not handled yet
  accepting,  \* the event of the listening socket is among them
  expired,    \* _event_cache_expired
  posted,     \* Sockets whose deletion was handed to the loop
  retries,    \* delayed tasks that will accept again
  sockFd,     \* _sock_fd: none, held, or removed (its _poller is null)
  errEmit,    \* _err_emit
  timer,      \* _con_timer is armed
  owned,      \* the client or the session map holds the Socket
  mainHolds,  \* the Socket a sender on another thread holds
  loop,       \* where the loop thread is
  run,        \* the Socket whose event is handled, the file it happened to
  answers,    \* history: results given to con_cb
  errs        \* history: calls of on_err

kernel  == <<peer, data, sentData, eof, backlog>>
poller  == <<epoll, ready, eventMap>>
reported == <<batch, accepting, expired>>
sockets == <<sockFd, errEmit, timer>>
holders == <<owned, mainHolds>>
history == <<answers, errs>>
vars == <<kernel, fd, listener, poller, reported, posted, retries,
          sockets, holders, loop, run, history>>

NoReg == [of |-> None, on |-> "none"]
Nobody == [of |-> None, file |-> None]
Registered(s) == fd[s] # None /\ eventMap[fd[s]].of = s
Alive(s) == owned[s] \/ mainHolds = s \/ run.of = s
FreeFds == Fds \ {fd[s] : s \in Socks}
Lowest(F) == CHOOSE f \in F : \A g \in F : f <= g

Init == /\ peer = [s \in Socks |-> "idle"]
        /\ data = [s \in Socks |-> 0] /\ sentData = [s \in Socks |-> 0]
        /\ eof = [s \in Socks |-> "open"]
        /\ fd = [s \in Socks |-> None]
        /\ backlog = <<>>
        /\ epoll = {} /\ ready = {} /\ listener = FALSE
        /\ eventMap = [f \in Fds |-> NoReg]
        /\ batch = {} /\ accepting = FALSE /\ expired = {}
        /\ posted = {} /\ retries = 0
        /\ sockFd = [s \in Socks |-> "none"]
        /\ errEmit = [s \in Socks |-> FALSE]
        /\ timer = [s \in Socks |-> FALSE]
        /\ owned = [s \in Socks |-> s \in Clients]
        /\ mainHolds = None
        /\ loop = "poll" /\ run = Nobody
        /\ answers = [s \in Socks |-> <<>>]
        /\ errs = [s \in Socks |-> 0]
-----------------------------------------------------------------------------
(* The network *)

\* An edge is reported when the callback's events include it.
Edge(s, on) ==
  ready' = ready \cup IF s \in epoll /\ eventMap[fd[s]].on = on THEN {s} ELSE {}

Establish(s) ==
  /\ peer[s] = "syn"
  /\ \E to \in {"up", "refused"} : peer' = [peer EXCEPT ![s] = to]
  /\ Edge(s, "connect")
  /\ UNCHANGED <<data, sentData, eof, backlog, fd, listener, epoll, eventMap,
                 reported, posted, retries, sockets, holders, loop, run,
                 history>>

Come(s) ==
  /\ s \in Conns /\ peer[s] = "idle"
  /\ peer' = [peer EXCEPT ![s] = "up"]
  /\ backlog' = Append(backlog, s)
  /\ listener' = TRUE
  /\ UNCHANGED <<data, sentData, eof, fd, poller, reported, posted, retries,
                 sockets, holders, loop, run, history>>

DataComes(s) ==
  /\ peer[s] = "up" /\ eof[s] = "open" /\ sentData[s] < MaxData
  /\ data' = [data EXCEPT ![s] = @ + 1]
  /\ sentData' = [sentData EXCEPT ![s] = @ + 1]
  /\ Edge(s, "io")
  /\ UNCHANGED <<peer, eof, backlog, fd, listener, epoll, eventMap, reported,
                 posted, retries, sockets, holders, loop, run, history>>

PeerEnds(s) ==
  /\ peer[s] = "up" /\ eof[s] = "open"
  /\ \E how \in {"fin", "rst"} : eof' = [eof EXCEPT ![s] = how]
  /\ Edge(s, "io")
  /\ UNCHANGED <<peer, data, sentData, backlog, fd, listener, epoll, eventMap,
                 reported, posted, retries, sockets, holders, loop, run,
                 history>>
-----------------------------------------------------------------------------
(* Registration and descriptors *)

\* addEvent of a file that is not registered; what is there already is reported.
AddEvent(s, f, on, fresh) ==
  /\ epoll' = epoll \cup {s}
  /\ eventMap' = [eventMap EXCEPT ![f] = [of |-> s, on |-> on]]
  /\ ready' = IF fresh THEN ready \cup {s} ELSE ready \ {s}

\* Mutant of DelEvent: the events already reported are not marked.
DelEvent_Unmarked(s) ==
  /\ epoll' = epoll \ {s} /\ ready' = ready \ {s}
  /\ eventMap' = [eventMap EXCEPT ![fd[s]] = NoReg]
  /\ UNCHANGED expired

\* delEvent of a file that is registered.
DelEvent(s) ==
  /\ epoll' = epoll \ {s} /\ ready' = ready \ {s}
  /\ eventMap' = [eventMap EXCEPT ![fd[s]] = NoReg]
  /\ expired' = expired \cup {fd[s]}

\* The last SockNum is gone; the callback in _event_map holds one, too.
CloseFile(s) ==
  LET kept == \E f \in Fds : eventMap'[f].of = s
  IN  fd' = [fd EXCEPT ![s] = IF kept THEN @ ELSE None]

\* ~SockFD takes the event out, where closeSock has not yet.
DropSockFD(s) ==
  /\ sockFd' = [sockFd EXCEPT ![s] = "none"]
  /\ IF sockFd[s] = "held" /\ Registered(s) THEN DelEvent(s)
                                            ELSE UNCHANGED <<poller, expired>>
-----------------------------------------------------------------------------
(* Socket::connect_l, a task of the loop thread: between two polls, or when the *)
(* pipe's event is handled among those of a batch                              *)

\* con_cb: the timer goes, on failure the SockFD as well (which takes the event
\* out and closes the file), and the result is handed on.
Answer(s, ok) == /\ answers' = [answers EXCEPT ![s] = Append(@, ok)]
                 /\ timer' = [timer EXCEPT ![s] = FALSE]

\* SockUtil::connect or addEvent fails.
ConnectFails(s) ==
  /\ loop \in {"poll", "events"} /\ s \in Clients /\ peer[s] = "idle" /\ owned[s]
  /\ peer' = [peer EXCEPT ![s] = "refused"]
  /\ Answer(s, FALSE)
  /\ UNCHANGED <<data, sentData, eof, backlog, fd, listener, poller, reported,
                 posted, retries, sockFd, errEmit, holders, loop, run, errs>>

\* Mutant of Connect: without a timer.
Connect_NoTimer(s) ==
  /\ loop \in {"poll", "events"} /\ s \in Clients /\ peer[s] = "idle" /\ owned[s]
  /\ FreeFds # {}
  /\ fd' = [fd EXCEPT ![s] = Lowest(FreeFds)]
  /\ AddEvent(s, fd'[s], "connect", FALSE)
  /\ peer' = [peer EXCEPT ![s] = "syn"]
  /\ sockFd' = [sockFd EXCEPT ![s] = "held"]
  /\ UNCHANGED <<data, sentData, eof, backlog, listener, reported, posted,
                 retries, errEmit, timer, holders, loop, run, history>>

Connect(s) ==
  /\ loop \in {"poll", "events"} /\ s \in Clients /\ peer[s] = "idle" /\ owned[s]
  /\ FreeFds # {}
  /\ fd' = [fd EXCEPT ![s] = Lowest(FreeFds)]
  /\ AddEvent(s, fd'[s], "connect", FALSE)
  /\ peer' = [peer EXCEPT ![s] = "syn"]
  /\ sockFd' = [sockFd EXCEPT ![s] = "held"]
  /\ timer' = [timer EXCEPT ![s] = TRUE]
  /\ UNCHANGED <<data, sentData, eof, backlog, listener, reported, posted,
                 retries, errEmit, holders, loop, run, history>>

\* The timer fires; flushDelayTask runs before epoll_wait.
ConnectTimeout(s) ==
  /\ loop = "poll" /\ timer[s] /\ owned[s]
  /\ Answer(s, FALSE)
  /\ DropSockFD(s) /\ CloseFile(s)
  /\ UNCHANGED <<kernel, listener, batch, accepting, posted, retries, errEmit,
                 holders, loop, run, errs>>
-----------------------------------------------------------------------------
(* EventLoop::runLoop *)

EpollWait ==
  /\ loop = "poll" /\ (ready # {} \/ listener \/ posted # {})
  /\ batch' = {[fd |-> fd[s], file |-> s] : s \in ready}
  /\ accepting' = listener
  /\ expired' = {}
  /\ ready' = {} /\ listener' = FALSE
  /\ loop' = "events"
  /\ UNCHANGED <<kernel, fd, epoll, eventMap, posted, retries, sockets,
                 holders, run, history>>

BatchDone ==
  /\ loop = "events" /\ batch = {} /\ ~accepting
  /\ loop' = "poll"
  /\ UNCHANGED <<kernel, fd, listener, poller, reported, posted, retries,
                 sockets, holders, run, history>>

\* Not marked as expired, and the callback's Socket is still there.
Deliverable(e) == /\ e.fd \notin expired
                  /\ eventMap[e.fd].of # None
                  /\ Alive(eventMap[e.fd].of)

Skip(e) ==
  /\ loop = "events" /\ e \in batch /\ ~Deliverable(e)
  /\ batch' = batch \ {e}
  /\ UNCHANGED <<kernel, fd, listener, poller, accepting, expired, posted,
                 retries, sockets, holders, loop, run, history>>

\* The callback registered for the descriptor takes hold of its Socket.
Dispatch(e) ==
  /\ loop = "events" /\ e \in batch /\ Deliverable(e)
  /\ batch' = batch \ {e}
  /\ run' = [of |-> eventMap[e.fd].of, file |-> e.file]
  /\ loop' = eventMap[e.fd].on
  /\ UNCHANGED <<kernel, fd, listener, poller, accepting, expired, posted,
                 retries, sockets, holders, history>>

\* The pipe's event: a Socket another thread let go is deleted; closeSock drops
\* its SockFD, which takes the event out, and with it the last SockNum.
RunDelete(s) ==
  /\ loop = "events" /\ s \in posted
  /\ posted' = posted \ {s}
  /\ timer' = [timer EXCEPT ![s] = FALSE]
  /\ DropSockFD(s) /\ CloseFile(s)
  /\ UNCHANGED <<kernel, listener, batch, accepting, retries, errEmit, holders,
                 loop, run, history>>

\* The callback returns.  Where it held the Socket last, that ends here.
Return(s) ==
  /\ loop = "return" /\ run.of = s
  /\ loop' = "events" /\ run' = Nobody
  /\ LET ends == ~owned[s] /\ mainHolds # s IN
       /\ IF ends THEN DropSockFD(s) ELSE UNCHANGED <<sockFd, poller, expired>>
       /\ timer' = [timer EXCEPT ![s] = @ /\ ~ends]
  /\ IF sockFd'[s] = "none" THEN CloseFile(s) ELSE UNCHANGED fd
  /\ UNCHANGED <<kernel, listener, batch, accepting, posted, retries, errEmit,
                 holders, history>>
-----------------------------------------------------------------------------
(* Socket::onConnected *)

\* Mutant of Connected: the timer is left armed.
Connected_TimerLeft(s) ==
  /\ loop = "connect" /\ run.of = s /\ peer[s] # "refused"
  /\ AddEvent(s, fd[s], "io", data[s] > 0 \/ eof[s] # "open")
  /\ answers' = [answers EXCEPT ![s] = Append(@, TRUE)]
  /\ expired' = expired \cup {fd[s]}
  /\ loop' = "return"
  /\ UNCHANGED <<kernel, fd, listener, batch, accepting, posted, retries,
                 sockets, holders, run, errs>>

\* A new SockFD replaces the old one, which takes the event out; attachEvent
\* registers the callback of a connected socket.
Connected(s) ==
  /\ loop = "connect" /\ run.of = s /\ peer[s] # "refused"
  /\ AddEvent(s, fd[s], "io", data[s] > 0 \/ eof[s] # "open")
  /\ Answer(s, TRUE)
  /\ expired' = expired \cup {fd[s]}
  /\ loop' = "return"
  /\ UNCHANGED <<kernel, fd, listener, batch, accepting, posted, retries,
                 sockFd, errEmit, holders, run, errs>>

\* getSockErr reports an error, or attachEvent fails after the old event is out.
NotConnected(s) ==
  /\ loop = "connect" /\ run.of = s
  /\ Answer(s, FALSE)
  /\ DropSockFD(s)
  /\ loop' = "return"
  /\ UNCHANGED <<kernel, fd, listener, batch, accepting, posted, retries,
                 errEmit, holders, run, errs>>
-----------------------------------------------------------------------------
(* The callback of a connected socket: onRead, emitErr *)

\* Mutant of Read: one recv for an event.
Read_Once(s) ==
  /\ loop = "io" /\ run.of = s /\ data[s] > 0 /\ eof[s] # "rst"
  /\ data' = [data EXCEPT ![s] = @ - 1]
  /\ loop' = "return"
  /\ UNCHANGED <<peer, sentData, eof, backlog, fd, listener, poller, reported,
                 posted, retries, sockets, holders, run, history>>

Read(s) ==
  /\ loop = "io" /\ run.of = s /\ data[s] > 0 /\ eof[s] # "rst"
  /\ data' = [data EXCEPT ![s] = @ - 1]
  /\ UNCHANGED <<peer, sentData, eof, backlog, fd, listener, poller, reported,
                 posted, retries, sockets, holders, loop, run, history>>

ReadAgain(s) ==
  /\ loop = "io" /\ run.of = s /\ data[s] = 0 /\ eof[s] = "open"
  /\ loop' = "return"
  /\ UNCHANGED <<kernel, fd, listener, poller, reported, posted, retries,
                 sockets, holders, run, history>>

\* emitErr: once per Socket, on_err is called (a server erases the session) and
\* closeSock takes the event out; the file stays open as long as the Socket.
EmitErr(s) ==
  \/ /\ ~errEmit[s]
     /\ errEmit' = [errEmit EXCEPT ![s] = TRUE]
     /\ errs' = [errs EXCEPT ![s] = @ + 1]
     /\ owned' = [owned EXCEPT ![s] = s \in Clients /\ owned[s]]
     /\ sockFd' = [sockFd EXCEPT ![s] = IF @ = "held" THEN "removed" ELSE @]
     /\ IF sockFd[s] = "held" /\ Registered(s) THEN DelEvent(s)
                                              ELSE UNCHANGED <<poller, expired>>
  \/ /\ errEmit[s]
     /\ UNCHANGED <<errEmit, errs, owned, sockFd, poller, expired>>

\* recvfrom returns 0 or an error; after a reset the callback goes on to the
\* error event.
ReadEnds(s) ==
  /\ loop = "io" /\ run.of = s
  /\ (data[s] = 0 /\ eof[s] = "fin") \/ eof[s] = "rst"
  /\ EmitErr(s)
  /\ loop' = IF eof[s] = "rst" /\ ~errEmit[s] THEN "io" ELSE "return"
  /\ UNCHANGED <<kernel, fd, listener, batch, accepting, posted, retries,
                 timer, mainHolds, run, answers>>
-----------------------------------------------------------------------------
(* Socket::onAccept *)

BeginAccept ==
  /\ \/ /\ loop = "events" /\ accepting
        /\ accepting' = FALSE /\ UNCHANGED retries
     \/ /\ loop = "poll" /\ retries > 0
        /\ retries' = retries - 1 /\ UNCHANGED accepting
  /\ loop' = "accept"
  /\ UNCHANGED <<kernel, fd, listener, poller, batch, expired, posted, sockets,
                 holders, run, history>>

\* A session for the connection; its events are registered after on_accept.
Accept(s) ==
  /\ loop = "accept" /\ FreeFds # {}
  /\ backlog # <<>> /\ Head(backlog) = s
  /\ backlog' = Tail(backlog)
  /\ fd' = [fd EXCEPT ![s] = Lowest(FreeFds)]
  /\ AddEvent(s, fd'[s], "io", data[s] > 0 \/ eof[s] # "open")
  /\ sockFd' = [sockFd EXCEPT ![s] = "held"]
  /\ owned' = [owned EXCEPT ![s] = TRUE]
  /\ UNCHANGED <<peer, data, sentData, eof, listener, reported, posted,
                 retries, errEmit, timer, mainHolds, loop, run, history>>

\* attachEvent fails: the error is reported, which ends the new session.
AcceptUnwatched(s) ==
  /\ loop = "accept" /\ FreeFds # {}
  /\ backlog # <<>> /\ Head(backlog) = s
  /\ backlog' = Tail(backlog)
  /\ errEmit' = [errEmit EXCEPT ![s] = TRUE]
  /\ errs' = [errs EXCEPT ![s] = @ + 1]
  /\ UNCHANGED <<peer, data, sentData, eof, fd, listener, poller, reported,
                 posted, retries, sockFd, timer, holders, loop, run, answers>>

\* EAGAIN
AcceptDone ==
  /\ loop = "accept" /\ backlog = <<>>
  /\ loop' = "events"
  /\ UNCHANGED <<kernel, fd, listener, poller, reported, posted, retries,
                 sockets, holders, run, history>>

\* Mutant of AcceptFull: the next edge is left to try again.
AcceptFull_NoRetry ==
  /\ loop = "accept" /\ backlog # <<>> /\ FreeFds = {}
  /\ loop' = "events"
  /\ UNCHANGED <<kernel, fd, listener, poller, reported, posted, retries,
                 sockets, holders, run, history>>

\* EMFILE: a delayed task calls onAccept again 100 ms later.
AcceptFull ==
  /\ loop = "accept" /\ backlog # <<>> /\ FreeFds = {}
  /\ retries' = retries + 1
  /\ loop' = "events"
  /\ UNCHANGED <<kernel, fd, listener, poller, reported, posted, sockets,
                 holders, run, history>>
-----------------------------------------------------------------------------
(* Other threads *)

\* The deleter of a Socket that another thread lets go hands it to the loop.
LetGo(s) == posted' = posted \cup {s}

\* The server or client that owns the Socket is destroyed.
Drop(s) ==
  /\ owned[s]
  /\ owned' = [owned EXCEPT ![s] = FALSE]
  /\ IF mainHolds = s \/ run.of = s
     THEN UNCHANGED posted ELSE LetGo(s)
  /\ UNCHANGED <<kernel, fd, listener, poller, reported, retries, sockets,
                 mainHolds, loop, run, history>>

\* sendclientdata: the last session is locked while it sends.
Lock(s) ==
  /\ mainHolds = None /\ s \in Conns /\ owned[s]
  /\ mainHolds' = s
  /\ UNCHANGED <<kernel, fd, listener, poller, reported, posted, retries,
                 sockets, owned, loop, run, history>>

\* Mutant of Unlock: the file is closed at once.
Unlock_Closes(s) ==
  /\ mainHolds = s
  /\ mainHolds' = None
  /\ IF owned[s] \/ run.of = s
     THEN UNCHANGED <<sockFd, timer, fd>>
     ELSE /\ sockFd' = [sockFd EXCEPT ![s] = "none"]
          /\ fd' = [fd EXCEPT ![s] = None] /\ UNCHANGED timer
  /\ UNCHANGED <<kernel, listener, poller, reported, posted, retries, errEmit,
                 owned, loop, run, history>>

Unlock(s) ==
  /\ mainHolds = s
  /\ mainHolds' = None
  /\ IF owned[s] \/ run.of = s
     THEN UNCHANGED posted ELSE LetGo(s)
  /\ UNCHANGED <<kernel, fd, listener, poller, reported, retries, sockets,
                 owned, loop, run, history>>
-----------------------------------------------------------------------------
Network(s) == Establish(s) \/ Come(s) \/ DataComes(s) \/ PeerEnds(s)

Callback(s) == \/ Connected(s) \/ NotConnected(s)
               \/ Read(s) \/ ReadAgain(s) \/ ReadEnds(s)
               \/ Accept(s) \/ AcceptUnwatched(s)
               \/ Return(s)

Loop == \/ EpollWait \/ BatchDone \/ BeginAccept \/ AcceptDone \/ AcceptFull
        \/ \E e \in batch : Skip(e) \/ Dispatch(e)
        \/ \E s \in Socks : RunDelete(s) \/ Callback(s)

\* The loop sleeps in epoll_wait, and nothing need come any more.
Sleep == /\ loop = "poll" /\ ready = {} /\ ~listener
         /\ posted = {} /\ retries = 0
         /\ UNCHANGED vars

Next == \/ \E s \in Socks : Network(s) \/ Drop(s) \/ Lock(s) \/ Unlock(s)
        \/ \E s \in Clients : Connect(s) \/ ConnectFails(s) \/ ConnectTimeout(s)
        \/ Loop \/ Sleep

Spec == Init /\ [][Next]_vars

\* The loop thread goes on, in every event of a batch, its tasks (EventLoop) and
\* its timers (DelayTasks); a sender lets go of the session.  The network and
\* the owners need not do anything.
Fairness == /\ WF_vars(Loop)
            /\ SF_vars(EpollWait) /\ SF_vars(BeginAccept)
            /\ \A s \in Socks : SF_vars(RunDelete(s)) /\ WF_vars(Unlock(s))
            /\ \A s \in Clients : /\ SF_vars(ConnectTimeout(s))
                                  /\ SF_vars(Connect(s) \/ ConnectFails(s))
FairSpec == Spec /\ Fairness
-----------------------------------------------------------------------------
Ends == {"open", "fin", "rst"}

TypeOK ==
  /\ peer \in [Socks -> {"idle", "syn", "up", "refused"}]
  /\ data \in [Socks -> 0..MaxData] /\ sentData \in [Socks -> 0..MaxData]
  /\ eof \in [Socks -> Ends]
  /\ fd \in [Socks -> Fds \cup {None}]
  /\ backlog \in Seq(Conns)
  /\ epoll \subseteq Socks /\ ready \subseteq epoll
  /\ listener \in BOOLEAN /\ accepting \in BOOLEAN
  /\ eventMap \in [Fds -> [of : Socks \cup {None},
                           on : {"none", "connect", "io"}]]
  /\ batch \subseteq [fd : Fds, file : Socks]
  /\ expired \subseteq Fds /\ posted \subseteq Socks
  /\ retries \in 0..Cardinality(Conns)
  /\ sockFd \in [Socks -> {"none", "held", "removed"}]
  /\ errEmit \in [Socks -> BOOLEAN] /\ timer \in [Socks -> BOOLEAN]
  /\ owned \in [Socks -> BOOLEAN] /\ mainHolds \in Socks \cup {None}
  /\ loop \in {"poll", "events", "connect", "io", "return", "accept"}
  /\ run \in [of : Socks \cup {None}, file : Socks \cup {None}]
  /\ answers \in [Socks -> Seq(BOOLEAN)] /\ errs \in [Socks -> Nat]

\* An event is handled by the callback of the socket it happened to, although
\* descriptors are given out again while events of the closed file are still
\* in the array: _event_cache_expired holds them back.
NoStaleEvent == run.file = run.of

\* _event_map and epoll agree: what is registered under a number is the open
\* file with that number, and every file epoll watches has its callback.
MapMatchesEpoll ==
  /\ \A f \in Fds : eventMap[f].of # None =>
       fd[eventMap[f].of] = f /\ eventMap[f].of \in epoll
  /\ \A s \in epoll : Registered(s)

\* No descriptor is given to two open files, and one whose Socket is gone is
\* closed by the time the loop sleeps with no task left.
NoLeak ==
  /\ \A s, r \in Socks : fd[s] = fd[r] /\ fd[s] # None => s = r
  /\ loop = "poll" /\ posted = {} =>
       \A s \in Socks : fd[s] # None => Alive(s)

\* Descriptors, the files behind them, epoll and _event_map stay together.
DescriptorsKept == TypeOK /\ MapMatchesEpoll /\ NoLeak

\* What happened is heard of once.  A connect has at most one answer, and its
\* timer goes with the answer: a connection that is up is not closed by the
\* timeout of its connect.  on_err is called once, for an end that the read and
\* the error event both report.
HeardOnce ==
  /\ \A s \in Clients : Len(answers[s]) <= 1 /\ (answers[s] # <<>> => ~timer[s])
  /\ \A s \in Socks : errs[s] <= 1

\* Every connect is answered, unless its owner lets it go.
ConnectAnswered ==
  \A s \in Clients : owned[s] ~> answers[s] # <<>> \/ ~owned[s]

\* Connections that wait while there is no descriptor are accepted once there
\* are descriptors again, without a new edge on the listening socket.
AcceptResumes ==
  <>[](FreeFds # {}) => (backlog # <<>> ~> backlog = <<>>)

\* Data and the end of a connection reach the owner of its Socket.
EndReported ==
  \A s \in Conns :
    owned[s] /\ eof[s] # "open" ~> errs[s] > 0 \/ ~owned[s]
=============================================================================
