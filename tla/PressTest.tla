------------------------------ MODULE PressTest ------------------------------
(***************************************************************************)
(* The receiving side of the pressure test (PressModel in the role of the  *)
(* server): sessions count packets, a timer collects and clears the counts *)
(* and prints the loss of the period, and at the end prepare_exit collects *)
(* once more.  Sessions and timer run on the loop thread; prepare_exit     *)
(* runs there when the test has a duration, and in a signal handler on the *)
(* main thread after Ctrl+C, beside the loop.  A session of a UDP server   *)
(* stays; one of a TCP server goes with its connection.                    *)
(***************************************************************************)
EXTENDS Integers, FiniteSets, FiniteSetsExt

CONSTANTS
  Sessions,    \* one for each client
  None,        \* no session
  Protocols,   \* which of UDP (TRUE) and TCP (FALSE) are tried
  CtrlC,       \* Ctrl+C happens
  MaxPkts,     \* bound: packets of a client
  Word         \* 2^32: uint32_t of the printed loss

ASSUME SessionsAssumption == None \notin Sessions /\ IsFiniteSet(Sessions)
ASSUME ModeAssumption == Protocols \subseteq BOOLEAN /\ CtrlC \in BOOLEAN
ASSUME PktsAssumption == MaxPkts \in Nat
ASSUME WordAssumption == Word \in Nat /\ Word > MaxPkts * Cardinality(Sessions)

VARIABLES
  udp,        \* gConfigCmd.protol
  conn,       \* the client's connection: none, open, closed (TCP)
  sent,       \* uMsgIndex of the client's last packet
  air,        \* packets under way, or in the receive queue
  inMap,      \* sessions in _session_map
  erasing,    \* sessions whose removal was posted
  num,        \* _server_rcv_num of each session
  seq,        \* _server_rcv_seq of each session
  counting,   \* the session that counts a packet, and the count it loaded
  fresh,      \* bytes for the speed of the period
  rcvNum,     \* PressModel::_server_rcv_num
  rcvSeq,     \* PressModel::_server_rcv_seq
  main,       \* where the signal handler is
  todo,       \* sessions it has yet to ask
  asking,     \* the session it asks, and the count it loaded
  curSeq,     \* curr_seq of its GetRcvInfo
  onManager,  \* _is_on_manager
  received,   \* history: packets the sessions were given
  lossReport  \* history: what was printed last, and what was missing then

clients == <<udp, conn, sent, air>>
session == <<inMap, erasing, num, seq, counting>>
totals  == <<rcvNum, rcvSeq, fresh>>
handler == <<main, todo, asking, curSeq, onManager>>
history == <<received, lossReport>>
receiverVars == <<clients, session, totals, handler, history>>

Total(f, S) == MapThenSumSet(LAMBDA s : f[s], S)
Larger(x, y) == IF x > y THEN x ELSE y
Nothing == [of |-> None, load |-> 0]
Idle == counting = Nothing
ReceiverRuns == main \notin {"gone", "killed"}

NoReport == [lost |-> 0, missing |-> 0]

ReceiverInit ==
  /\ udp \in Protocols
  /\ conn = [s \in Sessions |-> "none"]
  /\ sent = [s \in Sessions |-> 0]
  /\ air = [s \in Sessions |-> {}]
  /\ inMap = {} /\ erasing = {}
  /\ num = [s \in Sessions |-> 0]
  /\ seq = [s \in Sessions |-> 0]
  /\ counting = Nothing
  /\ fresh = FALSE
  /\ rcvNum = 0 /\ rcvSeq = 0
  /\ main = "sleep" /\ todo = {} /\ asking = Nothing /\ curSeq = 0
  /\ onManager = FALSE
  /\ received = 0 /\ lossReport = NoReport

Erase(s) == inMap' = inMap \ {s}
-----------------------------------------------------------------------------
(* Clients and the network *)

\* start_client_press
SendPacket(s) ==
  /\ conn[s] = "open" /\ sent[s] < MaxPkts
  /\ sent' = [sent EXCEPT ![s] = @ + 1]
  /\ air' = [air EXCEPT ![s] = @ \cup {sent'[s]}]
  /\ UNCHANGED <<udp, conn, session, totals, handler, history>>

\* A client starts; the session of a TCP connection is made on accept.
Open(s) ==
  /\ ReceiverRuns /\ Idle /\ conn[s] = "none"
  /\ conn' = [conn EXCEPT ![s] = "open"]
  /\ inMap' = IF udp THEN inMap ELSE inMap \cup {s}
  /\ UNCHANGED <<udp, sent, air, erasing, num, seq, counting, totals, handler,
                 history>>

Close(s) ==
  /\ conn[s] = "open" /\ ~udp
  /\ conn' = [conn EXCEPT ![s] = "closed"]
  /\ UNCHANGED <<udp, sent, air, session, totals, handler, history>>

Lose(s) ==
  /\ udp
  /\ \E n \in air[s] : air' = [air EXCEPT ![s] = @ \ {n}]
  /\ UNCHANGED <<udp, conn, sent, session, totals, handler, history>>
-----------------------------------------------------------------------------
(* The loop thread: sessions *)

\* Mutant of OnRecv: the last index is kept.
OnRecv_LastIndex(s) ==
  /\ ReceiverRuns /\ Idle
  /\ \E n \in air[s] :
       /\ udp \/ \A m \in air[s] : n <= m
       /\ air' = [air EXCEPT ![s] = @ \ {n}]
       /\ seq' = [seq EXCEPT ![s] = IF udp THEN n ELSE @]
  /\ inMap' = inMap \cup {s}
  /\ counting' = [of |-> s, load |-> num[s]]
  /\ UNCHANGED <<udp, conn, sent, erasing, num, totals, handler, history>>

\* PressSession::onRecv begins: a new UDP peer gets a session, the largest
\* index is kept, and the count is loaded.  UDP may reorder.
OnRecv(s) ==
  /\ ReceiverRuns /\ Idle
  /\ \E n \in air[s] :
       /\ udp \/ \A m \in air[s] : n <= m
       /\ air' = [air EXCEPT ![s] = @ \ {n}]
       /\ seq' = [seq EXCEPT ![s] = IF udp THEN Larger(@, n) ELSE @]
  /\ inMap' = inMap \cup {s}
  /\ counting' = [of |-> s, load |-> num[s]]
  /\ UNCHANGED <<udp, conn, sent, erasing, num, totals, handler, history>>

\* The count is stored.  getRecvSpeed counts from its first call on, so these
\* bytes may or may not make a speed.
CountPacket(s) ==
  /\ ReceiverRuns /\ counting.of = s
  /\ num' = [num EXCEPT ![s] = counting.load + 1]
  /\ counting' = Nothing
  /\ fresh' \in {fresh, TRUE}
  /\ received' = received + 1
  /\ UNCHANGED <<clients, inMap, erasing, seq, rcvNum, rcvSeq,
                 handler, lossReport>>

\* The connection is read to its end: setOnErr removes the session, at once or,
\* while somebody iterates, in a task of its own.
EndOfStream(s) ==
  /\ ReceiverRuns /\ Idle
  /\ conn[s] = "closed" /\ air[s] = {} /\ s \in inMap \ erasing
  /\ \/ /\ ~onManager
        /\ Erase(s)
        /\ UNCHANGED erasing
     \/ /\ onManager
        /\ erasing' = erasing \cup {s}
        /\ UNCHANGED inMap
  /\ UNCHANGED <<clients, num, seq, counting, totals, handler, received,
                 lossReport>>

\* Mutant of EraseTask: the task does nothing.
EraseTask_Forgets(s) ==
  /\ ReceiverRuns /\ Idle /\ s \in erasing
  /\ erasing' = erasing \ {s}
  /\ UNCHANGED <<clients, inMap, num, seq, counting, totals, handler, history>>

EraseTask(s) ==
  /\ ReceiverRuns /\ Idle /\ s \in erasing
  /\ erasing' = erasing \ {s}
  /\ Erase(s)
  /\ UNCHANGED <<clients, num, seq, counting, totals, handler, received,
                 lossReport>>
-----------------------------------------------------------------------------
(* The loop thread: PressModel *)

\* Mutant of Collect: the counts of the sessions are not cleared.
Collect_NoClear ==
  /\ rcvNum' = rcvNum + Total(num, inMap)
  /\ rcvSeq' = Larger(rcvSeq, Total(seq, inMap))
  /\ UNCHANGED num

\* GetRcvInfo: the counts are added up and cleared, the sum of the indices is
\* kept where it is larger.
Collect ==
  /\ rcvNum' = rcvNum + Total(num, inMap)
  /\ rcvSeq' = Larger(rcvSeq, Total(seq, inMap))
  /\ num' = [s \in Sessions |-> IF s \in inMap THEN 0 ELSE num[s]]

\* The loss of UDP, printed from the totals just collected.  A report prints
\* its difference to the last report too, which is left out.
PrintLoss ==
  IF udp THEN lossReport' = [lost    |-> (rcvSeq' - rcvNum') % Word,
                             missing |-> Total(sent, Sessions) - received]
         ELSE UNCHANGED lossReport

\* GetRcvInfo of a TCP server resets the flag when it has iterated.
Period ==
  /\ Idle
  /\ Collect
  /\ fresh' = FALSE
  /\ onManager' = (onManager /\ udp)
  /\ UNCHANGED <<clients, inMap, erasing, seq, counting, todo, asking, curSeq,
                 received>>

\* onManagerModel on the timer of the reporter: it prints where there was any
\* speed.
Report ==
  /\ ReceiverRuns
  /\ Period
  /\ IF fresh THEN PrintLoss ELSE UNCHANGED lossReport
  /\ UNCHANGED main

\* The duration is over: onManagerModel goes on with prepare_exit, which
\* collects again (nothing can have come between) and prints the totals, and
\* the process exits.
DurationOver ==
  /\ main = "sleep"
  /\ Period
  /\ PrintLoss
  /\ main' = "gone"

\* TcpServer::onManagerSession: the sessions of a test have nothing to do, but
\* the flag is set and reset.
ManagerTimer ==
  /\ ReceiverRuns /\ Idle /\ ~udp
  /\ onManager' = FALSE
  /\ UNCHANGED <<clients, session, totals, main, todo, asking, curSeq, history>>
-----------------------------------------------------------------------------
(* The main thread: prepare_exit in the handler of SIGINT *)

BeginCollect ==
  /\ CtrlC /\ main = "sleep"
  /\ main' = "collect" /\ todo' = inMap /\ curSeq' = 0
  /\ onManager' = ~udp
  /\ UNCHANGED <<clients, session, totals, asking, history>>

\* GetPktNum loads the count ...
Ask(s) ==
  /\ main = "collect" /\ asking = Nothing /\ s \in todo \cap inMap
  /\ todo' = todo \ {s}
  /\ asking' = [of |-> s, load |-> num[s]]
  /\ UNCHANGED <<clients, session, totals, main, curSeq, onManager, history>>

\* ... and clears it; GetSeq follows.
Clear(s) ==
  /\ main = "collect" /\ asking.of = s
  /\ num' = [num EXCEPT ![s] = 0]
  /\ rcvNum' = rcvNum + asking.load
  /\ curSeq' = curSeq + seq[s]
  /\ asking' = Nothing
  /\ UNCHANGED <<clients, inMap, erasing, seq, counting, rcvSeq,
                 fresh, main, todo, onManager, history>>

\* The summary is printed and the process exits.
EndCollect ==
  /\ main = "collect" /\ asking = Nothing /\ todo \cap inMap = {}
  /\ rcvSeq' = Larger(rcvSeq, curSeq)
  /\ main' = "killed" /\ onManager' = FALSE /\ todo' = {}
  /\ UNCHANGED <<clients, session, rcvNum, fresh, asking,
                 curSeq, history>>
-----------------------------------------------------------------------------
ReceiverEnded == ~ReceiverRuns /\ UNCHANGED receiverVars

Loop == \/ Report \/ ManagerTimer
        \/ \E s \in Sessions :
             OnRecv(s) \/ CountPacket(s) \/ EndOfStream(s) \/ EraseTask(s)

ReceiverNext ==
  \/ \E s \in Sessions : Open(s) \/ SendPacket(s) \/ Close(s) \/ Lose(s)
  \/ Loop \/ DurationOver
  \/ BeginCollect \/ EndCollect
  \/ \E s \in Sessions : Ask(s) \/ Clear(s)
  \/ ReceiverEnded

ReceiverSpec == ReceiverInit /\ [][ReceiverNext]_receiverVars

\* epoll reports every socket with something to read, tasks posted are run (as
\* EventLoop shows), and timers fire; neither clients nor signals have to come.
Fairness ==
  \A s \in Sessions :
    /\ WF_receiverVars(OnRecv(s)) /\ WF_receiverVars(CountPacket(s))
    /\ SF_receiverVars(EndOfStream(s)) /\ SF_receiverVars(EraseTask(s))
ReceiverFairSpec == ReceiverSpec /\ Fairness
-----------------------------------------------------------------------------
Counts == 0..MaxPkts * Cardinality(Sessions)

ReceiverTypeOK ==
  /\ udp \in Protocols
  /\ conn \in [Sessions -> {"none", "open", "closed"}]
  /\ sent \in [Sessions -> 0..MaxPkts]
  /\ air \in [Sessions -> SUBSET (1..MaxPkts)]
  /\ inMap \subseteq Sessions /\ erasing \subseteq Sessions
  /\ num \in [Sessions -> 0..MaxPkts] /\ seq \in [Sessions -> 0..MaxPkts]
  /\ counting \in [of : Sessions, load : 0..MaxPkts] \cup {Nothing}
  /\ fresh \in BOOLEAN
  /\ rcvNum \in Nat /\ rcvSeq \in Counts
  /\ main \in {"sleep", "collect", "gone", "killed"}
  /\ todo \subseteq Sessions
  /\ asking \in [of : Sessions, load : 0..MaxPkts] \cup {Nothing}
  /\ curSeq \in Counts
  /\ onManager \in BOOLEAN
  /\ received \in Counts

\* Until Ctrl+C a packet is counted in one period: the total and what the
\* sessions, those released included, have counted since they were asked last
\* make up what was received; and at the end of a UDP test, all is in the total.
CountedOnce ==
  /\ main = "sleep" /\ Idle => rcvNum + Total(num, Sessions) = received
  /\ main = "gone" /\ udp => rcvNum = received

\* Packets are counted once and each counter stays in its range.
Counted == ReceiverTypeOK /\ CountedOnce

\* The loss printed never exceeds what the clients sent and no session
\* received, although packets are lost, late and out of order.
LossIsReal ==
  main \in {"sleep", "gone"} => lossReport.lost <= lossReport.missing

\* A session whose connection ended leaves the map, whoever was iterating when
\* its end was read and whichever thread put the flag back.
SessionsRemoved ==
  \A s \in Sessions : conn[s] = "closed" /\ s \in inMap
                      ~> s \notin inMap \/ ~ReceiverRuns

=============================================================================
