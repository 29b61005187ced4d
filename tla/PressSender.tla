----------------------------- MODULE PressSender -----------------------------
(***************************************************************************)
(* The sending side of a pressure test, over a socket (PressModel), raw    *)
(* frames (RawPressModel) or the npcap driver (NpcapPressModel).  The main *)
(* thread sends, the poller's thread reports at an interval and ends the   *)
(* test with the first report after its duration; a signal interrupts the  *)
(* main thread to end it, and so does a send that failed.  Raw and npcap   *)
(* processes receive as well, or only.                                     *)
(*                                                                         *)
(* Time is in ticks of a few milliseconds.  A thread that can run does so  *)
(* before the next tick, except that a send may take any time.             *)
(***************************************************************************)
EXTENDS Naturals, FiniteSets

CONSTANTS
  Modes,        \* of "tcp", "udp", "raw" and "npcap"
  Limits,       \* whether a bandwidth is given
  Window,       \* ticks of 100 ms, the window of the rate control
  Second,       \* ticks of a second, scaled down
  Intervals,    \* ticks between two reports: a second or more
  Duration,     \* seconds of the test
  Block,        \* bytes of a packet
  Budget,       \* bytes to send in a window, uBytep100ms
  Batch,        \* NPCAP_SEND_QUEUE_SIZE
  MaxFrames,    \* bound: packets after which no round is begun
  MaxRcv,       \* bound: packets of the other side
  MayFail       \* whether a send or the connection may fail

ASSUME SenderAssumption ==
  /\ Modes \subseteq {"tcp", "udp", "raw", "npcap"} /\ Limits \subseteq BOOLEAN
  /\ {Window, Second, Duration, Block, Budget, Batch} \subseteq Nat \ {0}
  /\ Window > 1 /\ Second > 2 * Window
  /\ Intervals \subseteq Nat /\ \A i \in Intervals : i >= Second
  /\ MaxFrames \in Nat /\ MaxRcv \in Nat /\ MayFail \in BOOLEAN

Threads == {"main", "poller"}

VARIABLES
  mode, limited,  \* the options of the test
  interval,       \* reporter_interval, a second when it is less
  now,            \* ticks since startmodel
  pc,             \* the place of each thread
  wake,           \* the end of the usleep each thread is in
  sending,        \* _bsending
  started,        \* _bStart
  window,         \* _ticker_ctl and curr_all_sndlen: [from, sent]
  count,          \* _client_snd_num
  wire,           \* packets the system took
  queue,          \* packets in npcap's send queue
  dropped,        \* packets of the queue whose transmission failed
  report,         \* when the timer fires next
  rcv,            \* the other side's packets: [seq, num, got], got history
  printed,        \* history: what each summary said
  signalled,      \* a signal came; one is enough
  exited          \* how the process ended: "no", "exit" or "lost"

options == <<mode, limited, interval>>
npcap == <<queue, dropped>>
threads == <<pc, wake>>
vars == <<options, now, threads, sending, started, window, count, wire, npcap,
          report, rcv, printed, signalled, exited>>

Goto(t, place) == pc' = [pc EXCEPT ![t] = place]
GotoAt(t, place, time) == Goto(t, place) /\ wake' = [wake EXCEPT ![t] = time]
Running == exited = "no"
-----------------------------------------------------------------------------
(* startmodel *)

StreamStart == /\ mode \in Modes \cap {"tcp", "udp"}
               /\ started = (mode = "udp")
RawStart   == mode \in Modes \cap {"raw"} /\ started = TRUE
NpcapStart == mode \in Modes \cap {"npcap"} /\ started = TRUE

Init ==
  /\ StreamStart \/ RawStart \/ NpcapStart
  /\ limited \in Limits /\ interval \in Intervals
  /\ now = 0
  /\ pc = [main |-> "start", poller |-> "idle"]
  /\ wake = [t \in Threads |-> 0]
  /\ sending = FALSE
  /\ window = [from |-> 0, sent |-> 0]
  /\ count = 0 /\ wire = 0 /\ queue = 0 /\ dropped = 0
  /\ report = interval
  /\ rcv = [seq |-> 0, num |-> 0, got |-> 0]
  /\ printed = {}
  /\ signalled = FALSE
  /\ exited = "no"

\* _bsending = true, then start_client_press.
Start ==
  /\ Running /\ pc["main"] = "start"
  /\ sending' = TRUE
  /\ Goto("main", "loop")
  /\ UNCHANGED <<options, now, wake, started, window, count, wire, npcap,
                 report, rcv, printed, signalled, exited>>

\* With a blksize of 0, raw and npcap processes only receive.
ReceiveOnly ==
  /\ Running /\ pc["main"] = "start" /\ mode \in {"raw", "npcap"}
  /\ Goto("main", "wait")
  /\ UNCHANGED <<options, now, wake, sending, started, window, count, wire, npcap,
                 report, rcv, printed, signalled, exited>>

\* The callback of setOnCon.
Connected ==
  /\ Running /\ ~started /\ pc["poller"] = "idle"
  /\ \/ started' = TRUE /\ UNCHANGED threads
     \/ MayFail /\ GotoAt("poller", "lost", now + Window) /\ UNCHANGED started
  /\ UNCHANGED <<options, now, sending, window, count, wire, npcap, report, rcv,
                 printed, signalled, exited>>

\* PressClient::onError: the process is left after 100 ms.
ConnectionEnds ==
  /\ Running /\ MayFail /\ mode = "tcp" /\ started /\ pc["poller"] = "idle"
  /\ GotoAt("poller", "lost", now + Window)
  /\ UNCHANGED <<options, now, sending, started, window, count, wire, npcap,
                 report, rcv, printed, signalled, exited>>
-----------------------------------------------------------------------------
(* start_client_press *)

\* Mutant of NextRound: the window is not begun anew.
NextRound_NoReset ==
  /\ Running /\ pc["main"] = "loop" /\ sending /\ started /\ count < MaxFrames
  /\ window' = IF limited THEN [window EXCEPT !.sent = 0] ELSE window
  /\ Goto("main", "send")
  /\ UNCHANGED <<options, now, wake, sending, started, count, wire, npcap,
                 report, rcv, printed, signalled, exited>>

\* while(_bsending): with a limit, _ticker_ctl begins a new window.
NextRound ==
  /\ Running /\ pc["main"] = "loop" /\ sending /\ started /\ count < MaxFrames
  /\ window' = IF limited THEN [from |-> now, sent |-> 0] ELSE window
  /\ Goto("main", "send")
  /\ UNCHANGED <<options, now, wake, sending, started, count, wire, npcap,
                 report, rcv, printed, signalled, exited>>

\* A packet the system took is counted by a later step.
Handed(sock) == /\ Running /\ pc["main"] = "send" /\ mode \in sock
                /\ Goto("main", "count")
                /\ UNCHANGED <<options, now, wake, sending, started, window,
                               count, report, rcv, printed, signalled, exited>>

SendStream == Handed({"tcp", "udp"}) /\ wire' = wire + 1 /\ UNCHANGED npcap
SendRaw == Handed({"raw"}) /\ wire' = wire + 1 /\ UNCHANGED npcap
PushNpcapSendQue == Handed({"npcap"}) /\ queue' = queue + 1 /\ UNCHANGED <<wire, dropped>>

SendFails ==
  /\ Running /\ MayFail /\ pc["main"] = "send"
  /\ Goto("main", "stop")
  /\ UNCHANGED <<options, now, wake, sending, started, window, count, wire,
                 npcap, report, rcv, printed, signalled, exited>>

Count ==
  /\ Running /\ pc["main"] = "count"
  /\ count' = count + 1
  /\ window' = [window EXCEPT !.sent = @ + Block]
  /\ Goto("main", IF mode = "npcap" /\ queue >= Batch THEN "transmit" ELSE "check")
  /\ UNCHANGED <<options, now, wake, sending, started, wire, npcap, report, rcv,
                 printed, signalled, exited>>

\* pcap_sendqueue_transmit; a failure is logged, and the queue is emptied anyway.
Transmit == /\ queue' = 0
            /\ \/ wire' = wire + queue /\ UNCHANGED dropped
               \/ MayFail /\ dropped' = dropped + queue /\ UNCHANGED wire

SendQueToAdPure ==
  /\ Running /\ pc["main"] = "transmit"
  /\ Transmit
  /\ Goto("main", "check")
  /\ UNCHANGED <<options, now, wake, sending, started, window, count, report,
                 rcv, printed, signalled, exited>>

\* The window is over, or its bytes are sent and the rest of it is slept.
Check ==
  /\ Running /\ pc["main"] = "check"
  /\ LET used == now - window.from IN
     CASE ~limited \/ used >= Window -> Goto("main", "loop") /\ UNCHANGED wake
       [] limited /\ used < Window /\ window.sent >= Budget ->
            GotoAt("main", "sleep", now + (Window - used - 1))
       [] OTHER -> Goto("main", "send") /\ UNCHANGED wake
  /\ UNCHANGED <<options, now, sending, started, window, count, wire, npcap,
                 report, rcv, printed, signalled, exited>>

Woken ==
  /\ Running /\ pc["main"] = "sleep" /\ now >= wake["main"]
  /\ Goto("main", "loop")
  /\ UNCHANGED <<options, now, wake, sending, started, window, count, wire,
                 npcap, report, rcv, printed, signalled, exited>>

\* _bsending is false: PressModel leaves startmodel and waits for a signal,
\* RawPressModel would start over after a second (EndsOnTime: it never gets there),
\* NpcapPressModel sends what is left in the queue
\* (which it does not clear, but nothing is sent after that).
LeaveStream ==
  /\ mode \in {"tcp", "udp"} /\ Goto("main", "wait") /\ UNCHANGED <<wire, npcap, wake>>
LeaveRaw ==
  /\ mode = "raw" /\ GotoAt("main", "pause", now + Second) /\ UNCHANGED <<wire, npcap>>
LeaveNpcap ==
  /\ mode = "npcap" /\ Goto("main", "wait")
  /\ Transmit /\ UNCHANGED wake

Leave ==
  /\ Running /\ pc["main"] = "loop" /\ ~sending
  /\ LeaveStream \/ LeaveRaw \/ LeaveNpcap
  /\ UNCHANGED <<options, now, sending, started, window, count, report, rcv,
                 printed, signalled, exited>>

-----------------------------------------------------------------------------
(* The other side's packets (raw and npcap): the largest index, then the count *)

Receive ==
  /\ Running /\ mode \in {"raw", "npcap"}
  /\ pc["poller"] = "idle" \/ mode = "npcap"   \* npcap has a thread to receive
  /\ mode = "npcap" =>                         \* StopRecvFromAdapter
       \A t \in Threads : pc[t] \notin {"summary", "exit"}
  /\ rcv.num = rcv.got
  /\ \E n \in (rcv.seq + 1)..MaxRcv : rcv' = [rcv EXCEPT !.seq = n, !.got = @ + 1]
  /\ UNCHANGED <<options, now, threads, sending, started, window, count, wire,
                 npcap, report, printed, signalled, exited>>

CountReceived ==
  /\ Running /\ rcv.num < rcv.got
  /\ rcv' = [rcv EXCEPT !.num = @ + 1]
  /\ UNCHANGED <<options, now, threads, sending, started, window, count, wire,
                 npcap, report, printed, signalled, exited>>
-----------------------------------------------------------------------------
(* The end of a test *)

\* Mutant of OnManagerModel: the last second is not over.
OnManagerModel_Later ==
  /\ Running /\ pc["poller"] = "idle" /\ now >= report
  /\ rcv.num = rcv.got \/ mode = "npcap"
  /\ report' = now + interval
  /\ IF now \div Second > Duration
     THEN Goto("poller", "stop") ELSE UNCHANGED pc
  /\ UNCHANGED <<options, now, wake, sending, started, window, count, wire,
                 npcap, rcv, printed, signalled, exited>>

\* onManagerModel: the report, prepare_exit when the duration is over.  Nothing
\* else looks at the duration.
OnManagerModel ==
  /\ Running /\ pc["poller"] = "idle" /\ now >= report
  /\ rcv.num = rcv.got \/ mode = "npcap"
  /\ report' = now + interval
  /\ IF now \div Second >= Duration
     THEN Goto("poller", "stop") ELSE UNCHANGED pc
  /\ UNCHANGED <<options, now, wake, sending, started, window, count, wire,
                 npcap, rcv, printed, signalled, exited>>

Ending == {"stop", "summary", "exit"}

\* sigend_handler_abort, wherever the main thread is: it does not go back there.
Signal ==
  /\ Running /\ pc["main"] \notin Ending
  /\ Goto("main", "stop")
  /\ UNCHANGED <<options, now, wake, sending, started, window, count, wire,
                 npcap, report, rcv, printed, signalled, exited>>

\* Mutant of Stop: the flag is left alone.
Stop_KeepsSending(t) ==
  /\ Running /\ pc[t] = "stop"
  /\ GotoAt(t, "summary", now + Window)
  /\ UNCHANGED <<options, now, sending, started, window, count, wire, npcap,
                 report, rcv, printed, signalled, exited>>

\* prepare_exit stops the sender and waits 100 ms,
Stop(t) ==
  /\ Running /\ pc[t] = "stop"
  /\ sending' = FALSE
  /\ GotoAt(t, "summary", now + Window)
  /\ UNCHANGED <<options, now, started, window, count, wire, npcap, report, rcv,
                 printed, signalled, exited>>

\* then prints the totals, and its caller waits another 100 ms
Summary(t) ==
  /\ Running /\ pc[t] = "summary" /\ now >= wake[t]
  /\ printed' = printed \cup {[by |-> t, sent |-> count, lost |-> rcv.seq - rcv.num]}
  /\ GotoAt(t, "exit", now + Window)
  /\ UNCHANGED <<options, now, sending, started, window, count, wire, npcap,
                 report, rcv, signalled, exited>>

\* before it leaves the process.
Exit(t) ==
  /\ Running /\ pc[t] \in {"exit", "lost"} /\ now >= wake[t]
  /\ exited' = pc[t]
  /\ UNCHANGED <<options, now, threads, sending, started, window, count, wire,
                 npcap, report, rcv, printed, signalled>>
-----------------------------------------------------------------------------
(* Time *)

\* A thread that can go on does so before the next tick.  A socket may take its
\* time to send a packet; npcap's queue is memory.
Ready(t) ==
  \/ pc[t] \in {"start", "count", "transmit", "check", "stop"}
  \/ pc[t] = "send" /\ mode = "npcap"
  \/ pc[t] = "loop" /\ (~sending \/ (started /\ count < MaxFrames))
  \/ pc[t] \in {"sleep", "summary", "exit", "lost"} /\ now >= wake[t]
  \/ pc[t] = "idle" /\ now >= report

Tick ==
  /\ Running /\ rcv.num = rcv.got /\ \A t \in Threads : ~Ready(t)
  /\ now' = now + 1
  /\ UNCHANGED <<options, threads, sending, started, window, count, wire, npcap,
                 report, rcv, printed, signalled, exited>>

Ended == ~Running /\ UNCHANGED vars

Main == \/ Start \/ ReceiveOnly \/ NextRound \/ SendStream \/ SendRaw \/ PushNpcapSendQue
        \/ SendFails \/ Count \/ SendQueToAdPure \/ Check \/ Woken
        \/ Leave \/ Signal
Poller == Connected \/ ConnectionEnds \/ Receive \/ CountReceived \/ OnManagerModel
Next == \/ Main \/ Poller \/ Tick \/ Ended
        \/ \E t \in Threads : Stop(t) \/ Summary(t) \/ Exit(t)

Spec == Init /\ [][Next]_vars
-----------------------------------------------------------------------------
(* Properties *)

Packets == 0..(MaxFrames + Budget)

TypeOK ==
  /\ mode \in Modes /\ limited \in Limits /\ interval \in Intervals /\ now \in Nat
  /\ pc \in [Threads -> {"start", "loop", "send", "count", "transmit", "check",
                         "sleep", "pause", "wait", "idle", "stop", "summary",
                         "exit", "lost"}]
  /\ wake \in [Threads -> Nat]
  /\ sending \in BOOLEAN /\ started \in BOOLEAN /\ signalled \in BOOLEAN
  /\ window \in [from : Nat, sent : Nat]
  /\ count \in Packets /\ wire \in Packets /\ queue \in 0..Batch
  /\ dropped \in Packets /\ report \in Nat
  /\ rcv \in [seq : 0..MaxRcv, num : 0..MaxRcv, got : 0..MaxRcv]
  /\ printed \subseteq [by : Threads, sent : Packets, lost : 0..MaxRcv]
  /\ exited \in {"no", "exit", "lost"}

\* What the system or npcap's queue has taken.
Taken == wire + queue + dropped

\* The sums printed at the end are those of the test.  A packet is counted when
\* the system took it, and the handler of a signal meets at most one that is not
\* counted yet.  What is sent while or after the totals are printed is one
\* packet at most, whichever thread ends the test and although the loop of a
\* limited test does not look at _bsending.  A test npcap sent for its whole
\* duration has sent what it counted, the rest of the queue too, but for what
\* the driver failed to transmit.  The loss
\* counts at most the packet whose onRecv the handler came in between.
TotalsAreTrue ==
  /\ TypeOK
  /\ Taken - count \in 0..1
  /\ \A p \in printed :
       /\ p.sent \in (Taken - 1)..Taken
       /\ p.lost <= rcv.seq - rcv.got
                    + (IF mode = "raw" /\ p.by = "main" THEN 1 ELSE 0)
       /\ p.by = "poller" /\ pc["main"] \notin Ending => p.sent <= wire + dropped

\* Over any time from the start, a limited test sends no more than its windows
\* allow: each lasts 100 ms but for the last one that is not slept, and ends
\* with the packet that reaches its bytes.
BandwidthHeld ==
  limited => count * Block <= (now \div (Window - 1) + 1) * (Budget + Block - 1)

\* The first report that finds the duration over.
LastReport == ((Duration * Second + interval - 1) \div interval) * interval

\* The process ends with the first report after the duration, the totals printed,
\* whatever the sender is waiting for: a connect, a blocked send, the window.
\* The raw sender, which starts over a second after it was stopped, does not.
EndsOnTime ==
  Running => /\ now <= LastReport + 2 * Window
             /\ pc["main"] = "pause" => now < wake["main"]
=============================================================================
