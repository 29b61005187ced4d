------------------------------ MODULE PressProofs ------------------------------
(***************************************************************************)
(* What both sides of a pressure test guarantee.  The sender, for any      *)
(* options, windows, durations, packet sizes and faults: its sums are      *)
(* true, its bandwidth is held, and it ends on time.  The receiver, for    *)
(* any number of sessions and packets, lost and reordered as they may be:  *)
(* every packet is counted once, and the loss it prints is real.           *)
(***************************************************************************)
EXTENDS PressSender, PressTest, FiniteSetTheorems, WellFoundedInduction, TLAPS

USE DEF options, npcap, threads

(* The sender: the inductive invariant. *)

InLoop == {"loop", "send", "count", "transmit", "check", "sleep"}

\* A packet the system took is counted next, unless a signal comes in between.
Sums ==
  /\ Taken \in {count, count + 1}
  /\ pc["main"] \notin Ending =>
       Taken = count + (IF pc["main"] = "count" THEN 1 ELSE 0)

\* A round goes on only below its budget, and every packet uses some of it.
Frames ==
  /\ Taken <= MaxFrames + Budget
  /\ pc["main"] = "start" => count = 0
  /\ ~limited /\ pc["main"] \in {"send", "count"} => count < MaxFrames
  /\ limited /\ pc["main"] \in {"send", "count"} => window.sent < Budget
  /\ limited /\ pc["main"] \in {"send", "count", "transmit", "check"} =>
       count < MaxFrames + window.sent
  /\ limited => window.sent <= Budget + Block - 1

\* npcap's queue is emptied when it is full, and at the end.
Queue ==
  /\ mode # "npcap" => queue = 0
  /\ pc["main"] \in {"start", "loop", "send", "check", "sleep"} => queue < Batch
  /\ pc["main"] \in {"start", "wait"} => queue = 0
  /\ pc["main"] = "pause" => mode = "raw"
  /\ pc["poller"] \in {"idle", "lost"} \cup Ending
  /\ pc["main"] \notin {"idle", "lost"}

\* The largest index, then the count.
Received ==
  /\ rcv.num <= rcv.got /\ rcv.got <= rcv.num + 1 /\ rcv.got <= rcv.seq
  /\ mode \notin {"raw", "npcap"} => rcv.num = rcv.got
  /\ mode = "raw" /\ pc["poller"] \in Ending => rcv.num = rcv.got
  /\ mode = "npcap" => \A t \in Threads :
       pc[t] = "summary" /\ now >= wake[t] => rcv.num = rcv.got

\* Once it was stopped the sender begins no round.
Stopped ==
  /\ \A t \in Threads : pc[t] \in {"summary", "exit"} => ~sending
  /\ pc["main"] = "start" => now = 0 /\ pc["poller"] \notin Ending
  /\ ~sending => pc["main"] \in {"start", "wait"} \cup Ending
                 \/ pc["poller"] \in {"summary", "exit"}

\* The poller's thread is never late, and leaves when the duration is over.
Timed ==
  /\ \E k \in Nat \ {0} : report = k * interval
  /\ pc["poller"] = "idle" => now <= report /\ report <= LastReport
  /\ pc["poller"] = "stop" => now <= LastReport
  /\ pc["poller"] \in {"summary", "exit", "lost"} =>
       now <= wake["poller"] /\ wake["poller"] <= now + Window
  /\ pc["poller"] \in {"summary", "lost"} =>
       wake["poller"] <= LastReport + Window
  /\ pc["poller"] = "exit" => wake["poller"] <= LastReport + 2 * Window

\* The window the sender was stopped in is over before the totals are printed.
WindowOver ==
  /\ window.from <= now
  /\ pc["poller"] = "summary" => window.from + Window <= wake["poller"]
  /\ pc["poller"] = "exit" => window.from + Window <= now
  /\ pc["main"] = "sleep" => limited /\ wake["main"] = window.from + Window - 1
  /\ limited /\ pc["main"] = "loop" => count = 0 \/ now >= window.from + Window - 1

\* A raw sender that paused is not done with it when the process ends.
Paused ==
  pc["main"] = "pause" =>
    \/ pc["poller"] = "summary" /\ wake["poller"] + Window < wake["main"]
    \/ pc["poller"] = "exit" /\ wake["poller"] < wake["main"]

\* npcap's sender has sent the rest of its queue before the totals are printed.
Drained ==
  /\ mode = "npcap" /\ pc["poller"] = "summary" /\ pc["main"] \in InLoop =>
       now < wake["poller"] /\ (pc["main"] = "sleep" => wake["main"] < wake["poller"])
  /\ mode = "npcap" /\ pc["poller"] = "exit" => pc["main"] \in {"wait"} \cup Ending

\* What was printed is what was sent, but for the packet a blocked send holds.
Printed ==
  \A p \in printed :
    /\ p.by = "poller" => pc["poller"] = "exit"
    /\ p.by = "main" => pc["main"] = "exit"
    /\ p.sent <= Taken /\ Taken <= p.sent + 1
    /\ p.by = "poller" /\ pc["main"] = "send" => p.sent = Taken
    /\ p.lost + rcv.got <= rcv.seq + (IF mode = "raw" /\ p.by = "main" THEN 1 ELSE 0)

\* Every window but the last one took its ticks, and sent its budget at most.
Rate ==
  limited => \E r \in Nat : /\ r * (Window - 1) <= window.from
                            /\ count * Block <= r * (Budget + Block - 1) + window.sent

IInv == /\ TypeOK /\ Sums /\ Frames /\ Queue /\ Received /\ Stopped
        /\ Timed /\ WindowOver /\ Paused /\ Drained /\ Printed /\ Rate

-----------------------------------------------------------------------------
(* What the assumption says, a number at a time. *)

LEMMA Numbers ==
  /\ Window \in Nat /\ Window > 1
  /\ Second \in Nat /\ Second > 2 * Window
  /\ \A i \in Intervals : i \in Nat \ {0}
  /\ Duration \in Nat \ {0} /\ Block \in Nat \ {0} /\ Budget \in Nat \ {0}
  /\ Batch \in Nat \ {0}
  /\ MaxFrames \in Nat /\ MaxRcv \in Nat /\ MayFail \in BOOLEAN
  BY SenderAssumption

LEMMA OneRound ==
  ASSUME NEW d \in Nat \ {0}, NEW s \in Nat PROVE s <= d * s
  BY SMT

LEMMA ProductIsMonotone ==
  ASSUME NEW a \in Nat, NEW c \in Nat, NEW b \in Nat, a <= c PROVE a * b <= c * b
<1>1. PICK d \in Nat : c = a + d
  <2>1. c - a \in Nat /\ c = a + (c - a)
    OBVIOUS
  <2> QED  BY <2>1
<1>2. c * b = a * b + d * b /\ d * b \in Nat /\ a * b \in Nat
  BY <1>1, SMT
<1> QED  BY <1>2

\* The first round of i ticks to reach a.
LEMMA FirstRoundAfter ==
  ASSUME NEW a \in Nat \ {0}, NEW i \in Nat \ {0}
  PROVE  LET c == (a + i - 1) \div i
         IN  /\ c \in Nat /\ c * i \in Nat /\ a <= c * i
             /\ \A k \in Nat : k * i < a => (k + 1) * i <= c * i
<1> DEFINE c == (a + i - 1) \div i
<1>1. c \in Nat /\ i * c <= a + i - 1 /\ a + i - 1 < i * c + i
  BY SMT
<1> HIDE DEF c
<1>2. c * i = i * c /\ c * i \in Nat
  BY <1>1, SMT
<1>3. a <= c * i
  BY <1>1, <1>2
<1>4. ASSUME NEW k \in Nat, k * i < a PROVE (k + 1) * i <= c * i
  <2>1. k < c
    <3>1. SUFFICES ASSUME c <= k PROVE FALSE
      BY <1>1
    <3>2. c * i <= k * i
      BY <1>1, <3>1, ProductIsMonotone
    <3>3. k * i \in Nat
      BY SMT
    <3> QED  BY <1>2, <1>3, <1>4, <3>2, <3>3
  <2> QED  BY <1>1, <2>1, ProductIsMonotone
<1> QED  BY <1>1, <1>2, <1>3, <1>4 DEF c

LEMMA LastReportIsReached ==
  ASSUME interval \in Intervals
  PROVE  /\ LastReport \in Nat /\ Duration * Second <= LastReport
         /\ interval <= LastReport
         /\ \A k \in Nat : k * interval < Duration * Second => (k + 1) * interval <= LastReport
<1>1. Duration * Second \in Nat \ {0} /\ interval \in Nat \ {0}
  BY Numbers, SMT
<1>2. /\ LastReport \in Nat /\ Duration * Second <= LastReport
      /\ \A k \in Nat : k * interval < Duration * Second => (k + 1) * interval <= LastReport
  BY <1>1, FirstRoundAfter DEF LastReport
<1>3. 0 * interval < Duration * Second /\ (0 + 1) * interval = interval
  BY <1>1
<1> QED  BY <1>2, <1>3

LEMMA InitIInv == Init => IInv
<1> SUFFICES ASSUME Init PROVE IInv
  OBVIOUS
<1> USE Numbers
<1>1. TypeOK
  <2>1. pc \in [Threads -> {"start", "idle"}]
    BY DEF Init, Threads
  <2>2. mode \in Modes /\ limited \in Limits /\ interval \in Intervals /\ started \in BOOLEAN
    BY DEF Init, StreamStart, RawStart, NpcapStart
  <2>3. wake \in [Threads -> Nat] /\ window \in [from : Nat, sent : Nat]
    BY DEF Init
  <2>4. rcv \in [seq : 0..MaxRcv, num : 0..MaxRcv, got : 0..MaxRcv]
    BY DEF Init
  <2>5. /\ count \in Packets /\ wire \in Packets /\ queue \in 0..Batch
        /\ dropped \in Packets /\ report \in Nat /\ now \in Nat
    BY DEF Init, Packets
  <2> QED  BY <2>1, <2>2, <2>3, <2>4, <2>5 DEF Init, TypeOK
<1>2. Sums /\ Frames /\ Queue
  BY DEF Init, StreamStart, RawStart, NpcapStart, Sums, Frames, Queue, Taken, Ending
<1>3. Received /\ Stopped
  BY DEF Init, StreamStart, RawStart, NpcapStart, Received, Stopped, Threads, Ending
<1>4. Timed
  <2>1. interval \in Intervals
    BY DEF Init
  <2>2. interval = 1 * interval /\ interval <= LastReport /\ 1 \in Nat \ {0}
    BY <2>1, LastReportIsReached
  <2>3. report = interval /\ now = 0 /\ pc["poller"] = "idle"
    BY DEF Init
  <2> QED  BY <2>1, <2>2, <2>3 DEF Timed
<1>5. WindowOver /\ Paused /\ Drained /\ Printed
  BY DEF Init, WindowOver, Paused, Drained, Printed, InLoop, Ending
<1>6. Rate
  BY DEF Init, Rate
<1> QED  BY <1>1, <1>2, <1>3, <1>4, <1>5, <1>6 DEF IInv
-----------------------------------------------------------------------------
(* Types *)

Places == {"start", "loop", "send", "count", "transmit", "check", "sleep", "pause",
           "wait", "idle", "stop", "summary", "exit", "lost"}

\* Where a thread goes, and until when it sleeps there, are typed.
LEMMA GotoTypes ==
  ASSUME pc \in [Threads -> Places], NEW t \in Threads, NEW p \in Places, Goto(t, p)
  PROVE  pc' \in [Threads -> Places]
  BY DEF Goto

LEMMA GotoAtTypes ==
  ASSUME pc \in [Threads -> Places], wake \in [Threads -> Nat], NEW t \in Threads,
         NEW p \in Places, NEW n \in Nat, GotoAt(t, p, n)
  PROVE  pc' \in [Threads -> Places] /\ wake' \in [Threads -> Nat]
  BY DEF Goto, GotoAt

LEMMA TypeNext ==
  ASSUME TypeOK, Sums, Frames, Queue, Received, Next PROVE TypeOK'
<1> USE Numbers
<1>0. /\ "main" \in Threads /\ "poller" \in Threads
      /\ pc \in [Threads -> Places] /\ wake \in [Threads -> Nat]
  BY DEF TypeOK, Threads, Places
<1>1. CASE Start \/ ReceiveOnly \/ NextRound \/ SendFails \/ Signal \/ Woken
  <2>1. \E p \in Places : Goto("main", p)
    BY <1>1 DEF Start, ReceiveOnly, NextRound, SendFails, Signal, Woken, Places
  <2>2. pc' \in [Threads -> Places]
    BY <1>0, <2>1, GotoTypes
  <2>3. window' \in [from : Nat, sent : Nat]
    BY <1>1 DEF TypeOK, Start, ReceiveOnly, NextRound, SendFails, Signal, Woken
  <2>4. CASE Start \/ ReceiveOnly \/ NextRound
    BY <2>2, <2>3, <2>4 DEF TypeOK, Places, Start, ReceiveOnly, NextRound
  <2>5. CASE SendFails \/ Signal \/ Woken
    BY <2>2, <2>5 DEF TypeOK, Places, SendFails, Signal, Woken
  <2> QED  BY <1>1, <2>4, <2>5
<1>10. CASE Check
  BY <1>10 DEF TypeOK, Threads, Check, Goto, GotoAt
<1>2. CASE SendStream \/ SendRaw \/ PushNpcapSendQue
  BY <1>2 DEF TypeOK, Threads, SendStream, SendRaw, PushNpcapSendQue, Handed, Goto,
     Packets, Sums, Frames, Queue, Taken, Ending
<1>3. CASE Count
  BY <1>3 DEF TypeOK, Threads, Count, Goto, Packets, Sums, Frames, Taken, Ending
<1>4. CASE SendQueToAdPure \/ Leave
  BY <1>4 DEF TypeOK, Threads, SendQueToAdPure, Leave, LeaveStream, LeaveRaw,
     LeaveNpcap, Transmit, Goto, GotoAt, Packets, Frames, Taken
<1>5. CASE Connected \/ ConnectionEnds
  <2>1. now + Window \in Nat
    BY DEF TypeOK
  <2>2. UNCHANGED threads \/ GotoAt("poller", "lost", now + Window)
    BY <1>5 DEF Connected, ConnectionEnds
  <2>3. pc' \in [Threads -> Places] /\ wake' \in [Threads -> Nat]
    BY <1>0, <2>1, <2>2, GotoAtTypes DEF Places
  <2> QED  BY <1>5, <2>3 DEF TypeOK, Places, Connected, ConnectionEnds
<1>11. CASE OnManagerModel
  BY <1>11 DEF TypeOK, Threads, OnManagerModel, Goto
<1>12. CASE Tick
  BY <1>12 DEF TypeOK, Tick
<1>6. CASE Receive
  <2>1. PICK n \in (rcv.seq + 1)..MaxRcv : rcv' = [rcv EXCEPT !.seq = n, !.got = @ + 1]
    BY <1>6 DEF Receive
  <2>2. /\ rcv \in [seq : 0..MaxRcv, num : 0..MaxRcv, got : 0..MaxRcv]
        /\ rcv.got <= rcv.seq
    BY DEF TypeOK, Received
  <2>3. n \in 0..MaxRcv /\ rcv.got + 1 \in 0..MaxRcv
    BY <2>1, <2>2
  <2>4. rcv' \in [seq : 0..MaxRcv, num : 0..MaxRcv, got : 0..MaxRcv]
    BY <2>1, <2>2, <2>3
  <2> QED  BY <1>6, <2>4 DEF TypeOK, Receive
<1>13. CASE CountReceived
  BY <1>13 DEF TypeOK, CountReceived, Received
<1>7. ASSUME NEW t \in Threads, Stop(t) PROVE TypeOK'
  <2>1. now + Window \in Nat /\ "summary" \in Places
    BY DEF TypeOK, Places
  <2>2. pc' \in [Threads -> Places] /\ wake' \in [Threads -> Nat]
    BY <1>0, <1>7, <2>1, GotoAtTypes DEF Stop
  <2> QED  BY <1>7, <2>2 DEF TypeOK, Places, Stop
<1>14. ASSUME NEW t \in Threads, Exit(t) PROVE TypeOK'
  BY <1>14 DEF TypeOK, Exit
<1>8. ASSUME NEW t \in Threads, Summary(t) PROVE TypeOK'
  BY <1>8 DEF TypeOK, Threads, Summary, GotoAt, Goto, Received
<1>9. CASE Ended
  BY <1>9 DEF TypeOK, Ended, vars
<1> QED  BY <1>1, <1>2, <1>3, <1>4, <1>5, <1>6, <1>7, <1>8, <1>9,
            <1>10, <1>11, <1>12, <1>13, <1>14
         DEF Next, Main, Poller

-----------------------------------------------------------------------------
(* What each thread does to the sums. *)

LEMMA SumsNext ==
  ASSUME TypeOK, Sums, Queue, Next PROVE Sums'
<1> USE DEF TypeOK, Threads, Packets, Sums, Taken, Ending, Goto, GotoAt
<1>1. CASE Start \/ ReceiveOnly \/ NextRound
  BY <1>1 DEF Start, ReceiveOnly, NextRound
<1>2. CASE SendFails \/ Signal \/ Woken
  BY <1>2 DEF SendFails, Signal, Woken
<1>3. CASE SendStream \/ SendRaw \/ PushNpcapSendQue
  BY <1>3 DEF SendStream, SendRaw, PushNpcapSendQue, Handed
<1>4. CASE Count
  BY <1>4 DEF Count
<1>5. CASE Check
  BY <1>5 DEF Check
<1>6. CASE SendQueToAdPure \/ Leave
  BY <1>6 DEF SendQueToAdPure, Leave, LeaveStream, LeaveRaw, LeaveNpcap, Transmit, Packets
<1>7. CASE Poller
  BY <1>7 DEF Poller, Connected, ConnectionEnds, OnManagerModel, Receive, CountReceived
<1>8. ASSUME NEW t \in Threads, Stop(t) \/ Summary(t) \/ Exit(t) PROVE Sums'
  BY <1>8 DEF Stop, Summary, Exit
<1>9. CASE Tick \/ Ended
  BY <1>9 DEF Tick, Ended, vars
<1> QED  BY <1>1, <1>2, <1>3, <1>4, <1>5, <1>6, <1>7, <1>8, <1>9 DEF Next, Main

LEMMA FramesNext ==
  ASSUME TypeOK, Sums, Frames, Queue, Next PROVE Frames'
<1> USE Numbers DEF TypeOK, Threads, Packets, Frames, Taken, Goto, GotoAt
<1>1. CASE Start \/ ReceiveOnly \/ NextRound
  BY <1>1 DEF Start, ReceiveOnly, NextRound
<1>2. CASE SendFails \/ Signal \/ Woken
  BY <1>2 DEF SendFails, Signal, Woken
<1>3. CASE SendStream \/ SendRaw \/ PushNpcapSendQue
  BY <1>3 DEF SendStream, SendRaw, PushNpcapSendQue, Handed, Sums, Ending
<1>4. CASE Count
  BY <1>4 DEF Count
<1>5. CASE Check
  BY <1>5 DEF Check
<1>6. CASE SendQueToAdPure \/ Leave
  BY <1>6 DEF SendQueToAdPure, Leave, LeaveStream, LeaveRaw, LeaveNpcap, Transmit, Packets
<1>7. CASE Connected \/ ConnectionEnds
  BY <1>7 DEF Connected, ConnectionEnds
<1>10. CASE OnManagerModel
  BY <1>10 DEF OnManagerModel
<1>11. CASE Receive
  BY <1>11 DEF Receive
<1>12. CASE CountReceived
  BY <1>12 DEF CountReceived
<1>8. ASSUME NEW t \in Threads, Stop(t) \/ Summary(t) \/ Exit(t) PROVE Frames'
  BY <1>8 DEF Stop, Summary, Exit
<1>9. CASE Tick \/ Ended
  BY <1>9 DEF Tick, Ended, vars
<1> QED  BY <1>1, <1>2, <1>3, <1>4, <1>5, <1>6, <1>7, <1>8, <1>9,
            <1>10, <1>11, <1>12 DEF Next, Main, Poller

LEMMA QueueNext ==
  ASSUME TypeOK, Queue, Next PROVE Queue'
<1> USE Numbers DEF TypeOK, Threads, Queue, Goto, GotoAt, Ending
<1>1. CASE Start \/ ReceiveOnly \/ NextRound
  BY <1>1 DEF Start, ReceiveOnly, NextRound
<1>2. CASE SendFails \/ Signal \/ Woken
  BY <1>2 DEF SendFails, Signal, Woken
<1>3. CASE SendStream \/ SendRaw \/ PushNpcapSendQue
  BY <1>3 DEF SendStream, SendRaw, PushNpcapSendQue, Handed
<1>4. CASE Count
  BY <1>4 DEF Count
<1>5. CASE Check
  BY <1>5 DEF Check
<1>6. CASE SendQueToAdPure \/ Leave
  BY <1>6 DEF SendQueToAdPure, Leave, LeaveStream, LeaveRaw, LeaveNpcap, Transmit, Packets
<1>7. CASE Poller
  BY <1>7 DEF Poller, Connected, ConnectionEnds, OnManagerModel, Receive, CountReceived
<1>8. ASSUME NEW t \in Threads, Stop(t) \/ Summary(t) \/ Exit(t) PROVE Queue'
  BY <1>8 DEF Stop, Summary, Exit
<1>9. CASE Tick \/ Ended
  BY <1>9 DEF Tick, Ended, vars
<1> QED  BY <1>1, <1>2, <1>3, <1>4, <1>5, <1>6, <1>7, <1>8, <1>9 DEF Next, Main

LEMMA ReceivedNext ==
  ASSUME TypeOK, Received, Stopped, Queue, Next PROVE Received'
<1> USE Numbers DEF TypeOK, Threads, Received, Goto, GotoAt, Ending
<1>1. CASE Start \/ ReceiveOnly \/ NextRound
  BY <1>1 DEF Start, ReceiveOnly, NextRound
<1>2. CASE SendFails \/ Signal \/ Woken
  BY <1>2 DEF SendFails, Signal, Woken
<1>3. CASE SendStream \/ SendRaw \/ PushNpcapSendQue
  BY <1>3 DEF SendStream, SendRaw, PushNpcapSendQue, Handed
<1>4. CASE Count
  BY <1>4 DEF Count
<1>5. CASE Check
  BY <1>5 DEF Check
<1>6. CASE SendQueToAdPure
  BY <1>6 DEF SendQueToAdPure, Transmit
<1>7. CASE Leave
  BY <1>7 DEF Leave, LeaveStream, LeaveRaw, LeaveNpcap
<1>8. CASE Connected \/ ConnectionEnds
  BY <1>8 DEF Connected, ConnectionEnds
<1>9. CASE OnManagerModel
  BY <1>9 DEF OnManagerModel
<1>10. CASE Receive
  BY <1>10 DEF Receive, Stopped
<1>11. CASE CountReceived
  BY <1>11 DEF CountReceived
<1>12. ASSUME NEW t \in Threads, Stop(t) PROVE Received'
  BY <1>12 DEF Stop
<1>13. ASSUME NEW t \in Threads, Summary(t) \/ Exit(t) PROVE Received'
  BY <1>13 DEF Summary, Exit
<1>14. CASE Tick \/ Ended
  BY <1>14 DEF Tick, Ended, vars
<1> QED  BY <1>1, <1>2, <1>3, <1>4, <1>5, <1>6, <1>7, <1>8, <1>9, <1>10, <1>11,
            <1>12, <1>13, <1>14 DEF Next, Main, Poller

LEMMA StoppedNext ==
  ASSUME TypeOK, Queue, Stopped, Timed, Next PROVE Stopped'
<1> USE Numbers DEF TypeOK, Threads, Stopped, Goto, GotoAt, Ending
<1>1. CASE Start \/ ReceiveOnly \/ NextRound
  BY <1>1 DEF Start, ReceiveOnly, NextRound
<1>2. CASE SendFails \/ Signal \/ Woken
  BY <1>2 DEF SendFails, Signal, Woken
<1>3. CASE SendStream \/ SendRaw \/ PushNpcapSendQue
  BY <1>3 DEF SendStream, SendRaw, PushNpcapSendQue, Handed
<1>4. CASE Count
  BY <1>4 DEF Count
<1>5. CASE Check
  BY <1>5 DEF Check
<1>6. CASE SendQueToAdPure
  BY <1>6 DEF SendQueToAdPure
<1>7. CASE Leave
  BY <1>7 DEF Leave, LeaveStream, LeaveRaw, LeaveNpcap
<1>8. CASE Connected \/ ConnectionEnds
  BY <1>8 DEF Connected, ConnectionEnds
<1>9. CASE OnManagerModel
  <2>1. report > 0
    <3>1. PICK k \in Nat \ {0} : report = k * interval
      BY DEF Timed
    <3> QED  BY <3>1, OneRound
  <2> QED  BY <1>9, <2>1 DEF OnManagerModel
<1>10. CASE Receive
  BY <1>10 DEF Receive
<1>14. CASE CountReceived
  BY <1>14 DEF CountReceived
<1>11. ASSUME NEW t \in Threads, Stop(t) PROVE Stopped'
  BY <1>11 DEF Stop
<1>12. ASSUME NEW t \in Threads, Summary(t) \/ Exit(t) PROVE Stopped'
  BY <1>12 DEF Summary, Exit
<1>13. CASE Tick \/ Ended
  BY <1>13 DEF Tick, Ready, Ended, vars
<1> QED  BY <1>1, <1>2, <1>3, <1>4, <1>5, <1>6, <1>7, <1>8, <1>9, <1>10, <1>11,
            <1>12, <1>13, <1>14 DEF Next, Main, Poller
-----------------------------------------------------------------------------
(* Time *)

\* The seconds that have passed, against the duration.
LEMMA SecondsPassed ==
  ASSUME NEW n \in Nat, NEW s \in Nat \ {0}, NEW d \in Nat
  PROVE  n \div s < d => n < d * s
<1> DEFINE q == n \div s
<1>1. q \in Nat /\ n < s * q + s
  BY SMT
<1> HIDE DEF q
<1>2. s * q + s = (q + 1) * s /\ (q + 1) * s \in Nat
  BY <1>1, SMT
<1>3. ASSUME q < d PROVE n < d * s
  <2>1. q + 1 \in Nat /\ q + 1 <= d
    BY <1>1, <1>3
  <2>2. (q + 1) * s <= d * s
    BY <2>1, ProductIsMonotone
  <2>3. d * s \in Nat
    BY SMT
  <2> QED  BY <1>1, <1>2, <2>2, <2>3
<1> QED  BY <1>3 DEF q

\* The options of a test do not change, so neither does its last report.
LEMMA OptionsKept == Next => UNCHANGED options
<1> SUFFICES ASSUME Next PROVE UNCHANGED options
  OBVIOUS
<1>1. CASE Start \/ ReceiveOnly \/ NextRound \/ SendFails \/ Signal \/ Woken
  BY <1>1 DEF Start, ReceiveOnly, NextRound, SendFails, Signal, Woken
<1>2. CASE SendStream \/ SendRaw \/ PushNpcapSendQue
  BY <1>2 DEF SendStream, SendRaw, PushNpcapSendQue, Handed
<1>3. CASE Count \/ Check \/ SendQueToAdPure \/ Leave
  BY <1>3 DEF Count, Check, SendQueToAdPure, Leave
<1>4. CASE Connected \/ ConnectionEnds \/ Receive \/ CountReceived \/ OnManagerModel
  BY <1>4 DEF Connected, ConnectionEnds, Receive, CountReceived, OnManagerModel
<1>5. ASSUME NEW t \in Threads, Stop(t) \/ Summary(t) \/ Exit(t)
      PROVE  UNCHANGED options
  BY <1>5 DEF Stop, Summary, Exit
<1>6. CASE Tick \/ Ended
  BY <1>6 DEF Tick, Ended, vars
<1> QED  BY <1>1, <1>2, <1>3, <1>4, <1>5, <1>6 DEF Next, Main, Poller

LEMMA LastReportKept ==
  ASSUME TypeOK, Next
  PROVE  LastReport \in Nat /\ interval' = interval /\ LastReport' = LastReport
<1>1. LastReport \in Nat
  BY LastReportIsReached DEF TypeOK
<1>2. interval' = interval
  BY OptionsKept
<1>3. LastReport' = LastReport
  BY <1>2 DEF LastReport
<1> QED  BY <1>1, <1>2, <1>3

LEMMA TimedNext ==
  ASSUME TypeOK, Queue, Timed, Next PROVE Timed'
<1>a. LastReport \in Nat /\ interval' = interval /\ LastReport' = LastReport
  BY LastReportKept
<1> USE Numbers, <1>a DEF TypeOK, Threads, Goto, GotoAt
<1>0. pc["poller"] \in {"idle", "lost", "stop", "summary", "exit"}
  BY DEF Queue, Ending
<1>1. CASE Start \/ ReceiveOnly \/ NextRound
  BY <1>1 DEF Timed, Start, ReceiveOnly, NextRound
<1>2. CASE SendFails \/ Signal \/ Woken
  BY <1>2 DEF Timed, SendFails, Signal, Woken
<1>3. CASE SendStream \/ SendRaw \/ PushNpcapSendQue
  BY <1>3 DEF Timed, SendStream, SendRaw, PushNpcapSendQue, Handed
<1>4. CASE Count
  BY <1>4 DEF Timed, Count
<1>5. CASE Check
  BY <1>5 DEF Timed, Check
<1>6. CASE SendQueToAdPure
  BY <1>6 DEF Timed, SendQueToAdPure
<1>7. CASE Leave
  BY <1>7 DEF Timed, Leave, LeaveStream, LeaveRaw, LeaveNpcap
<1>8. CASE Connected \/ ConnectionEnds
  BY <1>8 DEF Timed, Connected, ConnectionEnds
<1>9. CASE OnManagerModel
  <2>1. PICK k \in Nat \ {0} : report = k * interval
    BY DEF Timed
  <2>2. now = report /\ now <= LastReport
    BY <1>9 DEF Timed, OnManagerModel
  <2>3. interval \in Nat \ {0} /\ Duration \in Nat /\ Second \in Nat \ {0}
    OBVIOUS
  <2>4. report' = (k + 1) * interval /\ k + 1 \in Nat \ {0} /\ report' = report + interval
    BY <1>9, <2>1, <2>2, <2>3, SMT DEF OnManagerModel
  <2>8. \E n \in Nat \ {0} : report' = n * interval'
    BY <2>4
  <2>5. now < Duration * Second => report' <= LastReport
    BY <2>1, <2>2, <2>4, LastReportIsReached
  <2>6. CASE now \div Second < Duration
    <3>1. now < Duration * Second
      BY <2>3, <2>6, SecondsPassed
    <3>2. ~(now \div Second >= Duration)
      BY <2>3, <2>6
    <3>3. pc'["poller"] = "idle" /\ now' = now
      BY <1>9, <3>2 DEF OnManagerModel
    <3> QED  BY <2>2, <2>3, <2>4, <2>5, <2>8, <3>1, <3>3 DEF Timed
  <2>7. CASE now \div Second >= Duration
    <3>1. pc'["poller"] = "stop" /\ now' = now
      BY <1>9, <2>7 DEF OnManagerModel
    <3> QED  BY <2>2, <2>8, <3>1 DEF Timed
  <2>9. now \div Second \in Nat
    BY <2>3
  <2> QED  BY <2>3, <2>6, <2>7, <2>9
<1>10. CASE Receive
  BY <1>10 DEF Timed, Receive
<1>11. CASE CountReceived
  BY <1>11 DEF Timed, CountReceived
<1>12. ASSUME NEW t \in Threads, Stop(t) PROVE Timed'
  BY <1>12 DEF Timed, Stop
<1>13. ASSUME NEW t \in Threads, Summary(t) PROVE Timed'
  BY <1>13 DEF Timed, Summary
<1>14. ASSUME NEW t \in Threads, Exit(t) PROVE Timed'
  BY <1>14 DEF Timed, Exit
<1>15. CASE Tick
  BY <1>0, <1>15 DEF Timed, Tick, Ready
<1>16. CASE Ended
  BY <1>16 DEF Timed, Ended, vars
<1> QED  BY <1>1, <1>2, <1>3, <1>4, <1>5, <1>6, <1>7, <1>8, <1>9, <1>10, <1>11,
            <1>12, <1>13, <1>14, <1>15, <1>16 DEF Next, Main, Poller

LEMMA WindowOverNext ==
  ASSUME TypeOK, Frames, Stopped, Timed, WindowOver, Next PROVE WindowOver'
<1> USE Numbers DEF TypeOK, Threads, Goto, GotoAt, WindowOver
<1>1. CASE Start \/ ReceiveOnly
  BY <1>1 DEF Start, ReceiveOnly, Frames
<1>17. CASE NextRound
  BY <1>17 DEF NextRound, Stopped
<1>2. CASE SendFails \/ Signal \/ Woken
  BY <1>2 DEF SendFails, Signal, Woken
<1>3. CASE SendStream \/ SendRaw \/ PushNpcapSendQue
  BY <1>3 DEF SendStream, SendRaw, PushNpcapSendQue, Handed
<1>4. CASE Count
  BY <1>4 DEF Count
<1>5. CASE Check
  BY <1>5 DEF Check
<1>6. CASE SendQueToAdPure
  BY <1>6 DEF SendQueToAdPure
<1>7. CASE Leave
  BY <1>7 DEF Leave, LeaveStream, LeaveRaw, LeaveNpcap
<1>8. CASE Connected \/ ConnectionEnds
  BY <1>8 DEF Connected, ConnectionEnds
<1>9. CASE OnManagerModel
  BY <1>9 DEF OnManagerModel
<1>10. CASE Receive
  BY <1>10 DEF Receive
<1>11. CASE CountReceived
  BY <1>11 DEF CountReceived
<1>12. ASSUME NEW t \in Threads, Stop(t) PROVE WindowOver'
  BY <1>12 DEF Stop
<1>13. ASSUME NEW t \in Threads, Summary(t) PROVE WindowOver'
  BY <1>13 DEF Summary
<1>14. ASSUME NEW t \in Threads, Exit(t) PROVE WindowOver'
  BY <1>14 DEF Exit
<1>15. CASE Tick
  BY <1>15 DEF Tick
<1>16. CASE Ended
  BY <1>16 DEF Ended, vars
<1> QED  BY <1>1, <1>2, <1>3, <1>4, <1>5, <1>6, <1>7, <1>8, <1>9, <1>10, <1>11,
            <1>12, <1>13, <1>14, <1>15, <1>16, <1>17 DEF Next, Main, Poller

LEMMA PausedNext ==
  ASSUME TypeOK, Queue, Stopped, Timed, Paused, Next PROVE Paused'
<1>a. LastReport \in Nat /\ interval' = interval /\ LastReport' = LastReport
  BY LastReportKept
<1> USE Numbers, <1>a DEF TypeOK, Threads, Goto, GotoAt, Paused
<1>1. CASE Start \/ ReceiveOnly
  BY <1>1 DEF Start, ReceiveOnly
<1>2. CASE NextRound
  BY <1>2 DEF NextRound
<1>3. CASE SendFails \/ Signal \/ Woken
  BY <1>3 DEF SendFails, Signal, Woken
<1>4. CASE SendStream \/ SendRaw \/ PushNpcapSendQue
  BY <1>4 DEF Handed, SendStream, SendRaw, PushNpcapSendQue
<1>5. CASE Count
  BY <1>5 DEF Count
<1>6. CASE Check
  BY <1>6 DEF Check
<1>7. CASE SendQueToAdPure
  BY <1>7 DEF SendQueToAdPure
<1>8. CASE Leave
  <2>1. pc["poller"] \in {"summary", "exit"}
    BY <1>8 DEF Leave, Stopped, Ending
  <2>2. now <= wake["poller"] /\ wake["poller"] <= now + Window
    BY <2>1 DEF Timed
  <2> QED  BY <1>8, <2>1, <2>2 DEF Leave, LeaveStream, LeaveRaw, LeaveNpcap
<1>9. CASE Connected \/ ConnectionEnds
  BY <1>9 DEF Connected, ConnectionEnds
<1>10. CASE OnManagerModel
  BY <1>10 DEF OnManagerModel
<1>11. CASE Receive
  BY <1>11 DEF Receive
<1>12. CASE CountReceived
  BY <1>12 DEF CountReceived
<1>13. ASSUME NEW t \in Threads, Stop(t) PROVE Paused'
  BY <1>13 DEF Stop
<1>14. ASSUME NEW t \in Threads, Summary(t) PROVE Paused'
  <2>1. pc["poller"] = "summary" => now <= wake["poller"]
    BY DEF Timed
  <2> QED  BY <1>14, <2>1 DEF Summary
<1>15. ASSUME NEW t \in Threads, Exit(t) PROVE Paused'
  BY <1>15 DEF Exit
<1>16. CASE Tick
  BY <1>16 DEF Tick
<1>17. CASE Ended
  BY <1>17 DEF Ended, vars
<1> QED  BY <1>1, <1>2, <1>3, <1>4, <1>5, <1>6, <1>7, <1>8, <1>9, <1>10, <1>11, <1>12, <1>13, <1>14, <1>15, <1>16, <1>17
         DEF Next, Main, Poller

LEMMA DrainedNext ==
  ASSUME TypeOK, Queue, Stopped, Timed, WindowOver, Drained, Next PROVE Drained'
<1> USE Numbers DEF TypeOK, Threads, Goto, GotoAt, Drained, InLoop, Ending
<1>1. CASE Start \/ ReceiveOnly
  BY <1>1 DEF Start, ReceiveOnly, Stopped
<1>2. CASE NextRound
  BY <1>2 DEF NextRound
<1>3. CASE SendFails \/ Signal \/ Woken
  BY <1>3 DEF SendFails, Signal, Woken
<1>4. CASE SendStream \/ SendRaw \/ PushNpcapSendQue
  BY <1>4 DEF Handed, SendStream, SendRaw, PushNpcapSendQue
<1>5. CASE Count
  BY <1>5 DEF Count
<1>6. CASE Check
  BY <1>6 DEF Check, WindowOver
<1>7. CASE SendQueToAdPure
  BY <1>7 DEF SendQueToAdPure
<1>8. CASE Leave
  BY <1>8 DEF Leave, LeaveStream, LeaveRaw, LeaveNpcap
<1>9. CASE Connected \/ ConnectionEnds
  BY <1>9 DEF Connected, ConnectionEnds
<1>10. CASE OnManagerModel
  BY <1>10 DEF OnManagerModel
<1>11. CASE Receive
  BY <1>11 DEF Receive
<1>12. CASE CountReceived
  BY <1>12 DEF CountReceived
<1>13. ASSUME NEW t \in Threads, Stop(t) PROVE Drained'
  BY <1>13 DEF Stop, WindowOver
<1>14. ASSUME NEW t \in Threads, Summary(t) PROVE Drained'
  BY <1>14 DEF Summary, Queue, Stopped
<1>15. ASSUME NEW t \in Threads, Exit(t) PROVE Drained'
  BY <1>15 DEF Exit
<1>16. CASE Tick
  BY <1>16 DEF Tick, Ready, Stopped, WindowOver
<1>17. CASE Ended
  BY <1>17 DEF Ended, vars
<1> QED  BY <1>1, <1>2, <1>3, <1>4, <1>5, <1>6, <1>7, <1>8, <1>9, <1>10, <1>11, <1>12, <1>13, <1>14, <1>15, <1>16, <1>17
         DEF Next, Main, Poller

\* One window more, and one packet more.
LEMMA NextWindow ==
  ASSUME NEW r \in Nat, NEW w \in Nat, NEW b \in Nat, NEW from \in Nat,
         NEW later \in Nat, NEW more \in Nat, NEW bytes \in Nat,
         r * w <= from, from + w <= later, bytes <= r * b + more, more <= b
  PROVE  (r + 1) * w <= later /\ bytes <= (r + 1) * b
<1>1. (r + 1) * w = r * w + w /\ (r + 1) * b = r * b + b
  BY SMT
<1>2. r * w \in Nat /\ r * b \in Nat
  BY SMT
<1> QED  BY <1>1, <1>2

LEMMA NextPacket ==
  ASSUME NEW c \in Nat, NEW size \in Nat PROVE (c + 1) * size = c * size + size
  BY SMT

LEMMA ProductIsNat ==
  ASSUME NEW a \in Nat, NEW b \in Nat PROVE a * b \in Nat
  BY SMT

LEMMA RateNext ==
  ASSUME TypeOK, Frames, WindowOver, Rate, Next PROVE Rate'
<1> USE Numbers DEF TypeOK, Threads, Goto, GotoAt, Rate
<1>1. CASE Start \/ ReceiveOnly
  BY <1>1 DEF Start, ReceiveOnly
<1>2. CASE NextRound
  <2>1. CASE ~limited
    BY <1>2, <2>1 DEF NextRound
  <2>2. CASE limited /\ count = 0
    <3>1. 0 \in Nat /\ 0 * (Window - 1) = 0 /\ 0 * (Budget + Block - 1) = 0 /\ 0 * Block = 0
      BY SMT
    <3>2. window'.from = now /\ window'.sent = 0 /\ count' = 0
      BY <1>2, <2>2 DEF NextRound
    <3> QED  BY <3>1, <3>2
  <2>3. CASE limited /\ count # 0
    <3>1. PICK k \in Nat : /\ k * (Window - 1) <= window.from
                          /\ count * Block <= k * (Budget + Block - 1) + window.sent
      BY <2>3
    <3>2. window.from + (Window - 1) <= now /\ window.sent <= Budget + Block - 1
      BY <1>2, <2>3 DEF NextRound, WindowOver, Frames
    <3>3. /\ Window - 1 \in Nat /\ Budget + Block - 1 \in Nat /\ window.from \in Nat
          /\ window.sent \in Nat /\ now \in Nat /\ count * Block \in Nat
      BY ProductIsNat DEF Packets
    <3>4. /\ (k + 1) * (Window - 1) <= now
          /\ count * Block <= (k + 1) * (Budget + Block - 1)
      BY <3>1, <3>2, <3>3, NextWindow
    <3>5. window'.from = now /\ window'.sent = 0 /\ count' = count
      BY <1>2, <2>3 DEF NextRound
    <3>6. (k + 1) * (Budget + Block - 1) \in Nat /\ k + 1 \in Nat
      BY <3>3, ProductIsNat
    <3>7. /\ (k + 1) * (Window - 1) <= window'.from
          /\ count' * Block <= (k + 1) * (Budget + Block - 1) + window'.sent
      BY <3>4, <3>5, <3>6
    <3> QED  BY <3>6, <3>7
  <2> QED  BY <2>1, <2>2, <2>3
<1>3. CASE SendFails \/ Signal \/ Woken
  BY <1>3 DEF SendFails, Signal, Woken
<1>4. CASE SendStream \/ SendRaw \/ PushNpcapSendQue
  BY <1>4 DEF Handed, SendStream, SendRaw, PushNpcapSendQue
<1>5. CASE Count
  <2>1. CASE ~limited
    BY <1>5, <2>1 DEF Count
  <2>2. CASE limited
    <3>1. PICK k \in Nat : /\ k * (Window - 1) <= window.from
                          /\ count * Block <= k * (Budget + Block - 1) + window.sent
      BY <2>2
    <3>2. /\ window'.from = window.from /\ window'.sent = window.sent + Block
          /\ count' * Block = count * Block + Block
      BY <1>5, NextPacket DEF Count, Packets
    <3>3. /\ count * Block \in Nat /\ k * (Budget + Block - 1) \in Nat
          /\ window.sent \in Nat
      BY ProductIsNat DEF Packets
    <3>4. /\ k * (Window - 1) <= window'.from
          /\ count' * Block <= k * (Budget + Block - 1) + window'.sent
      BY <3>1, <3>2, <3>3
    <3> QED  BY <3>4
  <2> QED  BY <2>1, <2>2
<1>6. CASE Check
  BY <1>6 DEF Check
<1>7. CASE SendQueToAdPure
  BY <1>7 DEF SendQueToAdPure
<1>8. CASE Leave
  BY <1>8 DEF Leave, LeaveStream, LeaveRaw, LeaveNpcap
<1>9. CASE Connected \/ ConnectionEnds
  BY <1>9 DEF Connected, ConnectionEnds
<1>10. CASE OnManagerModel
  BY <1>10 DEF OnManagerModel
<1>11. CASE Receive
  BY <1>11 DEF Receive
<1>12. CASE CountReceived
  BY <1>12 DEF CountReceived
<1>13. ASSUME NEW t \in Threads, Stop(t) PROVE Rate'
  BY <1>13 DEF Stop
<1>14. ASSUME NEW t \in Threads, Summary(t) PROVE Rate'
  BY <1>14 DEF Summary
<1>15. ASSUME NEW t \in Threads, Exit(t) PROVE Rate'
  BY <1>15 DEF Exit
<1>16. CASE Tick
  BY <1>16 DEF Tick
<1>17. CASE Ended
  BY <1>17 DEF Ended, vars
<1> QED  BY <1>1, <1>2, <1>3, <1>4, <1>5, <1>6, <1>7, <1>8, <1>9, <1>10, <1>11, <1>12, <1>13, <1>14, <1>15, <1>16, <1>17
         DEF Next, Main, Poller

LEMMA PrintedNext ==
  ASSUME TypeOK, Sums, Queue, Received, Stopped, Timed, WindowOver, Printed, Next PROVE Printed'
<1> USE Numbers DEF TypeOK, Threads, Packets, Goto, GotoAt, Printed, Taken
<1>1. CASE Start \/ ReceiveOnly
  BY <1>1 DEF Start, ReceiveOnly
<1>2. CASE NextRound
  BY <1>2 DEF NextRound, Stopped
<1>3. CASE SendFails \/ Signal \/ Woken
  BY <1>3 DEF SendFails, Signal, Woken, Ending
<1>4. CASE SendStream \/ SendRaw \/ PushNpcapSendQue
  BY <1>4 DEF Handed, SendStream, SendRaw, PushNpcapSendQue
<1>5. CASE Count
  BY <1>5 DEF Count
<1>6. CASE Check
  BY <1>6 DEF Check, WindowOver
<1>7. CASE SendQueToAdPure
  BY <1>7 DEF SendQueToAdPure, Transmit
<1>8. CASE Leave
  BY <1>8 DEF Leave, LeaveStream, LeaveRaw, LeaveNpcap, Transmit
<1>9. CASE Connected \/ ConnectionEnds
  BY <1>9 DEF Connected, ConnectionEnds
<1>10. CASE OnManagerModel
  BY <1>10 DEF OnManagerModel
<1>11. CASE Receive
  BY <1>11 DEF Receive
<1>12. CASE CountReceived
  BY <1>12 DEF CountReceived
<1>13. ASSUME NEW t \in Threads, Stop(t) PROVE Printed'
  BY <1>13 DEF Stop
<1>14. ASSUME NEW t \in Threads, Summary(t) PROVE Printed'
  <2>1. PICK q : q = [by |-> t, sent |-> count, lost |-> rcv.seq - rcv.num]
    OBVIOUS
  <2>2. printed' = printed \cup {q} /\ pc' = [pc EXCEPT ![t] = "exit"]
    BY <1>14, <2>1 DEF Summary
  <2>3. UNCHANGED <<mode, wire, npcap, count, rcv>>
    BY <1>14 DEF Summary
  <2>4. /\ q.by = t /\ q.sent <= Taken /\ Taken <= q.sent + 1
        /\ t = "poller" /\ pc["main"] = "send" => q.sent = Taken
    BY <2>1 DEF Sums, Ending
  <2>5. q.lost + rcv.got <= rcv.seq + (IF mode = "raw" /\ t = "main" THEN 1 ELSE 0)
    <3>1. pc[t] = "summary" /\ now >= wake[t]
      BY <1>14 DEF Summary
    <3>2. mode # "raw" \/ t = "poller" => rcv.num = rcv.got
      BY <3>1 DEF Received, Ending
    <3> QED  BY <2>1, <3>2 DEF Received
  <2>6. \A p \in printed : p.by = t => pc[t] = "exit"
    BY DEF Printed
  <2> QED  BY <1>14, <2>2, <2>3, <2>4, <2>5
<1>15. ASSUME NEW t \in Threads, Exit(t) PROVE Printed'
  BY <1>15 DEF Exit
<1>16. CASE Tick
  BY <1>16 DEF Tick
<1>17. CASE Ended
  BY <1>17 DEF Ended, vars
<1> QED  BY <1>1, <1>2, <1>3, <1>4, <1>5, <1>6, <1>7, <1>8, <1>9, <1>10, <1>11, <1>12, <1>13, <1>14, <1>15, <1>16, <1>17
         DEF Next, Main, Poller

LEMMA IInvNext == IInv /\ [Next]_vars => IInv'
<1> SUFFICES ASSUME IInv, [Next]_vars PROVE IInv'
  OBVIOUS
<1>1. CASE Next
  BY <1>1, TypeNext, SumsNext, FramesNext, QueueNext, ReceivedNext, StoppedNext,
     TimedNext, WindowOverNext, PausedNext, DrainedNext, PrintedNext, RateNext DEF IInv
<1>2. CASE UNCHANGED vars
  <2> USE <1>2 DEF vars
  <2>1. TypeOK' /\ Sums' /\ Frames' /\ Queue'
    BY DEF IInv, TypeOK, Sums, Frames, Queue, Taken
  <2>2. Received' /\ Stopped' /\ Timed' /\ WindowOver'
    BY DEF IInv, Received, Stopped, Timed, WindowOver, LastReport
  <2>3. Paused' /\ Drained' /\ Printed' /\ Rate'
    BY DEF IInv, Paused, Drained, Printed, Rate, Taken
  <2> QED  BY <2>1, <2>2, <2>3 DEF IInv
<1> QED  BY <1>1, <1>2
-----------------------------------------------------------------------------
(* What it says of the test. *)

LEMMA TotalsFollow == IInv => TotalsAreTrue
<1> SUFFICES ASSUME IInv PROVE TotalsAreTrue
  OBVIOUS
<1> USE Numbers DEF IInv, TypeOK, Packets, Taken
<1>1. Taken - count \in 0..1
  BY DEF Sums
<1>2. ASSUME NEW p \in printed
      PROVE  /\ p.sent \in (Taken - 1)..Taken
             /\ p.lost <= rcv.seq - rcv.got
                         + (IF mode = "raw" /\ p.by = "main" THEN 1 ELSE 0)
  <2>1. p.sent \in Nat /\ p.lost \in Nat
    BY <1>2
  <2> QED  BY <1>2, <2>1 DEF Printed
<1>3. ASSUME NEW p \in printed, p.by = "poller", pc["main"] \notin Ending
      PROVE  p.sent <= wire + dropped
  <2>1. pc["poller"] = "exit" /\ p.sent <= Taken
    BY <1>3 DEF Printed
  <2>2. queue = 0
    BY <1>3, <2>1 DEF Drained, Queue
  <2> QED  BY <2>1, <2>2
<1> QED  BY <1>1, <1>2, <1>3 DEF TotalsAreTrue

LEMMA ProductGrows ==
  ASSUME NEW a \in Nat, NEW c \in Nat, NEW b \in Nat, a <= c
  PROVE  (a + 1) * b <= (c + 1) * b
<1>1. PICK d \in Nat : c = a + d
  <2>1. c - a \in Nat /\ c = a + (c - a)
    OBVIOUS
  <2> QED  BY <2>1
<1>2. (c + 1) * b = (a + 1) * b + d * b /\ d * b \in Nat /\ (a + 1) * b \in Nat
  BY <1>1, SMT
<1> QED  BY <1>2

LEMMA WindowsPassed ==
  ASSUME NEW r \in Nat, NEW w \in Nat \ {0}, NEW t \in Nat, r * w <= t
  PROVE  t \div w \in Nat /\ r <= t \div w
  BY SMT

LEMMA BandwidthFollows == IInv => BandwidthHeld
<1> SUFFICES ASSUME IInv, limited PROVE count * Block <= (now \div (Window - 1) + 1) * (Budget + Block - 1)
  BY DEF BandwidthHeld
<1>1. /\ now \in Nat /\ window.from \in Nat /\ window.sent \in Nat /\ count \in Nat
      /\ Window - 1 \in Nat \ {0} /\ Budget + Block - 1 \in Nat
  BY Numbers DEF IInv, TypeOK, Packets
<1>2. PICK r \in Nat : /\ r * (Window - 1) <= window.from
                       /\ count * Block <= r * (Budget + Block - 1) + window.sent
  BY DEF IInv, Rate
<1>3. window.from <= now /\ window.sent <= Budget + Block - 1
  BY DEF IInv, WindowOver, Frames
<1> DEFINE b == Budget + Block - 1
           q == now \div (Window - 1)
<1>4. q \in Nat /\ r <= q
  <2>1. r * (Window - 1) \in Nat
    BY <1>1, ProductIsNat
  <2>2. r * (Window - 1) <= now
    BY <1>1, <1>2, <1>3, <2>1
  <2> QED  BY <1>1, <2>2, WindowsPassed
<1>5. count * Block <= r * b + b
  <2>1. count * Block \in Nat /\ r * b \in Nat
    BY <1>1, Numbers, ProductIsNat
  <2> QED  BY <1>1, <1>2, <1>3, <2>1
<1>6. b \in Nat
  BY <1>1
<1> HIDE DEF b, q
<1>7. r * b + b <= (q + 1) * b
  <2>1. (r + 1) * b <= (q + 1) * b
    BY <1>4, <1>6, ProductGrows
  <2> QED  BY <1>6, <2>1, NextPacket
<1>8. count * Block \in Nat /\ r * b \in Nat /\ (q + 1) * b \in Nat
  BY <1>1, <1>4, <1>6, Numbers, ProductIsNat
<1>9. count * Block <= (q + 1) * b
  BY <1>5, <1>6, <1>7, <1>8
<1> QED  BY <1>9 DEF b, q

LEMMA EndFollows == IInv => EndsOnTime
<1> SUFFICES ASSUME IInv PROVE EndsOnTime
  OBVIOUS
<1>0. LastReport \in Nat
  BY LastReportIsReached DEF IInv, TypeOK
<1> USE Numbers, <1>0 DEF IInv, TypeOK, Threads
<1>1. now <= LastReport + 2 * Window
  BY DEF Timed, Queue, Ending
<1>2. pc["main"] = "pause" => now < wake["main"]
  BY DEF Timed, Paused
<1> QED  BY <1>1, <1>2 DEF EndsOnTime
-----------------------------------------------------------------------------

\* The sender keeps its invariant.
THEOREM PressSenderInvariant == Spec => []IInv
<1>1. Init => IInv
  BY InitIInv
<1>2. IInv /\ [Next]_vars => IInv'
  BY IInvNext
<1> QED  BY <1>1, <1>2, PTL DEF Spec

\* The sums printed at the end of a test are those of the packets the system
\* took, whichever thread ends it and wherever the handler of a signal meets the
\* sender, and npcap's queue was sent before they were.
THEOREM PressSenderTotals == Spec => []TotalsAreTrue
  BY PressSenderInvariant, TotalsFollow, PTL

\* A limited test never exceeds what its windows allow, counted from its start.
THEOREM PressSenderBandwidth == Spec => []BandwidthHeld
  BY PressSenderInvariant, BandwidthFollows, PTL

\* The process is left within two waits of the end of its duration, whatever
\* the sender is doing, and a raw sender that paused is never woken before.
THEOREM PressSenderEnds == Spec => []EndsOnTime
  BY PressSenderInvariant, EndFollows, PTL
-----------------------------------------------------------------------------
(* Sums over finite sets. *)

Below == OpToRel(<, Nat)

LEMMA BelowHolds ==
  ASSUME NEW y \in Nat, NEW x \in Nat, y < x
  PROVE  <<y, x>> \in Below
<1>1. <<y, x>> \in Nat \X Nat
  OBVIOUS
<1>2. <<y, x>>[1] = y /\ <<y, x>>[2] = x
  OBVIOUS
<1>3. <<y, x>>[1] < <<y, x>>[2]
  BY <1>2, Zenon
<1> QED  BY <1>1, <1>3, Zenon DEF Below, OpToRel

LEMMA LeastNatural ==
  ASSUME NEW S \in SUBSET Nat, S # {}
  PROVE  \E x \in S : \A y \in S : x <= y
<1>1. IsWellFoundedOn(Below, Nat)
  BY NatLessThanWellFounded, Zenon DEF Below
<1>2. PICK x \in S : \A y \in S : ~(<<y, x>> \in Below)
  BY <1>1, WFMin, Zenon
<1>3. \A y \in S : ~(y < x)
  BY <1>2, BelowHolds
<1> QED  BY <1>3

\* Of some subsets of a finite set, one is smallest.
LEMMA Smallest ==
  ASSUME NEW S, IsFiniteSet(S), NEW B \in SUBSET SUBSET S, B # {}
  PROVE  \E T \in B : /\ IsFiniteSet(T)
                     /\ \A x \in T : /\ IsFiniteSet(T \ {x}) /\ T \ {x} \in SUBSET S
                                     /\ T \ {x} \notin B
<1> DEFINE sizes == {Cardinality(T) : T \in B}
<1>1. \A T \in B : IsFiniteSet(T) /\ Cardinality(T) \in Nat
  BY FS_Subset, FS_CardinalityType
<1>2. PICK n \in sizes : \A m \in sizes : n <= m
  <2>1. sizes \in SUBSET Nat /\ sizes # {}
    BY <1>1
  <2> HIDE DEF sizes
  <2> QED  BY <2>1, LeastNatural
<1>3. PICK T \in B : n = Cardinality(T)
  BY <1>2
<1>4. ASSUME NEW x \in T
      PROVE  /\ IsFiniteSet(T \ {x}) /\ T \ {x} \in SUBSET S
             /\ T \ {x} \notin B
  <2>1. /\ IsFiniteSet(T \ {x}) /\ Cardinality(T \ {x}) = Cardinality(T) - 1
    BY <1>1, FS_RemoveElement
  <2>2. T \ {x} \in B => Cardinality(T \ {x}) \in sizes
    OBVIOUS
  <2> QED  BY <1>1, <1>2, <1>3, <2>1, <2>2
<1> QED  BY <1>1, <1>4

\* The recursion of MapThenSumSet on the subsets of a set.
First(T) == CHOOSE x \in T : TRUE
Adds(f, S, h) == h = [T \in SUBSET S |-> IF T = {} THEN 0
                                         ELSE f[First(T)] + h[T \ {First(T)}]]

LEMMA FirstIn == ASSUME NEW T, T # {} PROVE First(T) \in T
  BY DEF First

LEMMA TotalChooses ==
  ASSUME NEW f, NEW S PROVE Total(f, S) = (CHOOSE h : Adds(f, S, h))[S]
  BY Zenon DEF Total, MapThenSumSet, MapThenFoldSet, Adds, First

LEMMA AddsOnce ==
  ASSUME NEW S, IsFiniteSet(S), NEW f, NEW g, NEW h, Adds(f, S, g), Adds(f, S, h)
  PROVE  g = h
<1> DEFINE bad == {T \in SUBSET S : g[T] # h[T]}
<1>1. SUFFICES bad = {}
  <2>1. \A T \in SUBSET S : g[T] = h[T]
    BY <1>1
  <2>2. DOMAIN g = SUBSET S /\ DOMAIN h = SUBSET S
    BY DEF Adds
  <2>3. g = [T \in SUBSET S |-> g[T]] /\ h = [T \in SUBSET S |-> h[T]]
    BY DEF Adds
  <2> QED  BY <2>1, <2>3, Zenon
<1>2. SUFFICES ASSUME bad # {} PROVE FALSE
  OBVIOUS
<1>3. PICK T \in bad : \A x \in T : T \ {x} \in SUBSET S /\ T \ {x} \notin bad
  <2>1. bad \in SUBSET SUBSET S
    OBVIOUS
  <2> HIDE DEF bad
  <2>2. \E T \in bad : /\ IsFiniteSet(T)
                      /\ \A x \in T : /\ IsFiniteSet(T \ {x}) /\ T \ {x} \in SUBSET S
                                      /\ T \ {x} \notin bad
    BY <1>2, <2>1, Smallest, Zenon
  <2> QED  BY <2>2, Zenon
<1>4. CASE T = {}
  BY <1>3, <1>4 DEF Adds
<1>5. CASE T # {}
  <2>1. First(T) \in T
    BY <1>5, FirstIn
  <2>2. g[T \ {First(T)}] = h[T \ {First(T)}]
    BY <1>3, <2>1
  <2>3. /\ g[T] = f[First(T)] + g[T \ {First(T)}]
        /\ h[T] = f[First(T)] + h[T \ {First(T)}]
    BY <1>5, Zenon DEF Adds
  <2> QED  BY <2>2, <2>3
<1> QED  BY <1>4, <1>5

\* It has a solution.
LEMMA AddsExists ==
  ASSUME NEW S, IsFiniteSet(S), NEW f, \A x \in S : f[x] \in Nat
  PROVE  \E h \in [SUBSET S -> Nat] : Adds(f, S, h)
<1> DEFINE Upto(n, h) == \A T \in SUBSET S : Cardinality(T) <= n =>
                            h[T] = IF T = {} THEN 0 ELSE f[First(T)] + h[T \ {First(T)}]
           bad == {n \in Nat : ~\E h \in [SUBSET S -> Nat] : Upto(n, h)}
<1>0. \A T \in SUBSET S : /\ IsFiniteSet(T) /\ Cardinality(T) \in Nat
                          /\ T # {} => /\ First(T) \in T /\ Cardinality(T) # 0
                                       /\ Cardinality(T \ {First(T)}) = Cardinality(T) - 1
  BY FS_Subset, FS_CardinalityType, FirstIn, FS_RemoveElement
<1>1. bad = {}
  <2>1. SUFFICES ASSUME bad # {} PROVE FALSE
    OBVIOUS
  <2>2. PICK n \in bad : \A m \in bad : n <= m
    <3>1. bad \in SUBSET Nat
      OBVIOUS
    <3> HIDE DEF bad
    <3> QED  BY <2>1, <3>1, LeastNatural
  <2>3. CASE n = 0
    <3> DEFINE z == [T \in SUBSET S |-> 0]
    <3>1. z \in [SUBSET S -> Nat]
      OBVIOUS
    <3>2. ASSUME NEW T \in SUBSET S, Cardinality(T) <= 0 PROVE T = {}
      <4>1. IsFiniteSet(T) /\ Cardinality(T) \in Nat
        BY <1>0
      <4>2. Cardinality(T) = 0
        BY <3>2, <4>1
      <4> QED  BY <4>1, <4>2, FS_EmptySet
    <3>3. Upto(0, z)
      BY <3>2
    <3> QED  BY <2>2, <2>3, <3>1, <3>3
  <2>4. CASE n # 0
    <3>1. n \in Nat /\ n - 1 \in Nat /\ n - 1 \notin bad
      <4>1. n \in Nat
        OBVIOUS
      <4> HIDE DEF bad
      <4> QED  BY <2>2, <2>4, <4>1
    <3>2. PICK g \in [SUBSET S -> Nat] : Upto(n - 1, g)
      BY <3>1
    <3> DEFINE h == [T \in SUBSET S |-> IF T # {} /\ Cardinality(T) = n
                                        THEN f[First(T)] + g[T \ {First(T)}] ELSE g[T]]
    <3>3. h \in [SUBSET S -> Nat]
      <4>1. ASSUME NEW T \in SUBSET S, T # {} PROVE f[First(T)] + g[T \ {First(T)}] \in Nat
        <5>1. First(T) \in S /\ T \ {First(T)} \in SUBSET S
          BY <1>0, <4>1
        <5>2. f[First(T)] \in Nat /\ g[T \ {First(T)}] \in Nat
          BY <5>1
        <5> QED  BY <5>2
      <4> QED  BY <4>1
    <3>4. ASSUME NEW T \in SUBSET S, Cardinality(T) <= n
          PROVE  h[T] = IF T = {} THEN 0 ELSE f[First(T)] + h[T \ {First(T)}]
      <4>1. CASE T = {}
        <5>1. h[T] = g[T]
          BY <4>1
        <5>2. Cardinality(T) <= n - 1
          BY <4>1, <3>1, FS_EmptySet
        <5> QED  BY <4>1, <5>1, <5>2, <3>2
      <4>2. CASE T # {}
        <5> DEFINE U == T \ {First(T)}
        <5>1. U \in SUBSET S /\ Cardinality(U) = Cardinality(T) - 1 /\ Cardinality(T) \in Nat
          BY <1>0, <4>2
        <5>2. h[U] = g[U]
          BY <5>1, <3>4
        <5>3. CASE Cardinality(T) = n
          <6>1. h[T] = f[First(T)] + g[U]
            BY <4>2, <5>3
          <6> QED  BY <4>2, <5>2, <6>1
        <5>4. CASE Cardinality(T) # n
          <6>1. h[T] = g[T] /\ Cardinality(T) <= n - 1
            BY <5>1, <5>4, <3>4, <3>1
          <6>2. g[T] = f[First(T)] + g[U]
            BY <3>2, <4>2, <6>1
          <6> QED  BY <4>2, <5>2, <6>1, <6>2
        <5> QED  BY <5>3, <5>4
      <4> QED  BY <4>1, <4>2
    <3> HIDE DEF h
    <3>5. Upto(n, h)
      BY <3>4
    <3> QED  BY <2>2, <3>3, <3>5
  <2> QED  BY <2>3, <2>4
<1>2. Cardinality(S) \in Nat
  BY FS_CardinalityType
<1>3. PICK h \in [SUBSET S -> Nat] : Upto(Cardinality(S), h)
  BY <1>1, <1>2
<1>4. \A T \in SUBSET S : Cardinality(T) <= Cardinality(S)
  BY FS_Subset
<1>5. \A T \in SUBSET S : h[T] = IF T = {} THEN 0 ELSE f[First(T)] + h[T \ {First(T)}]
  BY <1>3, <1>4
<1>6. h = [T \in SUBSET S |-> h[T]]
  OBVIOUS
<1>7. h = [T \in SUBSET S |-> IF T = {} THEN 0 ELSE f[First(T)] + h[T \ {First(T)}]]
  BY <1>5, <1>6, Zenon
<1> QED  BY <1>7 DEF Adds

\* Total on the subsets of a finite set is one such function.
LEMMA TotalAdds ==
  ASSUME NEW S, IsFiniteSet(S), NEW f, NEW h \in [SUBSET S -> Nat],
         Adds(f, S, h), NEW T \in SUBSET S
  PROVE  Total(f, T) = h[T]
<1> DEFINE g == [U \in SUBSET T |-> h[U]]
<1>1. Adds(f, T, g)
  <2>1. ASSUME NEW U \in SUBSET T
        PROVE  g[U] = IF U = {} THEN 0 ELSE f[First(U)] + g[U \ {First(U)}]
    <3>1. g[U] = h[U] /\ g[U \ {First(U)}] = h[U \ {First(U)}] /\ U \in SUBSET S
      OBVIOUS
    <3>2. h[U] = IF U = {} THEN 0 ELSE f[First(U)] + h[U \ {First(U)}]
      BY <3>1, Zenon DEF Adds
    <3> QED  BY <3>1, <3>2
  <2>2. g = [U \in SUBSET T |-> g[U]]
    OBVIOUS
  <2> HIDE DEF g
  <2>3. g = [U \in SUBSET T |-> IF U = {} THEN 0 ELSE f[First(U)] + g[U \ {First(U)}]]
    BY <2>1, <2>2, Zenon
  <2> QED  BY <2>3 DEF Adds
<1>2. IsFiniteSet(T)
  BY FS_Subset
<1> HIDE DEF g
<1>3. Adds(f, T, CHOOSE i : Adds(f, T, i))
  BY <1>1, Zenon
<1>4. (CHOOSE i : Adds(f, T, i)) = g
  BY <1>1, <1>2, <1>3, AddsOnce
<1>5. Total(f, T) = g[T]
  BY <1>4, TotalChooses
<1> QED  BY <1>5 DEF g

LEMMA Swapped ==
  ASSUME NEW a \in Nat, NEW b \in Nat, NEW z \in Nat
  PROVE  a + (b + z) = b + (a + z)
OBVIOUS

LEMMA BothLess ==
  ASSUME NEW a \in Nat, NEW b \in Nat, NEW y \in Nat, NEW z \in Nat, a <= b, y <= z
  PROVE  a + y <= b + z
OBVIOUS

LEMMA OneLess ==
  ASSUME NEW m \in Nat, NEW n \in Nat
  PROVE  m * (n - 1) = m * n - m /\ m * n \in Nat
OBVIOUS

\* Whichever element is added last.
LEMMA TotalStep ==
  ASSUME NEW S, IsFiniteSet(S), NEW f, \A x \in S : f[x] \in Nat
  PROVE  /\ Total(f, {}) = 0
         /\ \A T \in SUBSET S : Total(f, T) \in Nat
         /\ \A T \in SUBSET S : \A x \in T : Total(f, T) = f[x] + Total(f, T \ {x})
<1>1. PICK h \in [SUBSET S -> Nat] : Adds(f, S, h)
  BY AddsExists
<1>2. \A T \in SUBSET S : Total(f, T) = h[T]
  BY <1>1, TotalAdds
<1>3. \A T \in SUBSET S : h[T] = IF T = {} THEN 0 ELSE f[First(T)] + h[T \ {First(T)}]
  BY <1>1, Zenon DEF Adds
<1> DEFINE bad == {T \in SUBSET S : ~\A x \in T : h[T] = f[x] + h[T \ {x}]}
<1>4. bad = {}
  <2>1. SUFFICES ASSUME bad # {} PROVE FALSE
    OBVIOUS
  <2>2. PICK T \in bad : \A x \in T : T \ {x} \in SUBSET S /\ T \ {x} \notin bad
    <3>1. bad \in SUBSET SUBSET S
      OBVIOUS
    <3> HIDE DEF bad
    <3>2. \E T \in bad : /\ IsFiniteSet(T)
                        /\ \A x \in T : /\ IsFiniteSet(T \ {x}) /\ T \ {x} \in SUBSET S
                                        /\ T \ {x} \notin bad
      BY <2>1, <3>1, Smallest, Zenon
    <3> QED  BY <3>2, Zenon
  <2>3. T \in SUBSET S
    OBVIOUS
  <2>4. PICK x \in T : h[T] # f[x] + h[T \ {x}]
    OBVIOUS
  <2> DEFINE c == First(T)
  <2>5. c \in T /\ h[T] = f[c] + h[T \ {c}]
    BY <1>3, <2>3, <2>4, FirstIn
  <2>6. c # x
    BY <2>4, <2>5
  <2> HIDE DEF c
  <2>7. h[T \ {c}] = f[x] + h[(T \ {c}) \ {x}]
    BY <2>2, <2>4, <2>5, <2>6
  <2>8. h[T \ {x}] = f[c] + h[(T \ {x}) \ {c}]
    BY <2>2, <2>4, <2>5, <2>6
  <2>9. (T \ {x}) \ {c} = (T \ {c}) \ {x}
    OBVIOUS
  <2>10. f[c] \in Nat /\ f[x] \in Nat /\ h[(T \ {c}) \ {x}] \in Nat
    BY <2>3, <2>4, <2>5
  <2>11. h[T] = f[x] + h[T \ {x}]
    <3>1. h[T] = f[c] + (f[x] + h[(T \ {c}) \ {x}])
      BY <2>5, <2>7, Zenon
    <3>2. h[T \ {x}] = f[c] + h[(T \ {c}) \ {x}]
      BY <2>8, <2>9, Zenon
    <3> HIDE DEF bad
    <3>3. f[c] + (f[x] + h[(T \ {c}) \ {x}]) = f[x] + (f[c] + h[(T \ {c}) \ {x}])
      BY <2>10, Swapped
    <3> QED  BY <3>1, <3>2, <3>3, Zenon
  <2> QED  BY <2>4, <2>11
<1>5. \A T \in SUBSET S : \A x \in T : h[T] = f[x] + h[T \ {x}]
  BY <1>4
<1>6. \A T \in SUBSET S : \A x \in T : Total(f, T) = f[x] + Total(f, T \ {x})
  BY <1>2, <1>5
<1>7. Total(f, {}) = 0
  BY <1>2, <1>3
<1> QED  BY <1>2, <1>6, <1>7


\* Sums of two functions that agree on a set.
LEMMA TotalSame ==
  ASSUME NEW S, IsFiniteSet(S), NEW f, NEW g,
         \A x \in S : f[x] \in Nat /\ g[x] = f[x]
  PROVE  Total(g, S) = Total(f, S)
<1>1. \A x \in S : f[x] \in Nat
  OBVIOUS
<1>2. \A x \in S : g[x] \in Nat
  OBVIOUS
<1> DEFINE bad == {T \in SUBSET S : Total(g, T) # Total(f, T)}
<1>3. SUFFICES ASSUME bad # {} PROVE FALSE
  OBVIOUS
<1>4. PICK T \in bad : \A x \in T : T \ {x} \in SUBSET S /\ T \ {x} \notin bad
  <2>1. bad \in SUBSET SUBSET S
    OBVIOUS
  <2> HIDE DEF bad
  <2>2. \E T \in bad : /\ IsFiniteSet(T)
                      /\ \A x \in T : /\ IsFiniteSet(T \ {x}) /\ T \ {x} \in SUBSET S
                                      /\ T \ {x} \notin bad
    BY <1>3, <2>1, Smallest, Zenon
  <2> QED  BY <2>2, Zenon
<1>5. T \in SUBSET S /\ Total(g, T) # Total(f, T)
  OBVIOUS
<1>6. T # {}
  <2>1. Total(f, {}) = 0 /\ Total(g, {}) = 0
    BY <1>1, <1>2, TotalStep
  <2> QED  BY <1>5, <2>1
<1>7. PICK x \in T : TRUE
  BY <1>6
<1>8. Total(g, T \ {x}) = Total(f, T \ {x})
  BY <1>4, <1>7
<1>9. Total(f, T) = f[x] + Total(f, T \ {x})
  BY <1>1, <1>5, <1>7, TotalStep
<1>10. Total(g, T) = g[x] + Total(g, T \ {x})
  BY <1>2, <1>5, <1>7, TotalStep
<1> QED  BY <1>5, <1>7, <1>8, <1>9, <1>10

\* One function is nowhere above the other.
LEMMA TotalMono ==
  ASSUME NEW S, IsFiniteSet(S), NEW f, NEW g,
         \A x \in S : f[x] \in Nat /\ g[x] \in Nat /\ f[x] <= g[x]
  PROVE  Total(f, S) <= Total(g, S)
<1>1. \A x \in S : f[x] \in Nat
  OBVIOUS
<1>2. \A x \in S : g[x] \in Nat
  OBVIOUS
<1> DEFINE bad == {T \in SUBSET S : ~(Total(f, T) <= Total(g, T))}
<1>3. SUFFICES ASSUME bad # {} PROVE FALSE
  OBVIOUS
<1>4. PICK T \in bad : \A x \in T : T \ {x} \in SUBSET S /\ T \ {x} \notin bad
  <2>1. bad \in SUBSET SUBSET S
    OBVIOUS
  <2> HIDE DEF bad
  <2>2. \E T \in bad : /\ IsFiniteSet(T)
                      /\ \A x \in T : /\ IsFiniteSet(T \ {x}) /\ T \ {x} \in SUBSET S
                                      /\ T \ {x} \notin bad
    BY <1>3, <2>1, Smallest, Zenon
  <2> QED  BY <2>2, Zenon
<1>5. T \in SUBSET S /\ ~(Total(f, T) <= Total(g, T))
  OBVIOUS
<1>6. T # {}
  <2>1. Total(f, {}) = 0 /\ Total(g, {}) = 0
    BY <1>1, <1>2, TotalStep
  <2> QED  BY <1>5, <2>1
<1>7. PICK x \in T : TRUE
  BY <1>6
<1>8. Total(f, T \ {x}) <= Total(g, T \ {x}) /\ T \ {x} \in SUBSET S
  BY <1>4, <1>7
<1>9. Total(f, T) = f[x] + Total(f, T \ {x}) /\ Total(f, T \ {x}) \in Nat
  BY <1>1, <1>5, <1>7, <1>8, TotalStep
<1>10. Total(g, T) = g[x] + Total(g, T \ {x}) /\ Total(g, T \ {x}) \in Nat
  BY <1>2, <1>5, <1>7, <1>8, TotalStep
<1>11. f[x] \in Nat /\ g[x] \in Nat /\ f[x] <= g[x]
  BY <1>5, <1>7
<1> HIDE DEF bad
<1> QED  BY <1>5, <1>8, <1>9, <1>10, <1>11, BothLess

\* The functions differ at one element.
LEMMA TotalPoint ==
  ASSUME NEW S, IsFiniteSet(S), NEW f, NEW g, NEW x \in S,
         \A y \in S : f[y] \in Nat /\ g[y] \in Nat,
         \A y \in S \ {x} : g[y] = f[y]
  PROVE  /\ Total(f, S \ {x}) \in Nat
         /\ Total(f, S) = f[x] + Total(f, S \ {x})
         /\ Total(g, S) = g[x] + Total(f, S \ {x})
<1>1. \A y \in S : f[y] \in Nat
  OBVIOUS
<1>2. \A y \in S : g[y] \in Nat
  OBVIOUS
<1>3. S \ {x} \in SUBSET S /\ IsFiniteSet(S \ {x})
  BY FS_Subset
<1>4. Total(f, S) = f[x] + Total(f, S \ {x}) /\ Total(f, S \ {x}) \in Nat
  BY <1>1, <1>3, TotalStep
<1>5. Total(g, S) = g[x] + Total(g, S \ {x})
  BY <1>2, TotalStep
<1>6. Total(g, S \ {x}) = Total(f, S \ {x})
  <2>1. \A y \in S \ {x} : f[y] \in Nat /\ g[y] = f[y]
    OBVIOUS
  <2> QED  BY <1>3, <2>1, TotalSame
<1> QED  BY <1>4, <1>5, <1>6

\* A sum in two parts.
LEMMA TotalSplit ==
  ASSUME NEW S, IsFiniteSet(S), NEW f, \A x \in S : f[x] \in Nat, NEW T \in SUBSET S
  PROVE  Total(f, S) = Total(f, T) + Total(f, S \ T)
<1> DEFINE bad == {U \in SUBSET S : Total(f, U) # Total(f, U \cap T) + Total(f, U \ T)}
<1>1. bad = {}
  <2>1. SUFFICES ASSUME bad # {} PROVE FALSE
    OBVIOUS
  <2>2. PICK U \in bad : \A x \in U : U \ {x} \in SUBSET S /\ U \ {x} \notin bad
    <3>1. bad \in SUBSET SUBSET S
      OBVIOUS
    <3> HIDE DEF bad
    <3>2. \E U \in bad : /\ IsFiniteSet(U)
                        /\ \A x \in U : /\ IsFiniteSet(U \ {x}) /\ U \ {x} \in SUBSET S
                                        /\ U \ {x} \notin bad
      BY <2>1, <3>1, Smallest, Zenon
    <3> QED  BY <3>2, Zenon
  <2>3. U \in SUBSET S /\ Total(f, U) # Total(f, U \cap T) + Total(f, U \ T)
    OBVIOUS
  <2>4. U # {}
    <3>1. Total(f, {}) = 0
      BY TotalStep
    <3>2. U = {} => U \cap T = {} /\ U \ T = {}
      OBVIOUS
    <3> HIDE DEF bad
    <3>3. U = {} => /\ Total(f, U) = 0
                   /\ Total(f, U \cap T) = 0 /\ Total(f, U \ T) = 0
      BY <3>1, <3>2, Zenon
    <3> QED  BY <2>3, <3>3
  <2>5. PICK x \in U : TRUE
    BY <2>4
  <2> DEFINE a == Total(f, (U \ {x}) \cap T)
             b == Total(f, (U \ {x}) \ T)
  <2>6. U \ {x} \in SUBSET S /\ Total(f, U \ {x}) = a + b
    BY <2>2, <2>5
  <2>7. Total(f, U) = f[x] + Total(f, U \ {x}) /\ f[x] \in Nat
    BY <2>3, <2>5, TotalStep
  <2>8. a \in Nat /\ b \in Nat
    <3>1. (U \ {x}) \cap T \in SUBSET S /\ (U \ {x}) \ T \in SUBSET S
      BY <2>3
    <3> QED  BY <3>1, TotalStep
  <2> HIDE DEF bad
  <2>9. CASE x \in T
    <3>1. (U \ {x}) \ T = U \ T /\ (U \ {x}) \cap T = (U \cap T) \ {x}
      BY <2>9
    <3>2. U \cap T \in SUBSET S /\ x \in U \cap T
      BY <2>3, <2>5, <2>9
    <3>3. Total(f, U \cap T) = f[x] + a
      BY <3>1, <3>2, TotalStep
    <3> HIDE DEF a, b
    <3>4. Total(f, U \ T) = b
      BY <3>1 DEF b
    <3> QED  BY <2>3, <2>6, <2>7, <2>8, <3>3, <3>4
  <2>10. CASE x \notin T
    <3>1. (U \ {x}) \cap T = U \cap T /\ (U \ {x}) \ T = (U \ T) \ {x}
      BY <2>10
    <3>2. U \ T \in SUBSET S /\ x \in U \ T
      BY <2>3, <2>5, <2>10
    <3>3. Total(f, U \ T) = f[x] + b
      BY <3>1, <3>2, TotalStep
    <3> HIDE DEF a, b
    <3>4. Total(f, U \cap T) = a
      BY <3>1 DEF a
    <3> QED  BY <2>3, <2>6, <2>7, <2>8, <3>3, <3>4
  <2> QED  BY <2>9, <2>10
<1>2. S \in SUBSET S /\ S \cap T = T
  OBVIOUS
<1>3. S \notin bad
  BY <1>1
<1> QED  BY <1>2, <1>3

\* Every term is at most m.
LEMMA TotalBound ==
  ASSUME NEW S, IsFiniteSet(S), NEW f, NEW m \in Nat,
         \A x \in S : f[x] \in 0..m
  PROVE  Total(f, S) <= m * Cardinality(S)
<1>1. \A x \in S : f[x] \in Nat
  OBVIOUS
<1> DEFINE bad == {T \in SUBSET S : ~(Total(f, T) <= m * Cardinality(T))}
<1>3. SUFFICES ASSUME bad # {} PROVE FALSE
  OBVIOUS
<1>4. PICK T \in bad : \A x \in T : T \ {x} \in SUBSET S /\ T \ {x} \notin bad
  <2>1. bad \in SUBSET SUBSET S
    OBVIOUS
  <2> HIDE DEF bad
  <2>2. \E T \in bad : /\ IsFiniteSet(T)
                      /\ \A x \in T : /\ IsFiniteSet(T \ {x}) /\ T \ {x} \in SUBSET S
                                      /\ T \ {x} \notin bad
    BY <1>3, <2>1, Smallest, Zenon
  <2> QED  BY <2>2, Zenon
<1>5. T \in SUBSET S /\ ~(Total(f, T) <= m * Cardinality(T))
  OBVIOUS
<1>6. T # {}
  <2>1. Total(f, {}) = 0
    BY <1>1, TotalStep
  <2>2. Cardinality({}) = 0
    BY FS_EmptySet
  <2> QED  BY <1>5, <2>1, <2>2
<1>7. PICK x \in T : TRUE
  BY <1>6
<1>8. Total(f, T \ {x}) <= m * Cardinality(T \ {x}) /\ T \ {x} \in SUBSET S
  BY <1>4, <1>7
<1>9. Total(f, T) = f[x] + Total(f, T \ {x}) /\ Total(f, T \ {x}) \in Nat
  BY <1>1, <1>5, <1>7, <1>8, TotalStep
<1>10. IsFiniteSet(T) /\ Cardinality(T) \in Nat
  BY <1>5, FS_Subset, FS_CardinalityType
<1>11. Cardinality(T \ {x}) = Cardinality(T) - 1
  BY <1>7, <1>10, FS_RemoveElement
<1>12. f[x] \in 0..m
  BY <1>5, <1>7
<1>13. m * (Cardinality(T) - 1) = m * Cardinality(T) - m /\ m * Cardinality(T) \in Nat
  BY <1>10, OneLess
<1> HIDE DEF bad
<1> QED  BY <1>5, <1>8, <1>9, <1>11, <1>12, <1>13
-----------------------------------------------------------------------------
(* The receiver: the inductive invariant. *)

\* A packet a session was given and has not counted yet.
Pending == IF Idle THEN 0 ELSE 1
\* Packets of each client that are under way no more; and those of them with an
\* index its session has seen, or a smaller one.
Left == [s \in Sessions |-> sent[s] - Cardinality(air[s])]
Covered == [s \in Sessions |-> seq[s] - Cardinality(air[s] \cap 1..seq[s])]

\* What is counted, and what is under way, was sent.
PerSession ==
  \A s \in Sessions :
    /\ air[s] \subseteq 1..sent[s]
    /\ num[s] + Cardinality(air[s]) <= sent[s]
    /\ seq[s] <= sent[s]
    /\ counting.of = s => counting.load + Cardinality(air[s]) + 1 <= sent[s]

\* Sessions of a UDP server stay in the map once they have counted.
UdpStays ==
  udp => /\ erasing = {}
         /\ \A s \in Sessions : conn[s] # "closed"
         /\ ~Idle => counting.of \in inMap
         /\ \A s \in Sessions \ inMap : num[s] = 0 /\ seq[s] = 0

\* prepare_exit asks every session once.
Asked ==
  /\ asking.of \notin todo
  /\ main = "sleep" => asking = Nothing
  /\ curSeq <= MaxPkts * Cardinality(Sessions \ (todo \cup {asking.of}))

\* The sessions were given no packet twice, ...
Given == received + Pending <= Total(Left, Sessions)

\* ... and none beyond the indices they have seen.
IndexCovers == udp => received + Pending <= Total(Covered, Sessions)

\* Until Ctrl+C, a packet is in the total or in the count of its session; and a
\* session that counts has not been asked since it loaded its count.
OncePerPeriod ==
  /\ main = "sleep" =>
       /\ rcvNum + Total(num, Sessions) = received
       /\ ~Idle => counting.load = num[counting.of]
  /\ main = "gone" /\ udp => rcvNum = received

\* Indices are added up to at most what was sent.
NoMoreThanSent ==
  /\ main = "sleep" => rcvSeq <= Total(sent, Sessions)
  /\ main \in {"sleep", "gone"} => lossReport.lost <= lossReport.missing

ReceiverInv == /\ ReceiverTypeOK /\ PerSession /\ UdpStays /\ Asked /\ Given
               /\ IndexCovers /\ OncePerPeriod /\ NoMoreThanSent
-----------------------------------------------------------------------------
\* Steps that touch neither the packets nor the counts.
LEMMA QuietSteps ==
  ASSUME [ReceiverNext]_receiverVars
  PROVE  \/ \E s \in Sessions : SendPacket(s) \/ Lose(s) \/ OnRecv(s) \/ CountPacket(s)
                                \/ Clear(s)
         \/ Report \/ DurationOver
         \/ /\ UNCHANGED <<udp, sent, air, num, seq, counting, rcvNum, received, lossReport>>
            /\ main' = main \/ main' \in {"collect", "killed"}
            /\ UNCHANGED rcvSeq \/ main' = "killed"
BY DEF ReceiverNext, Loop, Open, Close, EndOfStream, EraseTask, ManagerTimer, BeginCollect,
       Ask, EndCollect, ReceiverEnded, receiverVars, clients, session, totals, handler,
       history

LEMMA AirFinite ==
  ASSUME ReceiverTypeOK, NEW s \in Sessions
  PROVE  /\ IsFiniteSet(air[s]) /\ Cardinality(air[s]) \in Nat
         /\ \A n \in air[s] : /\ Cardinality(air[s] \ {n}) = Cardinality(air[s]) - 1
                              /\ Cardinality(air[s] \ {n}) \in Nat
         /\ \A n : /\ Cardinality(air[s] \cup {n}) <= Cardinality(air[s]) + 1
                   /\ Cardinality(air[s] \cup {n}) \in Nat
<1>1. air[s] \in SUBSET (1..MaxPkts)
  BY DEF ReceiverTypeOK
<1>2. IsFiniteSet(1..MaxPkts)
  BY PktsAssumption, FS_Interval
<1>3. IsFiniteSet(air[s])
  BY <1>1, <1>2, FS_Subset
<1>4. \A n : IsFiniteSet(air[s] \cup {n}) /\ IsFiniteSet(air[s] \ {n})
  BY <1>3, FS_AddElement, FS_RemoveElement
<1>5. Cardinality(air[s]) \in Nat
  BY <1>3, FS_CardinalityType
<1>6. \A n : Cardinality(air[s] \ {n}) \in Nat /\ Cardinality(air[s] \cup {n}) \in Nat
  BY <1>4, FS_CardinalityType
<1>7. \A n \in air[s] : Cardinality(air[s] \ {n}) = Cardinality(air[s]) - 1
  BY <1>3, FS_RemoveElement
<1>8. ASSUME NEW n PROVE Cardinality(air[s] \cup {n}) <= Cardinality(air[s]) + 1
  <2>1. CASE n \in air[s]
    <3>1. air[s] \cup {n} = air[s]
      BY <2>1
    <3>2. Cardinality(air[s] \cup {n}) = Cardinality(air[s])
      BY <3>1, Zenon
    <3> QED  BY <3>2, <1>5
  <2>2. CASE n \notin air[s]
    <3>1. Cardinality(air[s] \cup {n}) = Cardinality(air[s]) + 1
      BY <2>2, <1>3, FS_AddElement
    <3> QED  BY <3>1, <1>5
  <2> QED  BY <2>1, <2>2
<1> QED  BY <1>3, <1>5, <1>6, <1>7, <1>8

LEMMA PerSessionNext ==
  ASSUME ReceiverTypeOK, PerSession, [ReceiverNext]_receiverVars
  PROVE  PerSession'
<1> USE PktsAssumption DEF ReceiverTypeOK
<1> DEFINE c(s) == Cardinality(air[s])
<1>a. \A s \in Sessions : /\ num[s] \in Nat /\ sent[s] \in Nat /\ seq[s] \in Nat
                          /\ sent[s] <= MaxPkts
  OBVIOUS
<1>b. \A s \in Sessions : c(s) \in Nat
  BY AirFinite
<1>c. \A s \in Sessions : /\ air[s] \subseteq 1..sent[s]
                          /\ num[s] + c(s) <= sent[s] /\ seq[s] <= sent[s]
  BY DEF PerSession
<1>d. \A s \in Sessions : counting.of = s => counting.load + c(s) + 1 <= sent[s]
  BY DEF PerSession
<1>1. ASSUME NEW s \in Sessions, SendPacket(s)
      PROVE  PerSession'
  <2>1. /\ sent' = [sent EXCEPT ![s] = @ + 1]
        /\ air' = [air EXCEPT ![s] = @ \cup {sent[s] + 1}]
        /\ num' = num /\ seq' = seq /\ counting' = counting
    BY <1>1 DEF SendPacket, session
  <2>2. ASSUME NEW z \in Sessions
        PROVE  /\ air'[z] \subseteq 1..sent'[z]
               /\ num'[z] + Cardinality(air'[z]) <= sent'[z]
               /\ seq'[z] <= sent'[z]
               /\ counting'.of = z => counting'.load + Cardinality(air'[z]) + 1 <= sent'[z]
    <3>1. CASE z # s
      <4>1. air'[z] = air[z] /\ sent'[z] = sent[z]
        BY <2>1, <3>1
      <4>2. Cardinality(air'[z]) = c(z)
        BY <4>1
      <4>3. air'[z] \subseteq 1..sent'[z]
        BY <4>1, <1>a, <1>b, <1>c, <1>d
      <4> HIDE DEF c, ReceiverTypeOK
      <4> QED  BY <2>1, <4>1, <4>2, <4>3, <1>a, <1>b, <1>c, <1>d
    <3>2. CASE z = s
      <4>1. air'[z] = air[s] \cup {sent[s] + 1} /\ sent'[z] = sent[s] + 1
        BY <2>1, <3>2
      <4>2. Cardinality(air'[z]) <= c(s) + 1 /\ Cardinality(air'[z]) \in Nat
        BY <4>1, AirFinite
      <4>3. counting.of = s => counting.load \in Nat
        BY SessionsAssumption DEF Nothing
      <4>4. air'[z] \subseteq 1..sent'[z]
        BY <4>1, <1>a, <1>b, <1>c, <1>d
      <4> HIDE DEF c, ReceiverTypeOK
      <4>5. num'[z] + Cardinality(air'[z]) <= sent'[z]
        BY <2>1, <4>1, <4>2, <3>2, <1>a, <1>b, <1>c, <1>d
      <4>6. seq'[z] <= sent'[z]
        BY <2>1, <4>1, <3>2, <1>a, <1>b, <1>c, <1>d
      <4>7. counting.of = s => counting.load + Cardinality(air'[z]) + 1 <= sent'[z]
        BY <4>1, <4>2, <4>3, <1>a, <1>b, <1>c, <1>d
      <4> QED  BY <2>1, <4>4, <4>5, <4>6, <4>7, <3>2
    <3> QED  BY <3>1, <3>2
  <2> QED  BY <2>2 DEF PerSession
<1>2. ASSUME NEW s \in Sessions, Lose(s)
      PROVE  PerSession'
  <2>1. PICK n \in air[s] : air' = [air EXCEPT ![s] = @ \ {n}]
    BY <1>2 DEF Lose
  <2>2. sent' = sent /\ num' = num /\ seq' = seq /\ counting' = counting
    BY <1>2 DEF Lose, session
  <2>3. ASSUME NEW z \in Sessions
        PROVE  /\ Cardinality(air'[z]) <= c(z) /\ Cardinality(air'[z]) \in Nat
               /\ air'[z] \subseteq air[z]
    <3>1. CASE z # s
      BY <2>1, <3>1, <1>a, <1>b, <1>c, <1>d
    <3>2. CASE z = s
      <4>1. air'[z] = air[s] \ {n}
        BY <2>1, <3>2
      <4> QED  BY <4>1, <3>2, <1>a, <1>b, <1>c, <1>d, AirFinite
    <3> QED  BY <3>1, <3>2
  <2>4. \A z \in Sessions : counting.of = z => counting.load \in Nat
    BY SessionsAssumption DEF Nothing
  <2>5. ASSUME NEW z \in Sessions
        PROVE  /\ air'[z] \subseteq 1..sent[z]
               /\ num[z] + Cardinality(air'[z]) <= sent[z]
               /\ seq[z] <= sent[z]
               /\ counting.of = z => counting.load + Cardinality(air'[z]) + 1 <= sent[z]
    <3>1. air'[z] \subseteq 1..sent[z]
      BY <2>3, <1>a, <1>b, <1>c, <1>d
    <3> HIDE DEF c, ReceiverTypeOK
    <3>2. num[z] + Cardinality(air'[z]) <= sent[z]
      BY <2>3, <1>a, <1>b, <1>c, <1>d
    <3>3. counting.of = z => counting.load + Cardinality(air'[z]) + 1 <= sent[z]
      BY <2>3, <2>4, <1>a, <1>b, <1>c, <1>d
    <3> QED  BY <3>1, <3>2, <3>3, <1>a, <1>b, <1>c, <1>d
  <2> QED  BY <2>2, <2>5 DEF PerSession
<1>3. ASSUME NEW s \in Sessions, OnRecv(s)
      PROVE  PerSession'
  <2>1. PICK n \in air[s] : /\ air' = [air EXCEPT ![s] = @ \ {n}]
                            /\ seq' = [seq EXCEPT ![s] = IF udp THEN Larger(@, n) ELSE @]
    BY <1>3 DEF OnRecv
  <2>2. sent' = sent /\ num' = num /\ counting' = [of |-> s, load |-> num[s]]
    BY <1>3 DEF OnRecv
  <2>3. ASSUME NEW z \in Sessions
        PROVE  /\ air'[z] \subseteq 1..sent[z]
               /\ num[z] + Cardinality(air'[z]) <= sent[z]
               /\ seq'[z] <= sent[z]
               /\ z = s => num[s] + Cardinality(air'[z]) + 1 <= sent[z]
    <3>1. CASE z # s
      <4>1. air'[z] = air[z] /\ seq'[z] = seq[z]
        BY <2>1, <3>1
      <4>2. Cardinality(air'[z]) = c(z)
        BY <4>1
      <4> QED  BY <4>1, <4>2, <3>1, <1>a, <1>b, <1>c, <1>d
    <3>2. CASE z = s
      <4>1. air'[z] = air[s] \ {n}
        BY <2>1, <3>2
      <4>2. Cardinality(air'[z]) = c(s) - 1 /\ Cardinality(air'[z]) \in Nat
        BY <4>1, <3>2, AirFinite
      <4>3. n \in 1..sent[s]
        BY <2>1, <1>a, <1>b, <1>c, <1>d
      <4>4. seq'[z] = (IF udp THEN Larger(seq[s], n) ELSE seq[s])
        BY <2>1, <3>2
      <4>5. seq'[z] <= sent[z]
        <5>1. n <= sent[s] /\ seq[s] <= sent[s]
          BY <4>3, <1>a, <1>b, <1>c, <1>d
        <5> HIDE DEF c, ReceiverTypeOK
        <5> QED  BY <4>4, <5>1, <3>2 DEF Larger
      <4>6. air'[z] \subseteq 1..sent[z]
        BY <4>1, <3>2, <1>a, <1>b, <1>c, <1>d
      <4> HIDE DEF c, ReceiverTypeOK
      <4> QED  BY <4>2, <4>5, <4>6, <3>2, <1>a, <1>b, <1>c, <1>d
    <3> QED  BY <3>1, <3>2
  <2> QED  BY <2>2, <2>3 DEF PerSession
<1>4. ASSUME NEW s \in Sessions, CountPacket(s)
      PROVE  PerSession'
  <2>1. /\ num' = [num EXCEPT ![s] = counting.load + 1] /\ counting' = Nothing
        /\ counting.of = s /\ sent' = sent /\ air' = air /\ seq' = seq
    BY <1>4 DEF CountPacket, clients
  <2>2. counting.load \in Nat
    BY <2>1, SessionsAssumption DEF Nothing
  <2>3. \A z \in Sessions : num'[z] + c(z) <= sent[z]
    <3>1. \A z \in Sessions : num'[z] = IF z = s THEN counting.load + 1 ELSE num[z]
      BY <2>1
    <3>2. counting.load + c(s) + 1 <= sent[s]
      BY <2>1, <1>a, <1>b, <1>c, <1>d
    <3> HIDE DEF c, ReceiverTypeOK
    <3> QED  BY <2>2, <3>1, <3>2, <1>a, <1>b, <1>c, <1>d
  <2>4. \A z \in Sessions : counting'.of # z
    BY <2>1, SessionsAssumption DEF Nothing
  <2> QED  BY <2>1, <2>3, <2>4, <1>a, <1>b, <1>c, <1>d DEF PerSession
<1>5. ASSUME NEW s \in Sessions, Clear(s)
      PROVE  PerSession'
  <2>1. num' = [num EXCEPT ![s] = 0] /\ UNCHANGED <<sent, air, seq, counting>>
    BY <1>5 DEF Clear, clients
  <2>2. \A z \in Sessions : num'[z] \in Nat /\ num'[z] <= num[z]
    BY <2>1, <1>a, <1>b, <1>c, <1>d
  <2>3. \A z \in Sessions : num'[z] + c(z) <= sent[z]
    <3> HIDE DEF c
    <3> QED  BY <2>2, <1>a, <1>b, <1>c, <1>d
  <2> QED  BY <2>1, <2>3, <1>a, <1>b, <1>c, <1>d DEF PerSession
<1>6. CASE Report \/ DurationOver
  <2>1. /\ num' = [s \in Sessions |-> IF s \in inMap THEN 0 ELSE num[s]]
        /\ UNCHANGED <<sent, air, seq, counting>>
    BY <1>6 DEF Report, DurationOver, Period, Collect, clients
  <2>2. \A z \in Sessions : num'[z] \in Nat /\ num'[z] <= num[z]
    BY <2>1, <1>a, <1>b, <1>c, <1>d
  <2>3. \A z \in Sessions : num'[z] + c(z) <= sent[z]
    <3> HIDE DEF c
    <3> QED  BY <2>2, <1>a, <1>b, <1>c, <1>d
  <2> QED  BY <2>1, <2>3, <1>a, <1>b, <1>c, <1>d DEF PerSession
<1>7. CASE UNCHANGED <<sent, air, num, seq, counting>>
  BY <1>7 DEF PerSession
<1> QED  BY <1>1, <1>2, <1>3, <1>4, <1>5, <1>6, <1>7, QuietSteps

LEMMA ProductUp ==
  ASSUME NEW m \in Nat, NEW n \in Nat, NEW k \in Nat, n <= k
  PROVE  m * n <= m * k
<1>1. k - n \in Nat
  OBVIOUS
<1>2. m * k = m * n + m * (k - n)
  OBVIOUS
<1>3. m * n \in Nat /\ m * (k - n) \in Nat
  BY <1>1, ProductIsNat
<1> QED  BY <1>2, <1>3

LEMMA ProductNext ==
  ASSUME NEW m \in Nat, NEW n \in Nat
  PROVE  m * (n + 1) = m * n + m
OBVIOUS

LEMMA UdpStaysNext ==
  ASSUME ReceiverTypeOK, UdpStays, [ReceiverNext]_receiverVars
  PROVE  UdpStays'
<1> SUFFICES ASSUME udp' PROVE UdpStays'
  BY DEF UdpStays
<1> USE DEF ReceiverTypeOK, clients, session, totals, handler, history
<1>1. udp
  BY DEF ReceiverNext, Loop, Open, SendPacket, Close, Lose, OnRecv, CountPacket, EndOfStream,
         EraseTask, Report, DurationOver, Period, ManagerTimer, BeginCollect, Ask, Clear,
         EndCollect, ReceiverEnded, receiverVars
<1>2. /\ erasing = {} /\ \A s \in Sessions : conn[s] # "closed"
      /\ ~Idle => counting.of \in inMap
      /\ \A s \in Sessions \ inMap : num[s] = 0 /\ seq[s] = 0
  BY <1>1 DEF UdpStays
<1>3. ASSUME NEW s \in Sessions, Open(s) PROVE UdpStays'
  BY <1>1, <1>2, <1>3 DEF UdpStays, Open, Idle
<1>4. ASSUME NEW s \in Sessions, OnRecv(s) PROVE UdpStays'
  <2>1. /\ inMap' = inMap \cup {s} /\ counting'.of = s
        /\ num' = num /\ erasing' = erasing /\ conn' = conn
        /\ \A z \in Sessions \ {s} : seq'[z] = seq[z]
    BY <1>4 DEF OnRecv
  <2> QED  BY <1>2, <2>1 DEF UdpStays
<1>5. ASSUME NEW s \in Sessions, CountPacket(s) PROVE UdpStays'
  <2>1. /\ inMap' = inMap /\ counting' = Nothing /\ counting.of = s
        /\ seq' = seq /\ erasing' = erasing /\ conn' = conn
        /\ \A z \in Sessions \ {s} : num'[z] = num[z]
    BY <1>5 DEF CountPacket
  <2>2. ~Idle
    BY <2>1, SessionsAssumption DEF Idle, Nothing
  <2> QED  BY <1>2, <2>1, <2>2 DEF UdpStays, Idle
<1>6. ASSUME NEW s \in Sessions, Clear(s) PROVE UdpStays'
  <2>1. /\ UNCHANGED <<inMap, counting, seq, erasing, conn>>
        /\ \A z \in Sessions : num'[z] = num[z] \/ num'[z] = 0
    BY <1>6 DEF Clear
  <2> QED  BY <1>2, <2>1 DEF UdpStays, Idle
<1>7. CASE Report \/ DurationOver
  <2>1. /\ UNCHANGED <<inMap, counting, seq, erasing, conn>>
        /\ \A z \in Sessions : num'[z] = num[z] \/ num'[z] = 0
    BY <1>7 DEF Report, DurationOver, Period, Collect
  <2> QED  BY <1>2, <2>1 DEF UdpStays, Idle
<1>8. ASSUME NEW s \in Sessions, Close(s) \/ EndOfStream(s) \/ EraseTask(s) PROVE FALSE
  BY <1>1, <1>2, <1>8 DEF Close, EndOfStream, EraseTask
<1>9. CASE UNCHANGED <<inMap, counting, num, seq, erasing, conn>>
  BY <1>2, <1>9 DEF UdpStays, Idle
<1> QED  BY <1>3, <1>4, <1>5, <1>6, <1>7, <1>8, <1>9
         DEF ReceiverNext, Loop, SendPacket, Lose, ManagerTimer, BeginCollect, Ask, EndCollect,
             ReceiverEnded, receiverVars

LEMMA AskedNext ==
  ASSUME ReceiverTypeOK, Asked, [ReceiverNext]_receiverVars
  PROVE  Asked'
<1> USE PktsAssumption, SessionsAssumption
<1> DEFINE done == Sessions \ (todo \cup {asking.of})
<1>1. /\ IsFiniteSet(done) /\ Cardinality(done) \in Nat
      /\ IsFiniteSet(done') /\ Cardinality(done') \in Nat
  BY FS_Subset, FS_CardinalityType
<1>2. asking.of \notin todo /\ curSeq <= MaxPkts * Cardinality(done) /\ curSeq \in Nat
  <2>1. MaxPkts * Cardinality(Sessions) \in Nat
    BY FS_CardinalityType, ProductIsNat
  <2> QED  BY <2>1 DEF Asked, ReceiverTypeOK, Counts
<1>3. CASE BeginCollect
  <2>1. curSeq' = 0 /\ asking' = asking /\ asking = Nothing /\ todo' = inMap /\ main' = "collect"
    BY <1>3 DEF BeginCollect, Asked
  <2>2. MaxPkts * Cardinality(done') \in Nat
    BY <1>1, ProductIsNat
  <2>3. asking'.of \notin todo'
    BY <2>1 DEF Nothing, ReceiverTypeOK
  <2> QED  BY <2>1, <2>2, <2>3 DEF Asked
<1>4. ASSUME NEW s \in Sessions, Ask(s) PROVE Asked'
  <2>1. /\ curSeq' = curSeq /\ asking'.of = s /\ asking.of = None /\ s \in todo
        /\ todo' = todo \ {s} /\ main' = "collect"
    BY <1>4 DEF Ask, Nothing
  <2>2. done' = done
    BY <2>1
  <2>3. asking'.of \notin todo'
    BY <2>1
  <2> HIDE DEF done
  <2>4. curSeq' <= MaxPkts * Cardinality(done')
    BY <1>2, <2>1, <2>2, Zenon
  <2> QED  BY <2>1, <2>3, <2>4 DEF Asked, done
<1>5. ASSUME NEW s \in Sessions, Clear(s) PROVE Asked'
  <2>1. /\ curSeq' = curSeq + seq[s] /\ asking'.of = None /\ asking.of = s
        /\ todo' = todo /\ main' = "collect"
    BY <1>5 DEF Clear, Nothing
  <2>2. done' = done \cup {s} /\ s \notin done
    BY <1>2, <2>1
  <2>3. asking'.of \notin todo'
    BY <2>1 DEF ReceiverTypeOK
  <2> HIDE DEF done
  <2>4. Cardinality(done') = Cardinality(done) + 1
    BY <1>1, <2>2, FS_AddElement
  <2>5. /\ MaxPkts * Cardinality(done') = MaxPkts * Cardinality(done) + MaxPkts
        /\ MaxPkts * Cardinality(done) \in Nat
    BY <1>1, <2>4, ProductNext, ProductIsNat
  <2>6. seq[s] \in 0..MaxPkts
    BY DEF ReceiverTypeOK
  <2>7. curSeq' <= MaxPkts * Cardinality(done')
    BY <1>2, <2>1, <2>5, <2>6
  <2> QED  BY <2>1, <2>3, <2>7 DEF Asked, done
<1>6. CASE EndCollect
  <2>1. curSeq' = curSeq /\ asking' = asking /\ asking.of = None /\ todo' = {} /\ main' = "killed"
    BY <1>6 DEF EndCollect, Nothing
  <2>2. done \subseteq done'
    BY <2>1
  <2> HIDE DEF done
  <2>3. Cardinality(done) <= Cardinality(done')
    BY <1>1, <2>2, FS_Subset
  <2>4. /\ MaxPkts * Cardinality(done) <= MaxPkts * Cardinality(done')
        /\ MaxPkts * Cardinality(done) \in Nat /\ MaxPkts * Cardinality(done') \in Nat
    BY <1>1, <2>3, ProductUp, ProductIsNat
  <2>5. curSeq' <= MaxPkts * Cardinality(done')
    BY <1>2, <2>1, <2>4
  <2> QED  BY <2>1, <2>5 DEF Asked, done
<1>7. CASE UNCHANGED <<todo, asking, curSeq>> /\ (main' = main \/ main' # "sleep")
  BY <1>7 DEF Asked
<1>8. ReceiverNext \/ UNCHANGED receiverVars
  OBVIOUS
<1> QED  BY <1>3, <1>4, <1>5, <1>6, <1>7, <1>8
         DEF ReceiverNext, Loop, Open, SendPacket, Close, Lose, OnRecv, CountPacket, EndOfStream,
             EraseTask, Report, DurationOver, Period, ManagerTimer, ReceiverEnded, receiverVars,
             clients, session, totals, handler, history

LEMMA LeftTypes ==
  ASSUME ReceiverTypeOK, PerSession, NEW s \in Sessions
  PROVE  /\ Left[s] = sent[s] - Cardinality(air[s])
         /\ Left[s] \in 0..MaxPkts
<1>1. Cardinality(air[s]) \in Nat
  BY AirFinite
<1>2. num[s] \in Nat /\ sent[s] \in Nat /\ sent[s] <= MaxPkts
  BY PktsAssumption DEF ReceiverTypeOK
<1>3. num[s] + Cardinality(air[s]) <= sent[s]
  BY DEF PerSession
<1>4. Left[s] = sent[s] - Cardinality(air[s])
  BY DEF Left
<1> QED  BY <1>1, <1>2, <1>3, <1>4, PktsAssumption

LEMMA GivenNext ==
  ASSUME ReceiverTypeOK, PerSession, Given, [ReceiverNext]_receiverVars
  PROVE  Given'
<1> USE SessionsAssumption, PktsAssumption
<1>1. \A s \in Sessions : Left[s] \in Nat
  BY LeftTypes
<1>2. Total(Left, Sessions) \in Nat
  BY <1>1, TotalStep
<1>3. received \in Nat
  <2>1. MaxPkts * Cardinality(Sessions) \in Nat
    BY FS_CardinalityType, ProductIsNat
  <2> QED  BY <2>1 DEF ReceiverTypeOK, Counts
<1>4. received + Pending <= Total(Left, Sessions) /\ Pending \in {0, 1}
  BY DEF Given, Pending
<1>5. ASSUME NEW s \in Sessions, SendPacket(s) \/ Lose(s)
      PROVE  Given'
  <2>1. received' = received /\ counting' = counting
    BY <1>5 DEF SendPacket, Lose, session, history
  <2>2. ASSUME NEW z \in Sessions
        PROVE  Left'[z] \in Nat /\ Left[z] <= Left'[z]
    <3>1. Left'[z] = sent'[z] - Cardinality(air'[z])
      BY DEF Left
    <3>2. CASE z # s
      <4>1. sent'[z] = sent[z] /\ air'[z] = air[z]
        BY <1>5, <3>2 DEF SendPacket, Lose, ReceiverTypeOK
      <4> QED  BY <3>1, <4>1, <1>1 DEF Left
    <3>3. CASE z = s /\ SendPacket(s)
      <4>1. sent'[s] = sent[s] + 1 /\ air'[s] = air[s] \cup {sent[s] + 1}
        BY <3>3 DEF SendPacket, ReceiverTypeOK
      <4>2. Cardinality(air'[s]) <= Cardinality(air[s]) + 1 /\ Cardinality(air'[s]) \in Nat
        BY <4>1, AirFinite
      <4>3. Left[s] = sent[s] - Cardinality(air[s]) /\ Cardinality(air[s]) \in Nat
        BY LeftTypes, AirFinite
      <4>4. sent[s] \in Nat
        BY DEF ReceiverTypeOK
      <4> QED  BY <3>1, <3>3, <4>1, <4>2, <4>3, <4>4, <1>1
    <3>4. CASE z = s /\ Lose(s)
      <4>1. PICK n \in air[s] : air' = [air EXCEPT ![s] = @ \ {n}] /\ sent' = sent
        BY <3>4 DEF Lose
      <4>2. air'[s] = air[s] \ {n}
        BY <4>1 DEF ReceiverTypeOK
      <4>3. Cardinality(air'[s]) = Cardinality(air[s]) - 1
        BY <4>2, AirFinite
      <4>4. Left[s] = sent[s] - Cardinality(air[s]) /\ Cardinality(air[s]) \in Nat
        BY LeftTypes, AirFinite
      <4>5. sent[s] \in Nat
        BY DEF ReceiverTypeOK
      <4> QED  BY <3>1, <3>4, <4>1, <4>3, <4>4, <4>5, <1>1
    <3> QED  BY <1>5, <3>2, <3>3, <3>4
  <2>3. Total(Left, Sessions) <= Total(Left', Sessions)
    BY <1>1, <2>2, TotalMono
  <2>4. \A z \in Sessions : Left'[z] \in Nat
    BY <2>2
  <2>5. Total(Left', Sessions) \in Nat
    BY <2>4, TotalStep
  <2> QED  BY <1>2, <1>3, <1>4, <2>1, <2>3, <2>5 DEF Given, Pending, Idle
<1>6. ASSUME NEW s \in Sessions, OnRecv(s)
      PROVE  Given'
  <2>1. PICK n \in air[s] : air' = [air EXCEPT ![s] = @ \ {n}]
    BY <1>6 DEF OnRecv
  <2>2. sent' = sent /\ received' = received /\ Idle
    BY <1>6 DEF OnRecv, history
  <2>3. Left'[s] = Left[s] + 1
    <3>1. air'[s] = air[s] \ {n}
      BY <2>1 DEF ReceiverTypeOK
    <3>2. Cardinality(air'[s]) = Cardinality(air[s]) - 1 /\ Cardinality(air[s]) \in Nat
      BY <3>1, AirFinite
    <3>3. sent[s] \in Nat
      BY DEF ReceiverTypeOK
    <3> QED  BY <2>2, <3>2, <3>3 DEF Left
  <2>4. \A z \in Sessions \ {s} : Left'[z] = Left[z]
    BY <2>1, <2>2 DEF Left, ReceiverTypeOK
  <2>5. \A z \in Sessions : Left[z] \in Nat /\ Left'[z] \in Nat
    BY <1>1, <2>3, <2>4
  <2>6. /\ Total(Left, Sessions \ {s}) \in Nat
        /\ Total(Left, Sessions) = Left[s] + Total(Left, Sessions \ {s})
        /\ Total(Left', Sessions) = Left'[s] + Total(Left, Sessions \ {s})
    BY <2>4, <2>5, TotalPoint
  <2>7. Total(Left', Sessions) = Total(Left, Sessions) + 1
    BY <1>1, <2>3, <2>6
  <2>8. Pending = 0 /\ Pending' \in {0, 1}
    BY <2>2 DEF Pending
  <2> QED  BY <1>2, <1>3, <1>4, <2>2, <2>7, <2>8 DEF Given
<1>7. ASSUME NEW s \in Sessions, CountPacket(s)
      PROVE  Given'
  <2>1. /\ counting.of = s /\ counting' = Nothing /\ received' = received + 1
        /\ sent' = sent /\ air' = air
    BY <1>7 DEF CountPacket, clients
  <2>2. Pending = 1 /\ Pending' = 0
    BY <2>1 DEF Pending, Idle, Nothing
  <2>3. Left' = Left
    BY <2>1 DEF Left
  <2> QED  BY <1>2, <1>3, <1>4, <2>1, <2>2, <2>3 DEF Given
<1>8. CASE UNCHANGED <<sent, air, counting, received>>
  <2>1. Left' = Left /\ Pending' = Pending
    BY <1>8 DEF Left, Pending, Idle
  <2> QED  BY <1>8, <2>1 DEF Given
<1>9. ASSUME NEW s \in Sessions, Clear(s) PROVE UNCHANGED <<sent, air, counting, received>>
  BY <1>9 DEF Clear, clients, history
<1>10. ASSUME Report \/ DurationOver PROVE UNCHANGED <<sent, air, counting, received>>
  BY <1>10 DEF Report, DurationOver, Period, clients
<1> QED  BY <1>5, <1>6, <1>7, <1>8, <1>9, <1>10, QuietSteps

\* The packets the session counted have indices up to the largest it saw.
LEMMA IndexCounts ==
  ASSUME NEW A \in SUBSET (Nat \ {0}), IsFiniteSet(A), NEW q \in Nat, NEW n \in A
  PROVE  Cardinality((A \ {n}) \cap (1..Larger(q, n))) \in Nat
         /\ q - Cardinality(A \cap (1..q)) + 1
              <= Larger(q, n) - Cardinality((A \ {n}) \cap (1..Larger(q, n)))
<1> DEFINE B == A \cap (1..q)
           C == (A \ {n}) \cap (1..Larger(q, n))
<1>1. IsFiniteSet(B) /\ IsFiniteSet(C) /\ Cardinality(B) \in Nat /\ Cardinality(C) \in Nat
  <2>1. IsFiniteSet(B) /\ IsFiniteSet(C)
    BY FS_Subset
  <2> QED  BY <2>1, FS_CardinalityType
<1>2. CASE n <= q
  <2>1. Larger(q, n) = q
    BY <1>2 DEF Larger
  <2>2. C = B \ {n} /\ n \in B
    BY <1>2, <2>1
  <2> HIDE DEF B, C
  <2>3. Cardinality(C) = Cardinality(B) - 1
    BY <1>1, <2>2, FS_RemoveElement
  <2> QED  BY <1>1, <2>1, <2>3 DEF B, C
<1>3. CASE q < n
  <2>1. Larger(q, n) = n
    BY <1>3 DEF Larger
  <2> DEFINE D == (q + 1)..(n - 1)
  <2>2. C \subseteq B \cup D
    BY <1>3, <2>1
  <2>3. IsFiniteSet(D) /\ Cardinality(D) = n - 1 - q
    <3>1. q + 1 \in Int /\ n - 1 \in Int
      OBVIOUS
    <3>2. Cardinality(D) = IF q + 1 > n - 1 THEN 0 ELSE (n - 1) - (q + 1) + 1
      BY <3>1, FS_Interval
    <3>3. IsFiniteSet(D)
      BY <3>1, FS_Interval
    <3> QED  BY <1>3, <3>2, <3>3
  <2> HIDE DEF B, C, D
  <2>4. /\ IsFiniteSet(B \cup D) /\ IsFiniteSet(B \cap D)
        /\ Cardinality(B \cup D) = Cardinality(B) + Cardinality(D) - Cardinality(B \cap D)
    <3>1. IsFiniteSet(B \cap D)
      BY <1>1, FS_Subset
    <3> QED  BY <1>1, <2>3, <3>1, FS_Union
  <2>5. Cardinality(B \cap D) \in Nat
    BY <2>4, FS_CardinalityType
  <2>6. Cardinality(C) <= Cardinality(B \cup D)
    BY <2>2, <2>4, FS_Subset
  <2>7. Cardinality(C) <= Cardinality(B) + (n - 1 - q)
    BY <1>1, <2>3, <2>4, <2>5, <2>6
  <2> QED  BY <1>1, <1>3, <2>1, <2>7 DEF B, C
<1> QED  BY <1>2, <1>3

LEMMA CoveredTypes ==
  ASSUME ReceiverTypeOK, NEW s \in Sessions
  PROVE  /\ Covered[s] = seq[s] - Cardinality(air[s] \cap 1..seq[s])
         /\ Covered[s] \in Nat
         /\ IsFiniteSet(air[s]) /\ air[s] \in SUBSET (Nat \ {0}) /\ seq[s] \in Nat
         /\ IsFiniteSet(air[s] \cap 1..seq[s]) /\ Cardinality(air[s] \cap 1..seq[s]) \in Nat
<1>1. IsFiniteSet(air[s])
  BY AirFinite
<1>2. air[s] \in SUBSET (Nat \ {0}) /\ seq[s] \in Nat
  BY PktsAssumption DEF ReceiverTypeOK
<1>3. IsFiniteSet(1..seq[s]) /\ Cardinality(1..seq[s]) = seq[s]
  BY <1>2, FS_Interval
<1>4. /\ IsFiniteSet(air[s] \cap 1..seq[s])
      /\ Cardinality(air[s] \cap 1..seq[s]) <= seq[s]
  BY <1>3, FS_Subset
<1>5. Cardinality(air[s] \cap 1..seq[s]) \in Nat
  BY <1>4, FS_CardinalityType
<1>6. Covered[s] = seq[s] - Cardinality(air[s] \cap 1..seq[s])
  BY DEF Covered
<1> QED  BY <1>1, <1>2, <1>4, <1>5, <1>6

LEMMA IndexCoversNext ==
  ASSUME ReceiverTypeOK, PerSession, IndexCovers, [ReceiverNext]_receiverVars
  PROVE  IndexCovers'
<1> USE SessionsAssumption, PktsAssumption
<1>1. udp' = udp
  BY DEF ReceiverNext, Loop, Open, SendPacket, Close, Lose, OnRecv, CountPacket, EndOfStream,
         EraseTask, Report, DurationOver, Period, ManagerTimer, BeginCollect, Ask, Clear,
         EndCollect, ReceiverEnded, receiverVars, clients
<1> SUFFICES ASSUME udp PROVE received' + Pending' <= Total(Covered', Sessions)
  BY <1>1 DEF IndexCovers
<1>2. \A s \in Sessions : Covered[s] \in Nat
  BY CoveredTypes
<1>3. Total(Covered, Sessions) \in Nat
  BY <1>2, TotalStep
<1>4. received \in Nat /\ received + Pending <= Total(Covered, Sessions) /\ Pending \in {0, 1}
  <2>1. MaxPkts * Cardinality(Sessions) \in Nat
    BY FS_CardinalityType, ProductIsNat
  <2> QED  BY <2>1 DEF IndexCovers, Pending, ReceiverTypeOK, Counts
<1>5. ASSUME NEW s \in Sessions, SendPacket(s)
      PROVE  UNCHANGED <<Covered, received, Pending>>
  <2>1. received' = received /\ counting' = counting /\ seq' = seq
    BY <1>5 DEF SendPacket, session, history
  <2>2. ASSUME NEW z \in Sessions
        PROVE  air'[z] \cap 1..seq[z] = air[z] \cap 1..seq[z]
    <3>1. CASE z # s
      <4>1. air'[z] = air[z]
        BY <1>5, <3>1 DEF SendPacket, ReceiverTypeOK
      <4> QED  BY <4>1
    <3>2. CASE z = s
      <4>1. air'[s] = air[s] \cup {sent[s] + 1}
        BY <1>5 DEF SendPacket, ReceiverTypeOK
      <4>2. seq[s] <= sent[s] /\ sent[s] \in Nat /\ seq[s] \in Nat
        BY DEF PerSession, ReceiverTypeOK
      <4>3. sent[s] + 1 \notin 1..seq[s]
        BY <4>2
      <4> QED  BY <3>2, <4>1, <4>3
    <3> QED  BY <3>1, <3>2
  <2>3. Covered' = Covered
    BY <2>1, <2>2 DEF Covered
  <2> QED  BY <2>1, <2>3 DEF Pending, Idle
<1>6. ASSUME NEW s \in Sessions, Lose(s)
      PROVE  received' + Pending' <= Total(Covered', Sessions)
  <2>1. received' = received /\ Pending' = Pending /\ seq' = seq
    BY <1>6 DEF Lose, session, history, Pending, Idle
  <2>2. ASSUME NEW z \in Sessions
        PROVE  Covered'[z] \in Nat /\ Covered[z] <= Covered'[z]
    <3>1. air'[z] \subseteq air[z]
      BY <1>6 DEF Lose, ReceiverTypeOK
    <3> DEFINE B == air[z] \cap 1..seq[z]
               C == air'[z] \cap 1..seq[z]
    <3>2. C \subseteq B
      BY <3>1
    <3>3. Covered[z] = seq[z] - Cardinality(B) /\ Covered'[z] = seq[z] - Cardinality(C)
      BY <2>1 DEF Covered
    <3>4. IsFiniteSet(B) /\ seq[z] \in Nat /\ Cardinality(B) \in Nat
      BY CoveredTypes
    <3> HIDE DEF B, C
    <3>5. IsFiniteSet(C) /\ Cardinality(C) <= Cardinality(B) /\ Cardinality(C) \in Nat
      <4>1. IsFiniteSet(C) /\ Cardinality(C) <= Cardinality(B)
        BY <3>2, <3>4, FS_Subset
      <4> QED  BY <4>1, FS_CardinalityType
    <3>6. Covered[z] \in Nat
      BY <1>2
    <3> QED  BY <3>3, <3>4, <3>5, <3>6
  <2>3. Total(Covered, Sessions) <= Total(Covered', Sessions)
    BY <1>2, <2>2, TotalMono
  <2>4. \A z \in Sessions : Covered'[z] \in Nat
    BY <2>2
  <2>5. Total(Covered', Sessions) \in Nat
    BY <2>4, TotalStep
  <2> QED  BY <1>3, <1>4, <2>1, <2>3, <2>5
<1>7. ASSUME NEW s \in Sessions, OnRecv(s)
      PROVE  received' + Pending' <= Total(Covered', Sessions)
  <2>1. PICK n \in air[s] : /\ air' = [air EXCEPT ![s] = @ \ {n}]
                            /\ seq' = [seq EXCEPT ![s] = Larger(@, n)]
    BY <1>7 DEF OnRecv
  <2>2. received' = received /\ Idle
    BY <1>7 DEF OnRecv, history
  <2>3. Covered'[s] \in Nat /\ Covered[s] + 1 <= Covered'[s]
    <3>1. air'[s] = air[s] \ {n} /\ seq'[s] = Larger(seq[s], n)
      BY <2>1 DEF ReceiverTypeOK
    <3> DEFINE B == Cardinality(air[s] \cap (1..seq[s]))
               C == Cardinality((air[s] \ {n}) \cap (1..Larger(seq[s], n)))
    <3>2. Covered'[s] = Larger(seq[s], n) - C /\ Covered[s] = seq[s] - B
      BY <3>1 DEF Covered
    <3>3. C \in Nat /\ seq[s] - B + 1 <= Larger(seq[s], n) - C
      <4>1. IsFiniteSet(air[s]) /\ air[s] \in SUBSET (Nat \ {0}) /\ seq[s] \in Nat
        BY CoveredTypes
      <4> QED  BY <4>1, IndexCounts
    <3>4. Larger(seq[s], n) \in Nat /\ Covered[s] \in Nat
      <4>1. air[s] \in SUBSET (Nat \ {0}) /\ seq[s] \in Nat
        BY CoveredTypes
      <4> QED  BY <1>2, <4>1 DEF Larger
    <3> HIDE DEF B, C
    <3> QED  BY <3>2, <3>3, <3>4
  <2>4. \A z \in Sessions \ {s} : Covered'[z] = Covered[z]
    BY <2>1 DEF Covered, ReceiverTypeOK
  <2>5. \A z \in Sessions : Covered[z] \in Nat /\ Covered'[z] \in Nat
    BY <1>2, <2>3, <2>4
  <2>6. /\ Total(Covered, Sessions \ {s}) \in Nat
        /\ Total(Covered, Sessions) = Covered[s] + Total(Covered, Sessions \ {s})
        /\ Total(Covered', Sessions) = Covered'[s] + Total(Covered, Sessions \ {s})
    BY <2>4, <2>5, TotalPoint
  <2>7. Total(Covered, Sessions) + 1 <= Total(Covered', Sessions)
    BY <1>2, <2>3, <2>6
  <2>8. Total(Covered', Sessions) \in Nat
    BY <2>3, <2>6
  <2>9. Pending = 0 /\ Pending' \in {0, 1}
    BY <2>2 DEF Pending
  <2> QED  BY <1>3, <1>4, <2>2, <2>7, <2>8, <2>9
<1>8. ASSUME NEW s \in Sessions, CountPacket(s)
      PROVE  received' + Pending' <= Total(Covered', Sessions)
  <2>1. /\ counting.of = s /\ counting' = Nothing /\ received' = received + 1
        /\ seq' = seq /\ air' = air
    BY <1>8 DEF CountPacket, clients
  <2>2. Pending = 1 /\ Pending' = 0
    BY <2>1 DEF Pending, Idle, Nothing
  <2>3. Covered' = Covered
    BY <2>1 DEF Covered
  <2> QED  BY <1>3, <1>4, <2>1, <2>2, <2>3
<1>9. CASE UNCHANGED <<seq, air, counting, received>>
  <2>1. Covered' = Covered /\ Pending' = Pending
    BY <1>9 DEF Covered, Pending, Idle
  <2> QED  BY <1>4, <1>9, <2>1
<1>10. ASSUME NEW s \in Sessions, Clear(s) PROVE UNCHANGED <<seq, air, counting, received>>
  BY <1>10 DEF Clear, clients, history
<1>11. ASSUME Report \/ DurationOver PROVE UNCHANGED <<seq, air, counting, received>>
  BY <1>11 DEF Report, DurationOver, Period, clients
<1> QED  BY <1>4, <1>5, <1>6, <1>7, <1>8, <1>9, <1>10, <1>11, QuietSteps

\* What GetRcvInfo adds is what it clears.
LEMMA Cleared ==
  ASSUME ReceiverTypeOK, Collect
  PROVE  /\ Total(num, Sessions) \in Nat /\ Total(num, inMap) \in Nat
         /\ Total(num', Sessions) \in Nat
         /\ Total(num', Sessions) + Total(num, inMap) = Total(num, Sessions)
<1> DEFINE gone == Sessions \ inMap
<1>1. /\ inMap \in SUBSET Sessions /\ gone \in SUBSET Sessions
      /\ IsFiniteSet(Sessions) /\ IsFiniteSet(inMap) /\ IsFiniteSet(gone)
  BY SessionsAssumption, FS_Subset DEF ReceiverTypeOK
<1>2. \A s \in Sessions : num[s] \in Nat
  BY DEF ReceiverTypeOK
<1>3. \A s \in Sessions : num'[s] = IF s \in inMap THEN 0 ELSE num[s]
  BY DEF Collect
<1>4. \A s \in Sessions : num'[s] \in Nat
  BY <1>2, <1>3
<1>5. /\ Total(num, Sessions) \in Nat /\ Total(num, inMap) \in Nat
      /\ Total(num, gone) \in Nat
  BY <1>1, <1>2, TotalStep
<1>6. /\ Total(num', Sessions) \in Nat /\ Total(num', inMap) \in Nat
  BY <1>1, <1>4, TotalStep
<1>7. Total(num, Sessions) = Total(num, inMap) + Total(num, gone)
  BY <1>1, <1>2, TotalSplit
<1>8. Total(num', Sessions) = Total(num', inMap) + Total(num', gone)
  BY <1>1, <1>4, TotalSplit
<1>9. Total(num', gone) = Total(num, gone)
  <2>1. \A s \in gone : num[s] \in Nat /\ num'[s] = num[s]
    BY <1>2, <1>3
  <2> HIDE DEF gone
  <2> QED  BY <1>1, <2>1, TotalSame
<1>10. Total(num', inMap) = 0
  <2>1. \A s \in inMap : num'[s] \in 0..0
    BY <1>1, <1>3
  <2>2. Total(num', inMap) <= 0 * Cardinality(inMap)
    BY <1>1, <2>1, TotalBound
  <2>3. Cardinality(inMap) \in Nat
    BY <1>1, FS_CardinalityType
  <2> QED  BY <1>6, <2>2, <2>3
<1> HIDE DEF gone
<1> QED  BY <1>5, <1>6, <1>7, <1>8, <1>9, <1>10

\* Under UDP nothing is outside of the map.
LEMMA AllInMap ==
  ASSUME ReceiverTypeOK, UdpStays, udp
  PROVE  /\ Total(num, inMap) = Total(num, Sessions)
         /\ Total(seq, inMap) = Total(seq, Sessions)
<1> DEFINE gone == Sessions \ inMap
<1>1. /\ inMap \in SUBSET Sessions /\ gone \in SUBSET Sessions
      /\ IsFiniteSet(Sessions) /\ IsFiniteSet(gone) /\ Cardinality(gone) \in Nat
  <2>1. inMap \in SUBSET Sessions /\ IsFiniteSet(Sessions)
    BY SessionsAssumption DEF ReceiverTypeOK
  <2>2. IsFiniteSet(gone)
    BY <2>1, FS_Subset
  <2> QED  BY <2>1, <2>2, FS_CardinalityType
<1>2. \A s \in Sessions : num[s] \in Nat /\ seq[s] \in Nat
  BY DEF ReceiverTypeOK
<1>3. \A s \in gone : num[s] \in 0..0 /\ seq[s] \in 0..0
  BY DEF UdpStays
<1> HIDE DEF gone
<1>4. /\ Total(num, inMap) \in Nat /\ Total(num, gone) \in Nat
      /\ Total(seq, inMap) \in Nat /\ Total(seq, gone) \in Nat
  BY <1>1, <1>2, TotalStep
<1>5. Total(num, gone) <= 0 * Cardinality(gone) /\ Total(seq, gone) <= 0 * Cardinality(gone)
  BY <1>1, <1>3, TotalBound
<1>6. Total(num, gone) = 0 /\ Total(seq, gone) = 0
  BY <1>1, <1>4, <1>5
<1>7. /\ Total(num, Sessions) = Total(num, inMap) + Total(num, gone)
      /\ Total(seq, Sessions) = Total(seq, inMap) + Total(seq, gone)
  BY <1>1, <1>2, TotalSplit DEF gone
<1> QED  BY <1>4, <1>6, <1>7

LEMMA OncePerPeriodNext ==
  ASSUME ReceiverTypeOK, Asked, UdpStays, OncePerPeriod, [ReceiverNext]_receiverVars
  PROVE  OncePerPeriod'
<1> USE SessionsAssumption
<1>1. received \in Nat /\ rcvNum \in Nat /\ \A s \in Sessions : num[s] \in Nat
  <2>1. MaxPkts * Cardinality(Sessions) \in Nat
    BY PktsAssumption, FS_CardinalityType, ProductIsNat
  <2> QED  BY <2>1 DEF ReceiverTypeOK, Counts
<1>2. Total(num, Sessions) \in Nat
  BY <1>1, TotalStep
<1>3. main = "sleep" => /\ rcvNum + Total(num, Sessions) = received
                        /\ ~Idle => counting.load = num[counting.of]
  BY DEF OncePerPeriod
<1>4. main = "gone" /\ udp => rcvNum = received
  BY DEF OncePerPeriod
<1>5. ASSUME NEW s \in Sessions, SendPacket(s) \/ Lose(s)
      PROVE  OncePerPeriod'
  BY <1>3, <1>4, <1>5
     DEF SendPacket, Lose, session, totals, handler, history, OncePerPeriod, Idle
<1>6. ASSUME NEW s \in Sessions, OnRecv(s)
      PROVE  OncePerPeriod'
  <2>1. counting' = [of |-> s, load |-> num[s]]
    BY <1>6 DEF OnRecv
  <2>2. UNCHANGED <<udp, main, num, rcvNum, received>>
    BY <1>6 DEF OnRecv, totals, handler, history
  <2>3. counting'.of = s /\ counting'.load = num[s]
    BY <2>1
  <2> QED  BY <1>3, <1>4, <2>2, <2>3 DEF OncePerPeriod
<1>7. ASSUME NEW s \in Sessions, CountPacket(s)
      PROVE  OncePerPeriod'
  <2>1. /\ counting.of = s /\ counting' = Nothing /\ received' = received + 1
        /\ num' = [num EXCEPT ![s] = counting.load + 1]
        /\ UNCHANGED <<main, rcvNum>> /\ main # "gone"
    BY <1>7 DEF CountPacket, handler, ReceiverRuns
  <2>2. SUFFICES ASSUME main = "sleep"
                 PROVE  rcvNum + Total(num', Sessions) = received + 1
    BY <2>1 DEF OncePerPeriod, Idle
  <2>3. ~Idle
    BY <2>1 DEF Idle, Nothing
  <2>4. num'[s] = num[s] + 1 /\ \A z \in Sessions \ {s} : num'[z] = num[z]
    BY <1>3, <2>1, <2>2, <2>3 DEF ReceiverTypeOK
  <2>5. \A z \in Sessions : num[z] \in Nat /\ num'[z] \in Nat
    BY <1>1, <2>4
  <2>6. /\ Total(num, Sessions \ {s}) \in Nat
        /\ Total(num, Sessions) = num[s] + Total(num, Sessions \ {s})
        /\ Total(num', Sessions) = num'[s] + Total(num, Sessions \ {s})
    BY <2>4, <2>5, TotalPoint
  <2>7. rcvNum + Total(num, Sessions) = received /\ num[s] \in Nat
    BY <1>1, <1>3, <2>2
  <2> QED  BY <1>1, <1>2, <2>4, <2>6, <2>7
<1>8. ASSUME NEW s \in Sessions, Clear(s)
      PROVE  OncePerPeriod'
  BY <1>8 DEF Clear, OncePerPeriod
<1>9. CASE Report \/ DurationOver
  <2>1. Idle /\ Collect /\ UNCHANGED <<udp, received, counting>>
    BY <1>9 DEF Report, DurationOver, Period, clients
  <2>2. /\ Total(num, inMap) \in Nat /\ Total(num', Sessions) \in Nat
        /\ Total(num', Sessions) + Total(num, inMap) = Total(num, Sessions)
    BY <2>1, Cleared
  <2>3. rcvNum' = rcvNum + Total(num, inMap)
    BY <2>1 DEF Collect
  <2>4. Idle'
    BY <2>1 DEF Idle
  <2>5. CASE Report
    <3>1. main' = main /\ main # "gone"
      BY <2>5 DEF Report, ReceiverRuns
    <3>2. main = "sleep" => rcvNum' + Total(num', Sessions) = received
      BY <1>1, <1>2, <1>3, <2>2, <2>3
    <3> QED  BY <2>1, <2>4, <3>1, <3>2 DEF OncePerPeriod
  <2>6. CASE DurationOver
    <3>1. main = "sleep" /\ main' = "gone"
      BY <2>6 DEF DurationOver
    <3>2. udp => rcvNum' = received
      BY <1>1, <1>3, <2>3, <3>1, AllInMap
    <3> QED  BY <2>1, <3>1, <3>2 DEF OncePerPeriod
  <2> QED  BY <1>9, <2>5, <2>6
<1>10. CASE /\ UNCHANGED <<udp, num, counting, rcvNum, received>>
            /\ main' = main \/ main' \in {"collect", "killed"}
  BY <1>3, <1>4, <1>10 DEF OncePerPeriod, Idle
<1> QED  BY <1>5, <1>6, <1>7, <1>8, <1>9, <1>10, QuietSteps

LEMMA Between ==
  ASSUME NEW a \in Nat, NEW b \in Nat, NEW t \in Nat, NEW w \in Nat, a <= b, b <= t, t < w
  PROVE  b - a \in Nat /\ b - a < w
OBVIOUS

LEMMA SmallMod ==
  ASSUME NEW x \in Nat, NEW w \in Nat, x < w
  PROVE  x % w = x
OBVIOUS

\* The loss of a period, printed by the timer or at the end of the duration.
LEMMA LossPrinted ==
  ASSUME ReceiverInv, main = "sleep", udp, Period, PrintLoss
  PROVE  lossReport'.lost <= lossReport'.missing
<1> USE SessionsAssumption, PktsAssumption DEF ReceiverInv
<1>1. Idle /\ Collect
  BY DEF Period
<1>2. \A s \in Sessions : /\ num[s] \in Nat /\ seq[s] \in Nat /\ sent[s] \in Nat
                          /\ sent[s] \in 0..MaxPkts /\ seq[s] <= sent[s]
  BY DEF ReceiverTypeOK, PerSession
<1>3. /\ Total(num, Sessions) \in Nat /\ Total(seq, Sessions) \in Nat
      /\ Total(sent, Sessions) \in Nat
  BY <1>2, TotalStep
<1>4. Total(seq, Sessions) <= Total(sent, Sessions)
  BY <1>2, TotalMono
<1>5. Total(sent, Sessions) < Word /\ Word \in Nat
  <2>1. Total(sent, Sessions) <= MaxPkts * Cardinality(Sessions)
    BY <1>2, TotalBound
  <2>2. MaxPkts * Cardinality(Sessions) \in Nat
    BY FS_CardinalityType, ProductIsNat
  <2> QED  BY <1>3, <2>1, <2>2, WordAssumption
<1>6. rcvNum' = received
  <2>1. rcvNum' = rcvNum + Total(num, inMap)
    BY <1>1 DEF Collect
  <2>2. Total(num, inMap) = Total(num, Sessions)
    BY AllInMap
  <2> QED  BY <2>1, <2>2 DEF OncePerPeriod
<1>7. received \in Nat /\ rcvSeq \in Nat /\ rcvSeq <= Total(sent, Sessions)
  <2>1. MaxPkts * Cardinality(Sessions) \in Nat
    BY FS_CardinalityType, ProductIsNat
  <2> QED  BY <2>1 DEF ReceiverTypeOK, Counts, NoMoreThanSent
<1>8. received <= Total(seq, Sessions)
  <2>1. received <= Total(Covered, Sessions)
    BY <1>1, <1>7 DEF IndexCovers, Pending
  <2>2. \A s \in Sessions : Covered[s] \in Nat /\ seq[s] \in Nat /\ Covered[s] <= seq[s]
    <3>1. ASSUME NEW s \in Sessions
          PROVE  Covered[s] \in Nat /\ seq[s] \in Nat /\ Covered[s] <= seq[s]
      <4>1. /\ Covered[s] = seq[s] - Cardinality(air[s] \cap 1..seq[s])
            /\ Covered[s] \in Nat /\ seq[s] \in Nat
            /\ Cardinality(air[s] \cap 1..seq[s]) \in Nat
        BY CoveredTypes
      <4> HIDE DEF ReceiverInv
      <4> QED  BY <4>1
    <3> QED  BY <3>1
  <2>3. Total(Covered, Sessions) <= Total(seq, Sessions)
    BY <2>2, TotalMono
  <2>4. Total(Covered, Sessions) \in Nat
    BY <2>2, TotalStep
  <2> QED  BY <1>3, <1>7, <2>1, <2>3, <2>4
<1>9. /\ rcvSeq' \in Nat /\ received <= rcvSeq' /\ rcvSeq' <= Total(sent, Sessions)
  <2>1. rcvSeq' = Larger(rcvSeq, Total(seq, inMap))
    BY <1>1 DEF Collect
  <2>2. Total(seq, inMap) = Total(seq, Sessions)
    BY AllInMap
  <2> HIDE DEF ReceiverInv
  <2> QED  BY <1>3, <1>4, <1>7, <1>8, <2>1, <2>2 DEF Larger
<1>10. (rcvSeq' - rcvNum') % Word = rcvSeq' - received
  <2>1. rcvSeq' - received \in Nat /\ rcvSeq' - received < Word
    BY <1>3, <1>5, <1>7, <1>9, Between
  <2> QED  BY <1>5, <1>6, <2>1, SmallMod
<1>11. /\ lossReport'.lost = rcvSeq' - received
       /\ lossReport'.missing = Total(sent, Sessions) - received
  BY <1>10 DEF PrintLoss
<1> HIDE DEF ReceiverInv
<1> QED  BY <1>3, <1>7, <1>9, <1>11

LEMMA NoMoreThanSentNext ==
  ASSUME ReceiverInv, [ReceiverNext]_receiverVars
  PROVE  NoMoreThanSent'
<1> USE SessionsAssumption, PktsAssumption DEF ReceiverInv
<1>1. \A s \in Sessions : /\ seq[s] \in Nat /\ sent[s] \in Nat /\ seq[s] <= sent[s]
  BY DEF ReceiverTypeOK, PerSession
<1>2. Total(seq, Sessions) \in Nat /\ Total(sent, Sessions) \in Nat
  BY <1>1, TotalStep
<1>3. Total(seq, Sessions) <= Total(sent, Sessions)
  BY <1>1, TotalMono
<1>4. rcvSeq \in Nat
  <2>1. MaxPkts * Cardinality(Sessions) \in Nat
    BY FS_CardinalityType, ProductIsNat
  <2> QED  BY <2>1 DEF ReceiverTypeOK, Counts
<1>5. /\ main = "sleep" => rcvSeq <= Total(sent, Sessions)
      /\ main \in {"sleep", "gone"} => lossReport.lost <= lossReport.missing
  BY DEF NoMoreThanSent
<1> HIDE DEF ReceiverInv
<1>6. ASSUME NEW s \in Sessions, SendPacket(s)
      PROVE  NoMoreThanSent'
  <2>1. UNCHANGED <<main, rcvSeq, lossReport>>
    BY <1>6 DEF SendPacket, totals, handler, history
  <2>2. \A z \in Sessions : sent'[z] \in Nat /\ sent[z] <= sent'[z]
    BY <1>1, <1>6 DEF SendPacket, ReceiverInv, ReceiverTypeOK
  <2>3. Total(sent, Sessions) <= Total(sent', Sessions)
    BY <1>1, <2>2, TotalMono
  <2>4. Total(sent', Sessions) \in Nat
    BY <2>2, TotalStep
  <2>5. main = "sleep" => rcvSeq <= Total(sent', Sessions)
    BY <1>2, <1>4, <1>5, <2>3, <2>4
  <2> QED  BY <1>5, <2>1, <2>5 DEF NoMoreThanSent
<1>7. ASSUME NEW s \in Sessions, Lose(s) \/ OnRecv(s) \/ CountPacket(s)
      PROVE  NoMoreThanSent'
  BY <1>5, <1>7 DEF Lose, OnRecv, CountPacket, clients, totals, handler, history, NoMoreThanSent
<1>8. ASSUME NEW s \in Sessions, Clear(s)
      PROVE  NoMoreThanSent'
  BY <1>8 DEF Clear, NoMoreThanSent
<1>9. CASE Report \/ DurationOver
  <2>1. Period /\ sent' = sent
    BY <1>9 DEF Report, DurationOver, Period, clients
  <2>2. main = "sleep" => rcvSeq' <= Total(sent', Sessions)
    <3>1. rcvSeq' = Larger(rcvSeq, Total(seq, inMap))
      BY <2>1 DEF Period, Collect
    <3>2. /\ inMap \in SUBSET Sessions /\ Sessions \ inMap \in SUBSET Sessions
      BY DEF ReceiverInv, ReceiverTypeOK
    <3>3. Total(seq, inMap) \in Nat /\ Total(seq, Sessions \ inMap) \in Nat
      BY <1>1, <3>2, TotalStep
    <3>4. Total(seq, Sessions) = Total(seq, inMap) + Total(seq, Sessions \ inMap)
      BY <1>1, <3>2, TotalSplit
    <3>5. Total(seq, inMap) <= Total(sent, Sessions)
      BY <1>2, <1>3, <3>3, <3>4
    <3> QED  BY <1>2, <1>5, <2>1, <3>1, <3>3, <3>5 DEF Larger
  <2>3. main = "sleep" \/ (main = "collect" /\ main' = main)
    BY <1>9 DEF Report, DurationOver, ReceiverRuns, ReceiverInv, ReceiverTypeOK
  <2>4. lossReport' = lossReport \/ (udp /\ PrintLoss)
    BY <1>9 DEF Report, DurationOver, PrintLoss
  <2>5. main = "sleep" => lossReport'.lost <= lossReport'.missing
    BY <1>5, <2>1, <2>4, LossPrinted
  <2>6. main' = "sleep" => main = "sleep"
    BY <2>3
  <2> QED  BY <2>2, <2>3, <2>5, <2>6 DEF NoMoreThanSent
<1>10. CASE /\ UNCHANGED <<sent, lossReport>>
            /\ main' = main \/ main' \in {"collect", "killed"}
            /\ UNCHANGED rcvSeq \/ main' = "killed"
  BY <1>5, <1>10 DEF NoMoreThanSent
<1> QED  BY <1>6, <1>7, <1>8, <1>9, <1>10, QuietSteps

LEMMA RecordOK ==
  ASSUME NEW s \in Sessions, NEW n \in 0..MaxPkts
  PROVE  [of |-> s, load |-> n] \in [of : Sessions, load : 0..MaxPkts]
OBVIOUS

LEMMA ReceiverTypeNext ==
  ASSUME ReceiverInv, Asked', [ReceiverNext]_receiverVars
  PROVE  ReceiverTypeOK'
<1> USE SessionsAssumption, PktsAssumption
<1> DEFINE most == MaxPkts * Cardinality(Sessions)
<1>1. most \in Nat
  BY FS_CardinalityType, ProductIsNat
<1>2. ReceiverTypeOK /\ PerSession /\ Given
  BY DEF ReceiverInv
<1>3. Total(seq, Sessions) \in 0..most
  <2>1. \A s \in Sessions : seq[s] \in Nat /\ seq[s] \in 0..MaxPkts
    BY <1>2 DEF ReceiverTypeOK
  <2>2. Total(seq, Sessions) \in Nat
    BY <2>1, TotalStep
  <2>3. Total(seq, Sessions) <= most
    BY <2>1, TotalBound
  <2> QED  BY <1>1, <2>2, <2>3
<1>4. Total(num, inMap) \in Nat /\ Total(seq, inMap) \in 0..most
  <2>1. \A s \in Sessions : seq[s] \in Nat /\ num[s] \in Nat
    BY <1>2 DEF ReceiverTypeOK
  <2>2. inMap \in SUBSET Sessions /\ Sessions \ inMap \in SUBSET Sessions
    BY <1>2 DEF ReceiverTypeOK
  <2>3. /\ Total(num, inMap) \in Nat /\ Total(seq, inMap) \in Nat
        /\ Total(seq, Sessions \ inMap) \in Nat
    BY <2>1, <2>2, TotalStep
  <2>4. Total(seq, Sessions) = Total(seq, inMap) + Total(seq, Sessions \ inMap)
    BY <2>1, <2>2, TotalSplit
  <2> HIDE DEF most
  <2> QED  BY <1>1, <1>3, <2>3, <2>4
<1>5. Total(Left, Sessions) \in 0..most
  <2>1. \A s \in Sessions : Left[s] \in Nat /\ Left[s] \in 0..MaxPkts
    BY <1>2, LeftTypes
  <2>2. Total(Left, Sessions) \in Nat
    BY <2>1, TotalStep
  <2>3. Total(Left, Sessions) <= most
    BY <2>1, TotalBound
  <2> QED  BY <1>1, <2>2, <2>3
<1>6. Counts = 0..most
  BY DEF Counts
<1> HIDE DEF most
<1> USE <1>1, <1>2, <1>6 DEF ReceiverTypeOK, clients, session, totals, handler, history
<1>7. ASSUME NEW s \in Sessions, Open(s) PROVE ReceiverTypeOK'
  BY <1>7 DEF Open, Nothing
<1>8. ASSUME NEW s \in Sessions, SendPacket(s) PROVE ReceiverTypeOK'
  <2>1. sent[s] \in 0..MaxPkts /\ sent[s] < MaxPkts
    BY <1>8 DEF SendPacket
  <2>2. sent[s] + 1 \in 1..MaxPkts
    BY <2>1
  <2>3. sent' = [sent EXCEPT ![s] = sent[s] + 1] /\ air' = [air EXCEPT ![s] = @ \cup {sent[s] + 1}]
    BY <1>8 DEF SendPacket
  <2>4. sent' \in [Sessions -> 0..MaxPkts] /\ air' \in [Sessions -> SUBSET (1..MaxPkts)]
    BY <2>2, <2>3
  <2> QED  BY <1>8, <2>4 DEF SendPacket, Nothing
<1>9. ASSUME NEW s \in Sessions, Close(s) PROVE ReceiverTypeOK'
  BY <1>9 DEF Close, Nothing
<1>10. ASSUME NEW s \in Sessions, Lose(s) PROVE ReceiverTypeOK'
  BY <1>10 DEF Lose, Nothing
<1>11. ASSUME NEW s \in Sessions, OnRecv(s) PROVE ReceiverTypeOK'
  <2>1. counting' \in [of : Sessions, load : 0..MaxPkts]
    BY <1>11, RecordOK DEF OnRecv
  <2>2. seq' \in [Sessions -> 0..MaxPkts] /\ air' \in [Sessions -> SUBSET (1..MaxPkts)]
    BY <1>11 DEF OnRecv, Larger
  <2> QED  BY <1>11, <2>1, <2>2 DEF OnRecv, Nothing
<1>12. ASSUME NEW s \in Sessions, CountPacket(s) PROVE ReceiverTypeOK'
  <2>1. counting.load + 1 \in 0..MaxPkts
    <3>1. counting.load \in Nat /\ counting.of = s
      BY <1>12 DEF CountPacket, Nothing
    <3>2. Cardinality(air[s]) \in Nat
      BY AirFinite
    <3>3. counting.load + Cardinality(air[s]) + 1 <= sent[s]
      BY <3>1 DEF PerSession
    <3>4. sent[s] \in 0..MaxPkts
      OBVIOUS
    <3> QED  BY <3>1, <3>2, <3>3, <3>4
  <2>2. received' \in Counts
    <3>1. counting.of = s /\ received' = received + 1
      BY <1>12 DEF CountPacket
    <3>2. Pending = 1
      BY <3>1 DEF Pending, Idle, Nothing
    <3>3. received + 1 <= Total(Left, Sessions)
      BY <3>2 DEF Given
    <3> QED  BY <1>5, <3>1, <3>3
  <2> QED  BY <1>12, <2>1, <2>2 DEF CountPacket, Nothing
<1>13. ASSUME NEW s \in Sessions, EndOfStream(s) PROVE ReceiverTypeOK'
  BY <1>13 DEF EndOfStream, Erase, Nothing
<1>14. ASSUME NEW s \in Sessions, EraseTask(s) PROVE ReceiverTypeOK'
  BY <1>14 DEF EraseTask, Erase, Nothing
<1>15. CASE Report \/ DurationOver
  <2>1. rcvNum' \in Nat /\ rcvSeq' \in Counts /\ num' \in [Sessions -> 0..MaxPkts]
    <3>1. Collect
      BY <1>15 DEF Report, DurationOver, Period
    <3>2. /\ rcvNum' = rcvNum + Total(num, inMap) /\ rcvNum \in Nat
          /\ rcvSeq' = Larger(rcvSeq, Total(seq, inMap)) /\ rcvSeq \in Counts
      BY <3>1 DEF Collect
    <3>3. num' \in [Sessions -> 0..MaxPkts]
      BY <3>1 DEF Collect
    <3> QED  BY <1>4, <3>2, <3>3 DEF Larger
  <2> QED  BY <1>15, <2>1 DEF Report, DurationOver, Period, Nothing
<1>16. CASE ManagerTimer
  BY <1>16 DEF ManagerTimer, Nothing
<1>17. CASE BeginCollect
  BY <1>17 DEF BeginCollect, Nothing
<1>18. ASSUME NEW s \in Sessions, Ask(s) PROVE ReceiverTypeOK'
  <2>1. asking' \in [of : Sessions, load : 0..MaxPkts]
    BY <1>18, RecordOK DEF Ask
  <2> QED  BY <1>18, <2>1 DEF Ask, Nothing
<1>19. ASSUME NEW s \in Sessions, Clear(s) PROVE ReceiverTypeOK'
  <2>1. curSeq' \in Counts
    <3>1. curSeq' \in Nat
      BY <1>19 DEF Clear
    <3> DEFINE done == Sessions \ (todo' \cup {asking'.of})
    <3>2. curSeq' <= MaxPkts * Cardinality(done)
      BY DEF Asked
    <3>3. IsFiniteSet(Sessions) /\ done \subseteq Sessions /\ Cardinality(Sessions) \in Nat
      BY FS_CardinalityType
    <3> HIDE DEF done
    <3>4. IsFiniteSet(done) /\ Cardinality(done) <= Cardinality(Sessions)
      BY <3>3, FS_Subset
    <3>5. Cardinality(done) \in Nat
      BY <3>4, FS_CardinalityType
    <3>6. MaxPkts * Cardinality(done) <= most /\ MaxPkts * Cardinality(done) \in Nat
      BY <3>3, <3>4, <3>5, ProductUp, ProductIsNat DEF most
    <3> QED  BY <3>1, <3>2, <3>6
  <2>2. rcvNum' \in Nat /\ num' \in [Sessions -> 0..MaxPkts] /\ asking' = Nothing
    BY <1>19 DEF Clear, Nothing
  <2> QED  BY <1>19, <2>1, <2>2 DEF Clear, Nothing
<1>20. CASE EndCollect
  BY <1>20 DEF EndCollect, Larger, Nothing
<1>21. CASE UNCHANGED receiverVars
  BY <1>21 DEF receiverVars, Nothing
<1> QED  BY <1>7, <1>8, <1>9, <1>10, <1>11, <1>12, <1>13, <1>14, <1>15, <1>16, <1>17, <1>18,
            <1>19, <1>20, <1>21 DEF ReceiverNext, Loop, ReceiverEnded

LEMMA ReceiverInvInit == ReceiverInit => ReceiverInv
<1> SUFFICES ASSUME ReceiverInit PROVE ReceiverInv
  OBVIOUS
<1> USE SessionsAssumption, PktsAssumption, ModeAssumption DEF ReceiverInit
<1>1. MaxPkts * Cardinality(Sessions) \in Nat
  BY FS_CardinalityType, ProductIsNat
<1>2. Cardinality({}) = 0
  BY FS_EmptySet
<1>3. ReceiverTypeOK
  <2>1. 0 \in Counts
    BY <1>1 DEF Counts
  <2>2. conn \in [Sessions -> {"none", "open", "closed"}]
    OBVIOUS
  <2>3. air \in [Sessions -> SUBSET (1..MaxPkts)]
    OBVIOUS
  <2>4. /\ sent \in [Sessions -> 0..MaxPkts] /\ num \in [Sessions -> 0..MaxPkts]
        /\ seq \in [Sessions -> 0..MaxPkts]
    OBVIOUS
  <2>5. udp \in Protocols /\ rcvNum \in Nat /\ main \in {"sleep", "collect", "gone", "killed"}
    OBVIOUS
  <2> QED  BY <2>1, <2>2, <2>3, <2>4, <2>5, Zenon DEF ReceiverTypeOK
<1>4. PerSession
  BY <1>2 DEF PerSession, Nothing
<1>5. UdpStays
  BY DEF UdpStays, Idle
<1>6. Asked
  <2> DEFINE done == Sessions \ (todo \cup {asking.of})
  <2>1. MaxPkts * Cardinality(done) \in Nat
    BY FS_Subset, FS_CardinalityType, ProductIsNat
  <2> QED  BY <2>1 DEF Asked, Nothing
<1>7. Given
  <2>1. \A s \in Sessions : Left[s] \in Nat
    BY <1>2 DEF Left
  <2>2. Total(Left, Sessions) \in Nat
    BY <2>1, TotalStep
  <2> QED  BY <2>2 DEF Given, Pending, Idle
<1>8. IndexCovers
  <2>1. \A s \in Sessions : Covered[s] \in Nat
    BY <1>3, CoveredTypes
  <2>2. Total(Covered, Sessions) \in Nat
    BY <2>1, TotalStep
  <2> QED  BY <2>2 DEF IndexCovers, Pending, Idle
<1>9. OncePerPeriod
  <2>1. \A s \in Sessions : num[s] \in 0..0 /\ num[s] \in Nat
    OBVIOUS
  <2>2. Total(num, Sessions) \in Nat
    BY <2>1, TotalStep
  <2>3. Total(num, Sessions) <= 0 * Cardinality(Sessions)
    BY <2>1, TotalBound
  <2>4. Cardinality(Sessions) \in Nat
    BY FS_CardinalityType
  <2>5. Total(num, Sessions) = 0
    BY <2>2, <2>3, <2>4
  <2> QED  BY <2>5 DEF OncePerPeriod, Idle
<1>10. NoMoreThanSent
  <2>1. \A s \in Sessions : sent[s] \in Nat
    OBVIOUS
  <2>2. Total(sent, Sessions) \in Nat
    BY <2>1, TotalStep
  <2> QED  BY <2>2 DEF NoMoreThanSent, NoReport
<1> QED  BY <1>3, <1>4, <1>5, <1>6, <1>7, <1>8, <1>9, <1>10 DEF ReceiverInv

LEMMA ReceiverInvNext == ReceiverInv /\ [ReceiverNext]_receiverVars => ReceiverInv'
<1> SUFFICES ASSUME ReceiverInv, [ReceiverNext]_receiverVars PROVE ReceiverInv'
  OBVIOUS
<1>1. /\ ReceiverTypeOK /\ PerSession /\ UdpStays /\ Asked /\ Given
      /\ IndexCovers /\ OncePerPeriod
  BY DEF ReceiverInv
<1>2. PerSession' /\ UdpStays'
  BY <1>1, PerSessionNext, UdpStaysNext
<1>3. Asked'
  BY <1>1, AskedNext
<1>4. Given' /\ IndexCovers'
  BY <1>1, GivenNext, IndexCoversNext
<1>5. OncePerPeriod' /\ NoMoreThanSent'
  BY <1>1, OncePerPeriodNext, NoMoreThanSentNext
<1>6. ReceiverTypeOK'
  BY <1>3, ReceiverTypeNext
<1> QED  BY <1>2, <1>3, <1>4, <1>5, <1>6 DEF ReceiverInv

\* The invariant of the receiving side.
THEOREM ReceiverInvariant == ReceiverSpec => []ReceiverInv
<1>1. ReceiverInit => ReceiverInv
  BY ReceiverInvInit
<1>2. ReceiverInv /\ [ReceiverNext]_receiverVars => ReceiverInv'
  BY ReceiverInvNext
<1> QED  BY <1>1, <1>2, PTL DEF ReceiverSpec

\* However packets come and reports are asked for, a packet enters the totals of
\* PressModel::GetRcvInfo once, and no counter leaves its range.
THEOREM ReceiverCounts == ReceiverSpec => []Counted
<1>1. ReceiverInv => Counted
  BY DEF ReceiverInv, OncePerPeriod, Counted, CountedOnce
<1> QED  BY <1>1, ReceiverInvariant, PTL

\* The loss PressModel prints is never more than what is missing, and never wraps.
THEOREM ReceiverLoss == ReceiverSpec => []LossIsReal
<1>1. ReceiverInv => LossIsReal
  BY DEF ReceiverInv, NoMoreThanSent, LossIsReal
<1> QED  BY <1>1, ReceiverInvariant, PTL
===============================================================================
