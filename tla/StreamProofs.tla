----------------------------- MODULE StreamProofs -----------------------------
(***************************************************************************)
(* What the two ends of a TCP stream guarantee.  StickyPacket: for         *)
(* messages of any length, cut in any way, and for buffers of any size.    *)
(* SendBuffer, the buffered send of a Socket: for packets, buffers and     *)
(* delays of any size the stream is kept, and a send timeout is real.      *)
(***************************************************************************)
EXTENDS StickyPacket, SendBuffer, SequenceTheorems, TLAPS

USE DEF stream

(* The inductive invariant. *)

Done == Len(delivered)
Message(i) == <<Start(i), ends[i] - Start(i)>>

\* The messages follow one another, and none is received before it is sent.
Layout ==
  /\ \A i \in DOMAIN ends : ends[i] - Start(i) \in Lens
  /\ \A i, j \in DOMAIN ends : i < j => ends[i] < ends[j]
  /\ read <= Sent

\* What was delivered are the first messages, and the dispatch is behind them.
Behind ==
  /\ Done <= Len(ends)
  /\ \A i \in 1..Done : delivered[i] = Message(i)
  /\ front + offset = Start(Done + 1)

\* There is always room to receive, and a dispatch has a message to begin with.
Progress ==
  /\ cap >= Cap0
  /\ pc \in {"recv"} => Size < cap
  /\ pc # "dispatch" => offset = 0
  /\ pc = "dispatch" /\ offset = 0 => Done + 1 \in DOMAIN ends /\ read >= ends[Done + 1]

IInv == Framing /\ Layout /\ Behind /\ Progress

\* The types that the steps below start from.
LEMMA Types ==
  ASSUME IInv
  PROVE  /\ ends \in Seq(Nat) /\ Len(ends) \in Nat /\ DOMAIN ends = 1..Len(ends)
         /\ \A i \in 1..Len(ends) : ends[i] \in Nat
         /\ delivered \in Seq(Nat \X Nat) /\ Done \in Nat
         /\ read \in Nat /\ front \in Nat /\ offset \in Nat /\ cap \in Nat
         /\ HeadLen \in Nat \ {0}
         /\ Lens \subseteq Nat /\ \A l \in Lens : l >= HeadLen
         /\ \A i \in 1..Len(ends) + 1 : Start(i) \in Nat
         /\ Sent \in Nat /\ Sent = Start(Len(ends) + 1)
<1>1. ends \in Seq(Nat) /\ delivered \in Seq(Nat \X Nat)
  BY DEF IInv, Framing, TypeOK
<1>2. /\ Len(ends) \in Nat /\ DOMAIN ends = 1..Len(ends)
      /\ \A i \in 1..Len(ends) : ends[i] \in Nat /\ Done \in Nat
  BY <1>1 DEF Done
<1>3. \A i \in 1..Len(ends) + 1 : Start(i) \in Nat
  BY <1>2 DEF Start
<1>4. Sent \in Nat /\ Sent = Start(Len(ends) + 1)
  BY <1>1, <1>2, <1>3 DEF Sent, Start
<1>5. read \in Nat /\ front \in Nat /\ offset \in Nat /\ cap \in Nat
  BY DEF IInv, Framing, TypeOK
<1> QED BY <1>1, <1>2, <1>3, <1>4, <1>5, HeadAssumption, LensAssumption DEF Done

\* The header the dispatch looks at is that of the next message: if there are
\* bytes behind those delivered, they begin a message that was sent.
LEMMA NextHeader ==
  ASSUME IInv, Size - offset >= HeadLen
  PROVE  /\ Done + 1 \in DOMAIN ends
         /\ Headers(front + offset) = {ends[Done + 1] - (front + offset)}
         /\ ends[Done + 1] - (front + offset) \in Lens
<1> DEFINE p == front + offset
<1>1. p = Start(Done + 1) /\ Done <= Len(ends) /\ read <= Sent
  BY DEF IInv, Behind, Layout
<1>2. read > p
  BY Types DEF Size
<1>3. Done + 1 \in DOMAIN ends
  BY <1>1, <1>2, Types
<1>4. \A i \in DOMAIN ends : Start(i) = p => i = Done + 1
  <2> SUFFICES ASSUME NEW i \in DOMAIN ends, Start(i) = Start(Done + 1)
               PROVE  i = Done + 1
    BY <1>1
  <2>0. DOMAIN ends = 1..Len(ends) /\ Len(ends) \in Nat BY Types
  <2>1. \A j \in DOMAIN ends : ends[j] > Start(j)
    <3> SUFFICES ASSUME NEW j \in DOMAIN ends PROVE ends[j] > Start(j)
      OBVIOUS
    <3>1. ends[j] - Start(j) \in Lens BY DEF IInv, Layout
    <3>2. ends[j] - Start(j) > 0 BY <3>1, Types
    <3>3. ends[j] \in Nat /\ Start(j) \in Nat BY <2>0, Types
    <3> QED BY <3>2, <3>3
  <2>2. \A j, k \in DOMAIN ends : j < k => Start(j) < Start(k)
    <3> SUFFICES ASSUME NEW j \in DOMAIN ends, NEW k \in DOMAIN ends, j < k
                 PROVE  Start(j) < Start(k)
      OBVIOUS
    <3>1. Start(k) = ends[k - 1] /\ k - 1 \in DOMAIN ends
      BY <2>0 DEF Start
    <3>2. CASE j = 1
      <4>1. Start(j) = 0 BY <3>2 DEF Start
      <4>2. ends[k - 1] > Start(k - 1) /\ Start(k - 1) \in Nat /\ ends[k - 1] \in Nat
        <5>1. k - 1 \in 1..Len(ends) /\ k - 1 \in 1..Len(ends) + 1
          BY <2>0, <3>1
        <5>2. Start(k - 1) \in Nat /\ ends[k - 1] \in Nat BY <5>1, Types
        <5> QED BY <2>1, <3>1, <5>2
      <4> QED BY <3>1, <4>1, <4>2
    <3>3. CASE j # 1
      <4>1. Start(j) = ends[j - 1] /\ j - 1 \in DOMAIN ends /\ j - 1 < k - 1
        BY <2>0, <3>3 DEF Start
      <4> QED BY <3>1, <4>1 DEF IInv, Layout
    <3> QED BY <3>2, <3>3
  <2>3. i \in Int /\ Done + 1 \in Int BY Types
  <2>4. Start(i) \in Nat /\ Start(Done + 1) \in Nat BY <1>3, Types
  <2> QED BY <1>3, <2>2, <2>3, <2>4
<1>5. {i \in DOMAIN ends : Start(i) = p} = {Done + 1}
  BY <1>1, <1>3, <1>4
<1>6. Headers(p) = {ends[Done + 1] - p}
  BY <1>5 DEF Headers
<1>7. ends[Done + 1] - p \in Lens
  BY <1>1, <1>3 DEF IInv, Layout
<1> QED BY <1>3, <1>6, <1>7

\* The messages not delivered end behind the next header.
LEMMA Ahead ==
  ASSUME IInv, NEW i \in DOMAIN ends, i > Done
  PROVE  /\ Done + 1 \in DOMAIN ends
         /\ ends[i] >= ends[Done + 1]
         /\ ends[Done + 1] >= front + offset + HeadLen
<1>1. DOMAIN ends = 1..Len(ends) /\ Len(ends) \in Nat /\ Done \in Nat BY Types
<1>2. Done + 1 \in 1..Len(ends) /\ Done + 1 \in 1..Len(ends) + 1 BY <1>1
<1>3. ends[i] \in Nat /\ ends[Done + 1] \in Nat /\ Start(Done + 1) \in Nat
  BY <1>1, <1>2, Types
<1>4. ends[i] >= ends[Done + 1]
  <2>1. CASE i = Done + 1 BY <1>3, <2>1
  <2>2. CASE i # Done + 1
    <3>1. Done + 1 < i BY <1>1, <2>2
    <3>2. ends[Done + 1] < ends[i] BY <1>1, <1>2, <3>1 DEF IInv, Layout
    <3> QED BY <1>3, <3>2
  <2> QED BY <2>1, <2>2
<1>5. ends[Done + 1] - Start(Done + 1) \in Lens
  BY <1>1, <1>2 DEF IInv, Layout
<1>6. ends[Done + 1] - Start(Done + 1) >= HeadLen BY <1>5, Types
<1>7. Start(Done + 1) = front + offset BY DEF IInv, Behind
<1>8. front \in Nat /\ offset \in Nat /\ HeadLen \in Nat BY Types
<1>9. ends[Done + 1] >= front + offset + HeadLen BY <1>3, <1>6, <1>7, <1>8
<1> QED BY <1>1, <1>2, <1>4, <1>9

\* An index is the last one, or before it.
LEMMA LastOrLess == \A n \in Nat : \A i \in 1..n : i = n \/ i < n
OBVIOUS

\* The peer sends another message.
LEMMA SendStep ==
  ASSUME IInv, NEW l \in Lens, Send(l)
  PROVE  IInv'
<1>0. /\ Len(ends) \in Nat /\ Done \in Nat /\ DOMAIN ends = 1..Len(ends)
      /\ \A i \in 1..Len(ends) : ends[i] \in Nat
  BY Types
<1>1. /\ ends' = Append(ends, Sent + l) /\ ~closed
      /\ UNCHANGED <<closed, read, front, cap, offset, delivered, pc>>
  BY DEF Send
<1>2. Sent \in Nat /\ l \in Nat /\ l > 0 /\ Sent + l \in Nat
  BY Types
<1>3. /\ ends' \in Seq(Nat) /\ Len(ends') = Len(ends) + 1
      /\ DOMAIN ends' = 1..Len(ends) + 1
      /\ \A i \in 1..Len(ends) : ends'[i] = ends[i]
      /\ ends'[Len(ends) + 1] = Sent + l
  BY <1>1, <1>2, Types
<1>4. \A i \in 1..Len(ends) + 1 : Start(i)' = Start(i)
  BY <1>0, <1>3 DEF Start
<1>5. Sent' = Sent + l
  BY <1>2, <1>3, Types DEF Sent
<1>6. \A i \in 1..Len(ends) : ends[i] <= Sent
  <2> SUFFICES ASSUME NEW i \in 1..Len(ends) PROVE ends[i] <= Sent
    OBVIOUS
  <2>1. Sent = ends[Len(ends)] /\ Len(ends) \in DOMAIN ends /\ i \in DOMAIN ends
    BY Types DEF Sent
  <2>2. i = Len(ends) \/ i < Len(ends) BY <1>0, LastOrLess
  <2>3. i < Len(ends) => ends[i] < ends[Len(ends)]
    BY <2>1 DEF IInv, Layout
  <2>4. ends[i] \in Nat BY Types
  <2> QED BY <1>2, <2>1, <2>2, <2>3, <2>4
<1>7. Layout'
  <2>1. \A i \in DOMAIN ends' : ends'[i] - Start(i)' \in Lens
    <3> SUFFICES ASSUME NEW i \in 1..Len(ends) + 1
                 PROVE  ends'[i] - Start(i)' \in Lens
      BY <1>3
    <3>1. CASE i \in 1..Len(ends)
      BY <1>3, <1>4, <3>1, Types DEF IInv, Layout
    <3>2. CASE i = Len(ends) + 1
      <4>1. Start(i)' = Sent BY <1>4, <3>2, Types
      <4> QED BY <1>2, <1>3, <3>2, <4>1
    <3> QED BY <3>1, <3>2, Types
  <2>2. \A i, j \in DOMAIN ends' : i < j => ends'[i] < ends'[j]
    <3> SUFFICES ASSUME NEW i \in 1..Len(ends) + 1, NEW j \in 1..Len(ends) + 1,
                        i < j
                 PROVE  ends'[i] < ends'[j]
      BY <1>3
    <3>1. i \in 1..Len(ends) /\ ends'[i] = ends[i] BY <1>0, <1>3
    <3>2. CASE j = Len(ends) + 1
      <4>1. ends[i] <= Sent /\ ends[i] \in Nat BY <1>6, <3>1, Types
      <4> QED BY <1>2, <1>3, <3>1, <3>2, <4>1
    <3>3. CASE j \in 1..Len(ends)
      <4>1. ends'[j] = ends[j] /\ i \in DOMAIN ends /\ j \in DOMAIN ends
        BY <1>0, <1>3, <3>1, <3>3
      <4> QED BY <3>1, <4>1 DEF IInv, Layout
    <3> QED BY <1>0, <3>2, <3>3
  <2>3. read' <= Sent' BY <1>1, <1>2, <1>5, Types DEF IInv, Layout
  <2> QED BY <2>1, <2>2, <2>3 DEF Layout
<1>8. Behind'
  <2>1. Done' = Done /\ Done <= Len(ends) /\ Done \in Nat
    BY <1>1, Types DEF Done, IInv, Behind
  <2>2. \A i \in 1..Done : delivered'[i] = Message(i)'
    <3> SUFFICES ASSUME NEW i \in 1..Done PROVE delivered'[i] = Message(i)'
      OBVIOUS
    <3>1. i \in 1..Len(ends) /\ i \in 1..Len(ends) + 1 BY <2>1, Types
    <3>2. delivered[i] = <<Start(i), ends[i] - Start(i)>>
      BY DEF IInv, Behind, Message
    <3>3. Start(i)' = Start(i) /\ ends'[i] = ends[i] BY <1>3, <1>4, <3>1
    <3> QED BY <1>1, <3>2, <3>3 DEF Message
  <2>3. Start(Done + 1)' = Start(Done + 1)
    BY <1>0, <1>3, <2>1 DEF Start
  <2>4. front + offset = Start(Done + 1) BY DEF IInv, Behind
  <2>5. front' + offset' = Start(Done + 1)'
    BY <1>1, <2>3, <2>4
  <2>6. Done' <= Len(ends') BY <1>0, <1>3, <2>1
  <2>7. \A i \in 1..Done' : delivered'[i] = Message(i)' BY <2>1, <2>2
  <2> QED BY <2>5, <2>6, <2>7 DEF Behind
<1>9. Progress'
  <2>1. Done + 1 \in DOMAIN ends => Done + 1 \in DOMAIN ends' /\ ends'[Done + 1] = ends[Done + 1]
    BY <1>3, Types
  <2> QED BY <1>1, <2>1 DEF IInv, Progress, Size, Done
<1>10. Framing'
  <2>1. TypeOK' BY <1>1, <1>3 DEF IInv, Framing, TypeOK
  <2>2. NoneLeftBehind'
    <3> SUFFICES ASSUME pc = "recv", NEW i \in 1..Len(ends) + 1, i > Done
                 PROVE  read < ends'[i]
      BY <1>1, <1>3 DEF NoneLeftBehind, Done
    <3>1. CASE i \in 1..Len(ends)
      <4>1. ends'[i] = ends[i] /\ i \in DOMAIN ends BY <1>0, <1>3, <3>1
      <4> QED BY <4>1 DEF IInv, Framing, NoneLeftBehind, Done
    <3>2. CASE i = Len(ends) + 1
      <4>1. read \in Nat /\ read <= Sent BY Types DEF IInv, Layout
      <4> QED BY <1>2, <1>3, <3>2, <4>1
    <3> QED BY <1>0, <3>1, <3>2
  <2>3. StopsForCause'
    <3>1. pc # "eof" BY <1>1 DEF IInv, Framing, StopsForCause
    <3>2. pc = "failed" => /\ Done + 1 \in 1..Len(ends)
                           /\ ends[Done + 1] - Start(Done + 1) > MaxPkt
      BY Types DEF IInv, Framing, StopsForCause, Done
    <3>3. Done + 1 \in 1..Len(ends) =>
            /\ Done + 1 \in DOMAIN ends'
            /\ ends'[Done + 1] = ends[Done + 1]
            /\ Start(Done + 1)' = Start(Done + 1)
      BY <1>0, <1>1, <1>3 DEF Start, Done
    <3>4. Done' = Done BY <1>1 DEF Done
    <3> QED BY <1>1, <3>1, <3>2, <3>3, <3>4 DEF StopsForCause, Done, Start
  <2> QED BY <2>1, <2>2, <2>3 DEF Framing
<1> QED BY <1>7, <1>8, <1>9, <1>10 DEF IInv

\* Steps of onRead that deliver nothing and keep their place in the stream.
LEMMA SamePlace ==
  ASSUME IInv, UNCHANGED <<ends, delivered>>,
         read' <= Sent, front' + offset' = front + offset
  PROVE  Layout' /\ Behind' /\ Done' = Done /\ Sent' = Sent
<1>1. \A i : Start(i)' = Start(i) BY DEF Start
<1>2. Done' = Done /\ Sent' = Sent BY DEF Done, Sent
<1>3. Layout' BY <1>1, <1>2 DEF IInv, Layout
<1>4. Behind' BY <1>1, <1>2 DEF IInv, Behind, Message
<1> QED BY <1>2, <1>3, <1>4

\* Where onRead waits for bytes, a whole message is not in the buffer.
LEMMA Waiting ==
  ASSUME IInv, UNCHANGED <<ends, delivered, read>>, pc' = "recv",
         Done + 1 \in DOMAIN ends => read < ends[Done + 1]
  PROVE  NoneLeftBehind' /\ StopsForCause'
<1>1. Done' = Done BY DEF Done
<1>2. \A i \in DOMAIN ends : i > Done => read < ends[i]
  <2> SUFFICES ASSUME NEW i \in DOMAIN ends, i > Done PROVE read < ends[i]
    OBVIOUS
  <2>0. DOMAIN ends = 1..Len(ends) /\ Len(ends) \in Nat /\ Done \in Nat BY Types
  <2>1. Done + 1 \in DOMAIN ends /\ ends[i] >= ends[Done + 1] BY Ahead
  <2>2. ends[i] \in Nat /\ ends[Done + 1] \in Nat /\ read \in Nat BY <2>0, <2>1, Types
  <2> QED BY <2>1, <2>2
<1> QED BY <1>1, <1>2 DEF NoneLeftBehind, StopsForCause, Done

\* The peer closes the connection.
LEMMA CloseStep ==
  ASSUME IInv, PeerClose
  PROVE  IInv'
<1>1. closed' = TRUE /\ UNCHANGED <<ends, read, front, cap, offset, delivered, pc>>
  BY DEF PeerClose
<1>2. Layout' /\ Behind' /\ Done' = Done /\ Sent' = Sent
  BY <1>1, SamePlace DEF IInv, Layout
<1>3. Progress' BY <1>1, <1>2 DEF IInv, Progress, Size
<1>4. Framing'
  BY <1>1, <1>2 DEF IInv, Framing, TypeOK, NoneLeftBehind, StopsForCause, Start
<1> QED BY <1>2, <1>3, <1>4 DEF IInv

\* Bytes arrive.
LEMMA RecvStep ==
  ASSUME IInv, NEW k \in 1..(Sent - read), Recv(k)
  PROVE  IInv'
<1>1. /\ pc = "recv" /\ pc' = "sticky" /\ read + k <= Sent /\ Size + k <= cap
      /\ read' = read + k
      /\ UNCHANGED <<ends, closed, front, cap, offset, delivered>>
  BY DEF Recv
<1>2. /\ k \in Nat /\ read \in Nat /\ front \in Nat /\ offset \in Nat
      /\ cap \in Nat /\ Sent \in Nat
  BY Types
<1>3. Layout' /\ Behind' /\ Done' = Done
  BY <1>1, SamePlace
<1>4. Progress' BY <1>1, <1>3 DEF IInv, Progress
<1>5. TypeOK'
  <2>1. front + offset <= read /\ read - front <= cap BY DEF IInv, Framing, TypeOK
  <2>2. read' \in Nat /\ front' + offset' <= read' /\ read' - front' <= cap'
    BY <1>1, <1>2, <2>1 DEF Size
  <2> QED BY <1>1, <2>2 DEF IInv, Framing, TypeOK
<1>6. NoneLeftBehind' /\ StopsForCause'
  BY <1>1 DEF NoneLeftBehind, StopsForCause
<1> QED BY <1>3, <1>4, <1>5, <1>6 DEF IInv, Framing

\* recvfrom gets 0 only at the end of the stream: the buffer is never full.
LEMMA EofStep ==
  ASSUME IInv, RecvEof
  PROVE  IInv'
<1>1. /\ pc = "recv" /\ pc' = "eof"
      /\ Size = cap \/ (closed /\ read = Sent)
      /\ UNCHANGED <<ends, closed, read, front, cap, offset, delivered>>
  BY DEF RecvEof
<1>2. Size < cap /\ read \in Nat /\ front \in Nat /\ cap \in Nat
  BY <1>1, Types DEF IInv, Progress
<1>3. closed /\ read = Sent BY <1>1, <1>2 DEF Size
<1>4. Layout' /\ Behind' /\ Done' = Done /\ Sent' = Sent
  BY <1>1, SamePlace DEF IInv, Layout
<1>5. Progress' BY <1>1, <1>4 DEF IInv, Progress
<1>6. Framing'
  BY <1>1, <1>3, <1>4 DEF IInv, Framing, TypeOK, NoneLeftBehind, StopsForCause
<1> QED BY <1>4, <1>5, <1>6 DEF IInv

\* Not even a header: what waits ends behind it.
LEMMA ShortStep ==
  ASSUME IInv, HeaderShort
  PROVE  IInv'
<1>1. /\ pc = "sticky" /\ pc' = "recv" /\ Size < HeadLen
      /\ UNCHANGED <<ends, closed, read, front, cap, offset, delivered>>
  BY DEF HeaderShort
<1>2. offset = 0 BY <1>1 DEF IInv, Progress
<1>3. /\ read \in Nat /\ front \in Nat /\ cap \in Nat /\ Cap0 \in Nat
      /\ HeadLen \in Nat /\ Cap0 >= HeadLen /\ cap >= Cap0
      /\ Len(ends) \in Nat /\ DOMAIN ends = 1..Len(ends) /\ Done \in Nat
  BY Types, CapAssumption DEF IInv, Progress
<1>4. Layout' /\ Behind' /\ Done' = Done
  BY <1>1, SamePlace DEF IInv, Layout
<1>5. Size < cap /\ Size' = Size BY <1>1, <1>3 DEF Size
<1>6. Progress' BY <1>1, <1>2, <1>4, <1>5 DEF IInv, Progress
<1>7. Done + 1 \in DOMAIN ends => read < ends[Done + 1]
  <2> SUFFICES ASSUME Done + 1 \in DOMAIN ends PROVE read < ends[Done + 1]
    OBVIOUS
  <2>1. ends[Done + 1] >= front + offset + HeadLen
    <3>1. Done + 1 > Done BY <1>3
    <3> QED BY <3>1, Ahead
  <2>2. ends[Done + 1] \in Nat BY <1>3, Types
  <2> QED BY <1>1, <1>2, <1>3, <2>1, <2>2 DEF Size
<1>8. NoneLeftBehind' /\ StopsForCause' BY <1>1, <1>7, Waiting
<1>9. TypeOK' BY <1>1 DEF IInv, Framing, TypeOK
<1> QED BY <1>4, <1>6, <1>8, <1>9 DEF IInv, Framing

\* A message that is not whole: the buffer will hold it, or it is too long.
LEMMA IncompleteStep ==
  ASSUME IInv, Incomplete
  PROVE  IInv'
<1>1. PICK total \in Headers(front) :
        /\ Size < total
        /\ \/ total <= cap /\ pc' = "recv" /\ UNCHANGED cap
           \/ total > MaxPkt /\ total > cap /\ pc' = "failed" /\ UNCHANGED cap
           \/ total <= MaxPkt /\ total > cap /\ pc' = "recv" /\ cap' = total
  BY DEF Incomplete
<1>2. /\ pc = "sticky" /\ Size >= HeadLen
      /\ UNCHANGED <<ends, closed, read, front, offset, delivered>>
  BY DEF Incomplete
<1>3. offset = 0 BY <1>2 DEF IInv, Progress
<1>4. /\ read \in Nat /\ front \in Nat /\ cap \in Nat /\ Cap0 \in Nat
      /\ MaxPkt \in Nat /\ cap >= Cap0
  BY Types, CapAssumption DEF IInv, Progress
<1>5. Size - offset >= HeadLen /\ front + offset = front
  BY <1>2, <1>3, <1>4 DEF Size
<1>6. Done + 1 \in DOMAIN ends /\ Headers(front) = {ends[Done + 1] - front}
      /\ ends[Done + 1] - front \in Lens
  BY <1>5, NextHeader
<1>7. total = ends[Done + 1] - front /\ total \in Lens BY <1>1, <1>6
<1>8. ends[Done + 1] \in Nat /\ total \in Nat
  <2>1. DOMAIN ends = 1..Len(ends) BY Types
  <2> QED BY <1>6, <1>7, <2>1, Types
<1>9. read < ends[Done + 1] BY <1>1, <1>4, <1>7, <1>8 DEF Size
<1>10. Layout' /\ Behind' /\ Done' = Done
  BY <1>2, SamePlace DEF IInv, Layout
<1>11. /\ cap' \in Nat /\ cap' >= cap /\ cap' <= MaxPkt
       /\ pc' = "recv" => Size' < cap'
       /\ pc' \in {"recv", "failed"}
  <2>1. cap <= MaxPkt BY DEF IInv, Framing, TypeOK
  <2> QED BY <1>1, <1>2, <1>4, <1>8, <2>1 DEF Size
<1>12. Progress'
  BY <1>2, <1>3, <1>4, <1>11 DEF IInv, Progress
<1>13. TypeOK'
  <2>1. read - front <= cap BY DEF IInv, Framing, TypeOK
  <2>2. read' - front' <= cap' BY <1>2, <1>4, <1>11, <2>1
  <2> QED BY <1>2, <1>11, <2>2 DEF IInv, Framing, TypeOK
<1>14. NoneLeftBehind' /\ StopsForCause'
  <2>1. CASE pc' = "recv" BY <1>2, <1>9, <2>1, Waiting
  <2>2. CASE pc' = "failed"
    <3>1. total > MaxPkt BY <1>1, <2>2
    <3>2. Start(Done + 1) = front BY <1>5 DEF IInv, Behind
    <3>3. ends[Done + 1] - Start(Done + 1) > MaxPkt BY <1>7, <3>1, <3>2
    <3>4. /\ (Done + 1)' = Done + 1 /\ ends' = ends
          /\ Start(Done + 1)' = Start(Done + 1)
      BY <1>2, <1>10 DEF Start
    <3> QED BY <1>6, <2>2, <3>3, <3>4 DEF NoneLeftBehind, StopsForCause, Done
  <2> QED BY <1>11, <2>1, <2>2
<1> QED BY <1>10, <1>12, <1>13, <1>14 DEF IInv, Framing

\* A whole message is there: the dispatch has one to begin with.
LEMMA BeginStep ==
  ASSUME IInv, BeginDispatch
  PROVE  IInv'
<1>1. PICK total \in Headers(front) : Size >= total
  BY DEF BeginDispatch
<1>2. /\ pc = "sticky" /\ pc' = "dispatch" /\ Size >= HeadLen /\ offset' = 0
      /\ UNCHANGED <<ends, closed, read, front, cap, delivered>>
  BY DEF BeginDispatch
<1>3. offset = 0 BY <1>2 DEF IInv, Progress
<1>4. read \in Nat /\ front \in Nat BY Types
<1>5. Size - offset >= HeadLen /\ front + offset = front
  BY <1>2, <1>3, <1>4 DEF Size
<1>6. Done + 1 \in DOMAIN ends /\ Headers(front) = {ends[Done + 1] - front}
  BY <1>5, NextHeader
<1>7. ends[Done + 1] \in Nat
  <2>1. DOMAIN ends = 1..Len(ends) BY Types
  <2> QED BY <1>6, <2>1, Types
<1>8. read >= ends[Done + 1] BY <1>1, <1>4, <1>6, <1>7 DEF Size
<1>9. Layout' /\ Behind' /\ Done' = Done
  BY <1>2, <1>3, SamePlace DEF IInv, Layout
<1>10. Progress' BY <1>2, <1>6, <1>8, <1>9 DEF IInv, Progress
<1>11. Framing'
  BY <1>2, <1>3 DEF IInv, Framing, TypeOK, NoneLeftBehind, StopsForCause
<1> QED BY <1>9, <1>10, <1>11 DEF IInv

\* What a dispatch hands to the callback is the next message.
LEMMA Dispatched ==
  ASSUME IInv, Dispatch
  PROVE  /\ pc = "dispatch" /\ Done + 1 \in DOMAIN ends
         /\ delivered' = Append(delivered, Message(Done + 1))
         /\ front + offset' = ends[Done + 1]
         /\ ends[Done + 1] <= read /\ offset' \in Nat /\ offset' > 0
         /\ Message(Done + 1) \in Nat \X Nat
         /\ UNCHANGED <<ends, closed, read, front, cap, pc>>
<1>1. PICK total \in Headers(front + offset) :
        /\ Size - offset >= total
        /\ delivered' = Append(delivered, <<front + offset, total>>)
        /\ offset' = offset + total
  BY DEF Dispatch
<1>2. /\ pc = "dispatch" /\ Size - offset >= HeadLen
      /\ UNCHANGED <<ends, closed, read, front, cap, pc>>
  BY DEF Dispatch
<1>3. /\ Done + 1 \in DOMAIN ends
      /\ total = ends[Done + 1] - (front + offset) /\ total \in Lens
  BY <1>1, <1>2, NextHeader
<1>4. read \in Nat /\ front \in Nat /\ offset \in Nat
      /\ DOMAIN ends = 1..Len(ends)
  BY Types
<1>5. ends[Done + 1] \in Nat BY <1>3, <1>4, Types
<1>6. total \in Nat /\ total > 0
  <2>1. total >= HeadLen /\ HeadLen \in Nat \ {0} BY <1>3, Types
  <2> QED BY <1>3, <1>4, <1>5, <2>1
<1>7. Start(Done + 1) = front + offset BY DEF IInv, Behind
<1>8. Message(Done + 1) = <<front + offset, total>>
  BY <1>3, <1>7 DEF Message
<1>9. /\ front + offset' = ends[Done + 1] /\ ends[Done + 1] <= read
      /\ offset' \in Nat /\ offset' > 0
  BY <1>1, <1>3, <1>4, <1>5, <1>6 DEF Size
<1>10. Message(Done + 1) \in Nat \X Nat BY <1>4, <1>6, <1>8
<1> QED BY <1>1, <1>2, <1>3, <1>8, <1>9, <1>10

LEMMA DispatchStep ==
  ASSUME IInv, Dispatch
  PROVE  IInv'
<1>1. /\ pc = "dispatch" /\ Done + 1 \in DOMAIN ends
      /\ delivered' = Append(delivered, Message(Done + 1))
      /\ front + offset' = ends[Done + 1]
      /\ ends[Done + 1] <= read /\ offset' \in Nat /\ offset' > 0
      /\ Message(Done + 1) \in Nat \X Nat
      /\ UNCHANGED <<ends, closed, read, front, cap, pc>>
  BY Dispatched
<1>2. /\ DOMAIN ends = 1..Len(ends) /\ Len(ends) \in Nat /\ Done \in Nat
      /\ delivered \in Seq(Nat \X Nat)
  BY Types
<1>3. /\ delivered' \in Seq(Nat \X Nat) /\ Done' = Done + 1
      /\ delivered'[Done + 1] = Message(Done + 1)
      /\ \A i \in 1..Done : delivered'[i] = delivered[i]
  BY <1>1, <1>2 DEF Done
<1>4. \A i : Start(i)' = Start(i) /\ Message(i)' = Message(i)
  BY <1>1 DEF Start, Message
<1>5. Layout' BY <1>1, <1>4 DEF IInv, Layout, Sent
<1>6. Behind'
  <2>1. Done' <= Len(ends') BY <1>1, <1>2, <1>3
  <2>2. \A i \in 1..Done' : delivered'[i] = Message(i)'
    <3> SUFFICES ASSUME NEW i \in 1..Done + 1
                 PROVE  delivered'[i] = Message(i)
      BY <1>3, <1>4
    <3>1. i = Done + 1 \/ i \in 1..Done BY <1>2
    <3>2. i \in 1..Done => delivered[i] = Message(i) BY DEF IInv, Behind
    <3> QED BY <1>3, <3>1, <3>2
  <2>3. Start(Done + 1)' = ends[Done + 1]
    BY <1>1, <1>2, <1>3 DEF Start
  <2>4. front' + offset' = Start(Done + 1)'
    BY <1>1, <2>3
  <2> QED BY <2>1, <2>2, <2>4 DEF Behind
<1>7. Progress' BY <1>1 DEF IInv, Progress
<1>8. Framing'
  <2>1. TypeOK' BY <1>1, <1>3 DEF IInv, Framing, TypeOK
  <2>2. NoneLeftBehind' /\ StopsForCause'
    BY <1>1 DEF NoneLeftBehind, StopsForCause
  <2> QED BY <2>1, <2>2 DEF Framing
<1> QED BY <1>5, <1>6, <1>7, <1>8 DEF IInv

\* The dispatch ends with a part of a message, behind what it delivered.
LEMMA EndStep ==
  ASSUME IInv, EndDispatch
  PROVE  IInv'
<1>1. /\ pc = "dispatch" /\ pc' = "recv"
      /\ \/ Size - offset < HeadLen
         \/ \E total \in Headers(front + offset) : Size - offset < total
      /\ front' = front + offset /\ offset' = 0
      /\ UNCHANGED <<ends, closed, read, cap, delivered>>
  BY DEF EndDispatch
<1>2. /\ read \in Nat /\ front \in Nat /\ offset \in Nat /\ cap \in Nat
      /\ HeadLen \in Nat /\ Done \in Nat /\ DOMAIN ends = 1..Len(ends)
  BY Types
<1>3. Done + 1 \in DOMAIN ends => read < ends[Done + 1]
  <2> SUFFICES ASSUME Done + 1 \in DOMAIN ends PROVE read < ends[Done + 1]
    OBVIOUS
  <2>1. ends[Done + 1] \in Nat BY <1>2, Types
  <2>2. CASE Size - offset < HeadLen
    <3>1. Done + 1 > Done BY <1>2
    <3>2. ends[Done + 1] >= front + offset + HeadLen BY <3>1, Ahead
    <3> QED BY <1>2, <2>1, <2>2, <3>2 DEF Size
  <2>3. CASE Size - offset >= HeadLen
    <3>1. Headers(front + offset) = {ends[Done + 1] - (front + offset)}
      BY <2>3, NextHeader
    <3>2. ~(Size - offset < HeadLen) BY <1>2, <2>3 DEF Size
    <3>3. Size - offset < ends[Done + 1] - (front + offset)
      BY <1>1, <3>1, <3>2
    <3> QED BY <1>2, <2>1, <3>3 DEF Size
  <2>4. Size - offset \in Int BY <1>2 DEF Size
  <2> QED BY <1>2, <2>2, <2>3, <2>4
<1>4. offset > 0
  <2>1. offset # 0
    <3> SUFFICES ASSUME offset = 0 PROVE FALSE
      OBVIOUS
    <3>1. Done + 1 \in DOMAIN ends /\ read >= ends[Done + 1]
      BY <1>1 DEF IInv, Progress
    <3>2. ends[Done + 1] \in Nat BY <1>2, <3>1, Types
    <3> QED BY <1>2, <1>3, <3>1, <3>2
  <2> QED BY <1>2, <2>1
<1>5. /\ front' \in Nat /\ front' + offset' = front + offset
      /\ front' + offset' <= read /\ read - front' < cap
  <2>1. front + offset <= read /\ read - front <= cap
    BY DEF IInv, Framing, TypeOK
  <2> QED BY <1>1, <1>2, <1>4, <2>1
<1>6. Layout' /\ Behind' /\ Done' = Done
  <2>1. read' <= Sent BY <1>1 DEF IInv, Layout
  <2> QED BY <1>1, <1>5, <2>1, SamePlace
<1>7. Progress' BY <1>1, <1>5 DEF IInv, Progress, Size
<1>8. NoneLeftBehind' /\ StopsForCause' BY <1>1, <1>3, Waiting
<1>9. TypeOK'
  <2>1. read' - front' <= cap' BY <1>1, <1>2, <1>5
  <2> QED BY <1>1, <1>5, <2>1 DEF IInv, Framing, TypeOK
<1> QED BY <1>6, <1>7, <1>8, <1>9 DEF IInv, Framing

LEMMA Steps == IInv /\ [Next]_vars => IInv'
<1> SUFFICES ASSUME IInv, [Next]_vars PROVE IInv'
  OBVIOUS
<1>1. ASSUME NEW l \in Lens, Send(l) PROVE IInv'
  BY <1>1, SendStep
<1>2. CASE PeerClose BY <1>2, CloseStep
<1>3. ASSUME NEW k \in 1..(Sent - read), Recv(k) PROVE IInv'
  BY <1>3, RecvStep
<1>4. CASE RecvEof BY <1>4, EofStep
<1>5. CASE HeaderShort BY <1>5, ShortStep
<1>6. CASE Incomplete BY <1>6, IncompleteStep
<1>7. CASE BeginDispatch BY <1>7, BeginStep
<1>8. CASE Dispatch BY <1>8, DispatchStep
<1>9. CASE EndDispatch BY <1>9, EndStep
<1>10. CASE UNCHANGED vars
  <2>1. /\ UNCHANGED <<ends, closed, read, front, cap, offset, delivered, pc>>
        /\ Layout' /\ Behind' /\ Done' = Done /\ Sent' = Sent
    BY <1>10, SamePlace DEF vars, IInv, Layout
  <2>2. Progress' BY <2>1 DEF IInv, Progress, Size
  <2>3. Framing'
    BY <2>1 DEF IInv, Framing, TypeOK, NoneLeftBehind, StopsForCause, Start
  <2> QED BY <2>1, <2>2, <2>3 DEF IInv
<1>11. Stopped => UNCHANGED vars BY DEF Stopped
<1> QED BY <1>1, <1>2, <1>3, <1>4, <1>5, <1>6, <1>7, <1>8, <1>9, <1>10, <1>11
        DEF Next, OnRead

LEMMA Invariance == Spec => []IInv
<1>1. Init => IInv
  <2> SUFFICES ASSUME Init PROVE IInv
    OBVIOUS
  <2>1. /\ ends = <<>> /\ closed = FALSE /\ read = 0 /\ front = 0
        /\ cap = Cap0 /\ offset = 0 /\ delivered = <<>> /\ pc = "recv"
    BY DEF Init
  <2>2. Cap0 \in Nat /\ MaxPkt \in Nat /\ Cap0 <= MaxPkt /\ Cap0 > 0
    BY HeadAssumption, CapAssumption
  <2>3. Framing
    <3>1. /\ <<>> \in Seq(Nat) /\ <<>> \in Seq(Nat \X Nat)
          /\ DOMAIN <<>> = {} /\ read \in Nat /\ front \in Nat
          /\ offset \in Nat /\ front + offset <= read /\ read - front <= cap
      BY <2>1, <2>2
    <3>2. TypeOK BY <2>1, <2>2, <3>1 DEF TypeOK
    <3>3. NoneLeftBehind BY <2>1, <3>1 DEF NoneLeftBehind
    <3>4. StopsForCause BY <2>1 DEF StopsForCause
    <3> QED BY <3>2, <3>3, <3>4 DEF Framing
  <2>4. Layout BY <2>1 DEF Layout, Sent
  <2>5. Behind BY <2>1 DEF Behind, Done, Start
  <2>6. Progress BY <2>1, <2>2 DEF Progress, Size
  <2> QED BY <2>3, <2>4, <2>5, <2>6 DEF IInv
<1>2. IInv /\ [Next]_vars => IInv'
  BY Steps
<1> QED BY <1>1, <1>2, PTL DEF Spec

\* However the peer's messages are cut, and whatever their lengths, no whole
\* message is left in the buffer where onRead waits, the buffer is never full
\* there, and reading stops only at the end of the stream or for a message
\* longer than MAX_PKT_SIZE (StickyPacket.cpp, Socket::onRead).
THEOREM StickyPacketFraming == Spec => []Framing
<1>1. IInv => Framing BY DEF IInv
<1> QED BY <1>1, Invariance, PTL

-----------------------------------------------------------------------------
(* The refinement of MessageStream. *)

Messages == [i \in DOMAIN ends |-> Message(i)]

\* The peer's step is the abstract one: a message more, the others as they were.
LEMMA SendRefines ==
  ASSUME IInv, NEW l \in Lens, Send(l)
  PROVE  /\ Len(Messages') = Len(Messages) + 1
         /\ Messages = SubSeq(Messages', 1, Len(Messages))
         /\ UNCHANGED delivered
<1>1. /\ Len(ends) \in Nat /\ DOMAIN ends = 1..Len(ends)
      /\ ends \in Seq(Nat) /\ Sent + l \in Nat
  BY Types
<1>2. ends' = Append(ends, Sent + l) /\ UNCHANGED delivered
  BY DEF Send
<1>3. /\ DOMAIN ends' = 1..Len(ends) + 1
      /\ \A i \in 1..Len(ends) : ends'[i] = ends[i]
  BY <1>1, <1>2
<1>4. \A i \in 1..Len(ends) : Message(i)' = Message(i)
  BY <1>1, <1>3 DEF Message, Start
<1>5. /\ Messages = [i \in 1..Len(ends) |-> Message(i)]
      /\ Messages' = [i \in 1..Len(ends) + 1 |-> Message(i)']
  BY <1>1, <1>3 DEF Messages
<1>6. Len(Messages) = Len(ends) /\ Len(Messages') = Len(ends) + 1
  BY <1>1, <1>5
<1>7. SubSeq(Messages', 1, Len(ends))
        = [i \in 1..Len(ends) |-> Messages'[i]]
  BY <1>1, <1>5, <1>6
<1>8. \A i \in 1..Len(ends) : Messages'[i] = Messages[i]
  BY <1>1, <1>4, <1>5
<1> QED BY <1>2, <1>5, <1>6, <1>7, <1>8

\* The dispatch is the abstract delivery of the next message.
LEMMA DispatchRefines ==
  ASSUME IInv, Dispatch
  PROVE  /\ Len(delivered) < Len(Messages)
         /\ delivered' = Append(delivered, Messages[Len(delivered) + 1])
         /\ UNCHANGED Messages
<1>1. /\ Done + 1 \in DOMAIN ends /\ UNCHANGED ends
      /\ delivered' = Append(delivered, Message(Done + 1))
  BY Dispatched
<1>2. Len(ends) \in Nat /\ DOMAIN ends = 1..Len(ends) /\ Done \in Nat
  BY Types
<1>3. Len(Messages) = Len(ends) /\ Messages[Done + 1] = Message(Done + 1)
  BY <1>1, <1>2 DEF Messages
<1>4. UNCHANGED Messages BY <1>1 DEF Messages, Message, Start
<1> QED BY <1>1, <1>2, <1>3, <1>4 DEF Done

\* For messages and buffers of any size the callback gets the messages that
\* were sent, whole, once each and in order: StickyPacket implements
\* MessageStream.
THEOREM StickyPacketInOrder == Spec => InOrder
<1>1. Init => Stream!Init
  BY DEF Init, Stream!Init
<1>2. IInv /\ [Next]_vars => [Stream!Next]_(Stream!vars)
  <2> SUFFICES ASSUME IInv, [Next]_vars
               PROVE  Stream!Next \/ UNCHANGED Stream!vars
    OBVIOUS
  <2>1. ASSUME NEW l \in Lens, Send(l) PROVE Stream!Next
    BY <2>1, SendRefines DEF Messages, Message, Stream!Next, Stream!Send
  <2>2. ASSUME Dispatch PROVE Stream!Next
    BY <2>2, DispatchRefines DEF Messages, Message, Stream!Next, Stream!Deliver
  <2>3. ASSUME UNCHANGED <<ends, delivered>> PROVE UNCHANGED Stream!vars
    BY <2>3 DEF Stream!vars, Start
  <2>4. \/ \E l \in Lens : Send(l)
        \/ Dispatch
        \/ UNCHANGED <<ends, delivered>>
    BY DEF Next, OnRead, PeerClose, Recv, RecvEof, HeaderShort, Incomplete,
           BeginDispatch, EndDispatch, Stopped, vars
  <2> QED BY <2>1, <2>2, <2>3, <2>4
<1> QED BY <1>1, <1>2, Invariance, PTL DEF Spec, InOrder, Stream!Spec
-----------------------------------------------------------------------------
(***************************************************************************)
(* The buffered send of a Socket (SendBuffer).                             *)
(***************************************************************************)

USE DEF socket, network, history

(* The stream. *)

\* A buffer is what is taken from its front and what remains.
LEMMA Cut ==
  ASSUME NEW b \in Seq(Nat), NEW n \in 0..Len(b)
  PROVE  /\ SubSeq(b, 1, n) \in Seq(Nat)
         /\ SubSeq(b, n + 1, Len(b)) \in Seq(Nat)
         /\ SubSeq(b, 1, n) \o SubSeq(b, n + 1, Len(b)) = b
         /\ Len(SubSeq(b, n + 1, Len(b))) = Len(b) - n
<1>1. SubSeq(b, 1, n) \in Seq(Nat) /\ Len(SubSeq(b, 1, n)) = n
  BY SubSeqProperties
<1>2. /\ SubSeq(b, n + 1, Len(b)) \in Seq(Nat)
      /\ Len(SubSeq(b, n + 1, Len(b))) = Len(b) - n
  BY SubSeqProperties
<1>3. SubSeq(b, 1, Len(b)) = b
  BY SubSeqFull
<1>4. SubSeq(b, 1, n) \o SubSeq(b, n + 1, Len(b)) = SubSeq(b, 1, Len(b))
  <2>1. /\ 1 \in 1..Len(b) + 1 /\ n \in (1 - 1)..Len(b)
        /\ Len(b) \in n..Len(b)
    OBVIOUS
  <2> QED BY <2>1, ConcatAdjacentSubSeq
<1> QED BY <1>1, <1>2, <1>3, <1>4

\* A packet is a sequence of as many bytes as it is long.
LEMMA PacketIsSeq ==
  ASSUME given \in Seq(Nat), NEW len \in PacketLens
  PROVE  Packet(len) \in Seq(Nat) /\ Len(Packet(len)) = len /\ len \in Nat \ {0}
<1>1. len \in Nat \ {0} BY SendBufferAssumption
<1>2. \A i \in 1..len : Len(given) + i \in Nat BY <1>1
<1> QED BY <1>1, <1>2, IsASeq DEF Packet

\* Appending twice is appending what the two make.
LEMMA Regroup ==
  \A s, t, u \in Seq(Nat) : (s \o t) \o u = s \o (t \o u)
BY ConcatAssociative

\* What flush_b takes from a buffer it adds to what was sent.
LEMMA FlushKeeps ==
  ASSUME BufferTypeOK, NEW b \in Seq(Nat), Flush(b)
  PROVE  /\ buf' \in Seq(Nat) /\ sent' \in Seq(Nat)
         /\ sent' \o buf' = sent \o b
         /\ Len(buf') <= Len(b)
         /\ room' \in 0..Room /\ crashed' \in BOOLEAN
         /\ elapsed' \in {0, elapsed} /\ waited' \in {0, waited}
<1> DEFINE n == IF b = <<>> \/ ~up \/ Refused(b) THEN 0 ELSE Offered(b)
<1>1. n \in 0..Len(b) /\ room - n \in 0..Room
  BY SendBufferAssumption DEF BufferTypeOK, Offered
<1>2. sent' = sent \o SubSeq(b, 1, n) /\ buf' = SubSeq(b, n + 1, Len(b))
  BY DEF Flush
<1>3. /\ room' = room - n /\ crashed' \in BOOLEAN
      /\ elapsed' \in {0, elapsed} /\ waited' \in {0, waited}
  BY DEF Flush, BufferTypeOK
<1> HIDE DEF n
<1>4. /\ SubSeq(b, 1, n) \in Seq(Nat)
      /\ SubSeq(b, n + 1, Len(b)) \in Seq(Nat)
      /\ SubSeq(b, 1, n) \o SubSeq(b, n + 1, Len(b)) = b
      /\ Len(SubSeq(b, n + 1, Len(b))) = Len(b) - n
  BY <1>1, Cut
<1>5. sent \in Seq(Nat) BY DEF BufferTypeOK
<1>6. sent' \in Seq(Nat) BY <1>2, <1>4, <1>5, ConcatProperties
<1>7. sent' \o buf' = sent \o (SubSeq(b, 1, n) \o SubSeq(b, n + 1, Len(b)))
  <2> DEFINE x == SubSeq(b, 1, n)
             y == SubSeq(b, n + 1, Len(b))
  <2>1. x \in Seq(Nat) /\ y \in Seq(Nat) BY <1>4
  <2>2. sent' = sent \o x /\ buf' = y BY <1>2
  <2> HIDE DEF x, y
  <2>3. sent' \o buf' = sent \o (x \o y) BY <1>5, <2>1, <2>2, Regroup
  <2> QED BY <2>3 DEF x, y
<1>8. sent' \o buf' = sent \o b BY <1>4, <1>7
<1>9. buf' \in Seq(Nat) /\ Len(buf') <= Len(b)
  <2>1. Len(b) \in Nat /\ Len(buf') = Len(b) - n BY <1>2, <1>4, LenProperties
  <2>2. buf' \in Seq(Nat) BY <1>2, <1>4
  <2> QED BY <1>1, <2>1, <2>2
<1> QED BY <1>1, <1>3, <1>6, <1>8, <1>9

\* send_b keeps the stream and the memory.
LEMMA SendKeeps ==
  ASSUME StreamKept, NEW len \in PacketLens, SendB(len)
  PROVE  StreamKept'
<1> DEFINE p == Packet(len)
           b == buf \o p
<1>1. p \in Seq(Nat) /\ Len(p) = len /\ len \in Nat \ {0}
  BY PacketIsSeq DEF StreamKept, BufferTypeOK
<1>2. b \in Seq(Nat) /\ Len(b) = Len(buf) + len /\ given' \in Seq(Nat)
  BY <1>1, ConcatProperties DEF StreamKept, BufferTypeOK, SendB
<1>3. given' = sent \o b
  <2>1. given = sent \o buf /\ given' = given \o p
    BY DEF StreamKept, Exact, SendB
  <2>2. sent \in Seq(Nat) /\ buf \in Seq(Nat) BY DEF StreamKept, BufferTypeOK
  <2> HIDE DEF p
  <2> QED BY <1>1, <2>1, <2>2, Regroup
<1>4. /\ capacity' \in Nat /\ Len(b) <= capacity'
      /\ \/ capacity' \in {0, First}
         \/ \E c \in 0..MaxCap, l \in PacketLens : capacity' = (c + l) * 2
  <2>1. capacity \in Nat /\ Len(buf) \in Nat /\ Len(buf) <= capacity
    BY DEF StreamKept, BufferTypeOK, Fits
  <2>2. CASE len <= capacity - Len(buf) /\ UNCHANGED capacity
    BY <1>1, <1>2, <2>1, <2>2 DEF StreamKept, Fits
  <2>3. CASE capacity <= MaxCap /\ capacity' = Grown(len)
    <3>1. capacity \in 0..MaxCap /\ capacity' = (capacity + len) * 2
      BY <2>1, <2>3, SendBufferAssumption DEF Grown
    <3> QED BY <1>1, <1>2, <2>1, <3>1
  <2> QED BY <2>2, <2>3 DEF SendB
<1> HIDE DEF b, p
<1>5. CASE Len(b) > Enough
  <2>1. Flush(b) /\ report' \in {report, "failed"}
    BY <1>5 DEF SendB, EmitErr, b, p
  <2>2. /\ buf' \in Seq(Nat) /\ sent' \in Seq(Nat) /\ sent' \o buf' = sent \o b
        /\ Len(buf') <= Len(b)
        /\ room' \in 0..Room /\ crashed' \in BOOLEAN
        /\ elapsed' \in {0, elapsed} /\ waited' \in {0, waited}
    BY <1>2, <2>1, FlushKeeps DEF StreamKept
  <2>3. BufferTypeOK'
    <3>1. UNCHANGED <<network, clock>> BY DEF SendB
    <3>2. BufferTypeOK BY DEF StreamKept
    <3> QED BY <1>2, <1>4, <2>1, <2>2, <3>1, <3>2 DEF BufferTypeOK
  <2>4. Exact' BY <1>3, <2>2 DEF Exact
  <2>5. Len(buf') <= capacity' BY <1>2, <1>4, <2>2
  <2> QED BY <1>4, <2>3, <2>4, <2>5 DEF StreamKept, Fits
<1>6. CASE ~(Len(b) > Enough)
  <2>1. /\ buf' = b /\ waited' \in {0, waited}
        /\ UNCHANGED <<elapsed, report, crashed, sent, room, network, clock>>
    BY <1>6 DEF SendB, b, p
  <2>2. BufferTypeOK'
    BY <1>2, <1>4, <2>1 DEF StreamKept, BufferTypeOK
  <2>3. Exact' BY <1>3, <2>1 DEF Exact
  <2> QED BY <1>4, <2>1, <2>2, <2>3 DEF StreamKept, Fits
<1> QED BY <1>5, <1>6

\* So does timer_b.
LEMMA TimerKeeps ==
  ASSUME StreamKept, Timer
  PROVE  StreamKept'
<1>1. /\ UNCHANGED <<capacity, network, given>> /\ clock' = 0
      /\ report' \in {report, "failed", "timeout"}
  BY DEF Timer, EmitErr
<1>2. CASE elapsed > FlushTimes
  <2>1. buf \in Seq(Nat) /\ Flush(buf)
    BY <1>2 DEF Timer, StreamKept, BufferTypeOK
  <2>2. /\ buf' \in Seq(Nat) /\ sent' \in Seq(Nat)
        /\ sent' \o buf' = sent \o buf /\ Len(buf') <= Len(buf)
        /\ room' \in 0..Room /\ crashed' \in BOOLEAN
        /\ elapsed' \in {0, elapsed} /\ waited' \in {0, waited}
    BY <2>1, FlushKeeps DEF StreamKept
  <2>3. BufferTypeOK' BY <1>1, <2>2 DEF StreamKept, BufferTypeOK
  <2>4. Exact' BY <1>1, <2>2 DEF StreamKept, Exact
  <2>5. Fits' BY <1>1, <2>1, <2>2 DEF StreamKept, BufferTypeOK, Fits
  <2> QED BY <2>3, <2>4, <2>5 DEF StreamKept
<1>3. CASE ~(elapsed > FlushTimes)
  <2>1. UNCHANGED <<buf, elapsed, crashed, sent, room, waited>>
    BY <1>3 DEF Timer
  <2> QED BY <1>1, <2>1 DEF StreamKept, BufferTypeOK, Exact, Fits
<1> QED BY <1>2, <1>3

\* No byte of the stream is lost, repeated or out of order, and it fits in a
\* buffer of bounded size, for packets and buffers of any length.
THEOREM SendBufferKeepsStream == BufferSpec => []StreamKept
<1>1. BufferInit => StreamKept
  <2>1. <<>> \in Seq(Nat) /\ <<>> \o <<>> = <<>> /\ Len(<<>>) = 0 OBVIOUS
  <2>2. BufferInit => BufferTypeOK
    <3>1. {0, First} \subseteq Nat /\ Room \in Nat BY SendBufferAssumption
    <3>2. BufferInit => report \in {"none", "failed", "timeout"} BY DEF BufferInit
    <3>3. BufferInit => capacity \in Nat /\ room \in 0..Room BY <3>1 DEF BufferInit
    <3>4. BufferInit => buf \in Seq(Nat) /\ given \in Seq(Nat) /\ sent \in Seq(Nat)
      BY <2>1 DEF BufferInit
    <3>5. BufferInit => /\ up \in BOOLEAN /\ crashed \in BOOLEAN
                  /\ peer \in {"reads", "stalled", "gone"}
      BY DEF BufferInit
    <3>6. BufferInit => /\ conns \in Nat /\ elapsed \in Nat
                  /\ clock \in Nat /\ waited \in Nat
      BY DEF BufferInit
    <3> QED BY <3>2, <3>3, <3>4, <3>5, <3>6 DEF BufferTypeOK
  <2>3. BufferInit => Exact BY <2>1 DEF BufferInit, Exact
  <2>4. BufferInit => Fits BY <2>1, SendBufferAssumption DEF BufferInit, Fits
  <2> QED BY <2>2, <2>3, <2>4 DEF StreamKept
<1>2. StreamKept /\ [BufferNext]_bufferVars => StreamKept'
  <2> SUFFICES ASSUME StreamKept, [BufferNext]_bufferVars PROVE StreamKept'
    OBVIOUS
  <2>1. ASSUME NEW len \in PacketLens, SendB(len) PROVE StreamKept'
    BY <2>1, SendKeeps
  <2>2. ASSUME NEW len \in PacketLens, SendFails(len) PROVE StreamKept'
    BY <2>2 DEF SendFails, EmitErr, StreamKept, BufferTypeOK, Exact, Fits
  <2>3. CASE Timer BY <2>3, TimerKeeps
  <2>4. CASE Tick
    BY <2>4, SendBufferAssumption DEF Tick, Older, StreamKept, BufferTypeOK, Exact, Fits
  <2>5. CASE Drain
    BY <2>5, SendBufferAssumption DEF Drain, StreamKept, BufferTypeOK, Exact, Fits
  <2>6. CASE PeerStops BY <2>6 DEF PeerStops, StreamKept, BufferTypeOK, Exact, Fits
  <2>7. CASE CloseSock BY <2>7 DEF CloseSock, StreamKept, BufferTypeOK, Exact, Fits
  <2>8. CASE Connect
    BY <2>8, SendBufferAssumption DEF Connect, StreamKept, BufferTypeOK, Exact, Fits
  <2>9. CASE UNCHANGED bufferVars BY <2>9 DEF bufferVars, StreamKept, BufferTypeOK, Exact, Fits
  <2> QED BY <2>1, <2>2, <2>3, <2>4, <2>5, <2>6, <2>7, <2>8, <2>9 DEF BufferNext, Crash
<1> QED BY <1>1, <1>2, PTL DEF BufferSpec

(* The timeout. *)

\* The strengthening: the timer resets the ticker while there is nothing to send, so that it is
\* ahead of the wait by no more than the time between two of its runs.
TickerBounded ==
  /\ clock <= Delay + Late /\ elapsed <= Ages
  /\ buf = <<>> => elapsed <= FlushTimes + clock
  /\ buf # <<>> => elapsed <= waited + FlushTimes + Delay + Late

\* The ticker goes on through a flush that the kernel takes nothing of.
LEMMA FlushTicks ==
  ASSUME BufferTypeOK, NEW b \in Seq(Nat), Flush(b)
  PROVE  \/ elapsed' = 0
         \/ /\ b # <<>> /\ buf' = b
            /\ elapsed' = elapsed /\ waited' = waited
<1> DEFINE n == IF b = <<>> \/ ~up \/ Refused(b) THEN 0 ELSE Offered(b)
<1>1. n \in 0..Len(b) BY SendBufferAssumption DEF BufferTypeOK, Offered
<1>2. buf' = SubSeq(b, n + 1, Len(b)) BY DEF Flush
<1>3. /\ elapsed' = IF b = <<>> \/ n > 0 THEN 0 ELSE elapsed
      /\ waited' = IF b = <<>> \/ n > 0 THEN 0 ELSE waited
  BY DEF Flush
<1> HIDE DEF n
<1>4. CASE n = 0
  <2>1. buf' = SubSeq(b, 1, Len(b)) BY <1>2, <1>4
  <2>2. buf' = b BY <2>1, SubSeqFull
  <2> QED BY <1>3, <1>4, <2>2
<1>5. CASE n # 0 BY <1>1, <1>3, <1>5
<1> QED BY <1>4, <1>5

\* The numbers of the delays.
LEMMA Delays ==
  /\ FlushTimes \in Nat /\ Delay \in Nat /\ Late \in Nat
  /\ Patience * FlushTimes \in Nat
  /\ Patience * FlushTimes >= FlushTimes
  /\ (Patience - 1) * FlushTimes = Patience * FlushTimes - FlushTimes
  /\ Ages \in Nat
<1>1. /\ Patience \in Nat \ {0} /\ FlushTimes \in Nat \ {0}
      /\ Delay \in Nat /\ Late \in Nat
  BY SendBufferAssumption
<1>2. Patience * FlushTimes \in Nat BY <1>1
<1>3. (Patience - 1) * FlushTimes = Patience * FlushTimes - FlushTimes BY <1>1
<1>4. (Patience - 1) * FlushTimes \in Nat BY <1>1
<1>5. Patience * FlushTimes >= FlushTimes BY <1>1, <1>2, <1>3, <1>4
<1> QED BY <1>1, <1>2, <1>3, <1>5 DEF Ages

\* The bound of the ticker holds through every step.
LEMMA TickerStep ==
  ASSUME StreamKept, TickerBounded, [BufferNext]_bufferVars
  PROVE  TickerBounded'
<1>1. BufferTypeOK /\ buf \in Seq(Nat) /\ clock \in Nat /\ elapsed \in Nat /\ waited \in Nat
  BY DEF StreamKept, BufferTypeOK
<1>2. ASSUME NEW len \in PacketLens, SendB(len) PROVE TickerBounded'
  <2> DEFINE b == buf \o Packet(len)
  <2>1. b \in Seq(Nat) /\ b # <<>>
    <3>1. Packet(len) \in Seq(Nat) /\ Len(Packet(len)) # 0
      BY PacketIsSeq DEF StreamKept, BufferTypeOK
    <3> QED BY <1>1, <3>1, ConcatProperties
  <2>2. UNCHANGED clock BY <1>2 DEF SendB
  <2> HIDE DEF b
  <2>3. CASE Len(b) > Enough
    <3>1. Flush(b) BY <1>2, <2>3 DEF SendB, b
    <3>2. \/ elapsed' = 0
          \/ buf' = b /\ elapsed' = elapsed /\ waited' = waited
      BY <1>1, <2>1, <3>1, FlushTicks
    <3>3. waited' \in Nat
      BY <1>1, <2>1, <3>1, FlushKeeps
    <3> QED BY <1>1, <2>1, <2>2, <3>2, <3>3, Delays DEF TickerBounded
  <2>4. CASE ~(Len(b) > Enough)
    <3>1. /\ buf' = b /\ elapsed' = elapsed
          /\ waited' = IF buf = <<>> THEN 0 ELSE waited
      BY <1>2, <2>4 DEF SendB, b
    <3> QED BY <1>1, <2>1, <2>2, <3>1, Delays DEF TickerBounded
  <2> QED BY <2>3, <2>4
<1>3. ASSUME NEW len \in PacketLens, SendFails(len) PROVE TickerBounded'
  BY <1>3 DEF SendFails, TickerBounded, Ages
<1>4. CASE Timer
  <2>1. clock' = 0 BY <1>4 DEF Timer
  <2>2. CASE elapsed > FlushTimes
    <3>1. Flush(buf) BY <1>4, <2>2 DEF Timer
    <3>2. \/ elapsed' = 0
          \/ /\ buf # <<>> /\ buf' = buf
             /\ elapsed' = elapsed /\ waited' = waited
      BY <1>1, <3>1, FlushTicks
    <3>3. waited' \in {0, waited} BY <1>1, <3>1, FlushKeeps
    <3> QED BY <1>1, <2>1, <3>2, <3>3, Delays DEF TickerBounded
  <2>3. CASE ~(elapsed > FlushTimes)
    <3>1. UNCHANGED <<buf, elapsed, waited>> BY <1>4, <2>3 DEF Timer
    <3> QED BY <1>1, <2>1, <2>3, <3>1, Delays DEF TickerBounded
  <2> QED BY <2>2, <2>3
<1>5. CASE Tick
  <2>1. /\ clock' = clock + 1 /\ clock < Delay + Late /\ buf' = buf
        /\ elapsed' = (IF elapsed < Ages THEN elapsed + 1 ELSE elapsed)
        /\ buf # <<>> => waited' = IF waited < Ages THEN waited + 1 ELSE waited
    BY <1>5 DEF Tick, Older
  <2> QED BY <1>1, <2>1, Delays DEF TickerBounded
<1>6. CASE Drain     BY <1>6 DEF Drain, TickerBounded, Ages
<1>7. CASE PeerStops BY <1>7 DEF PeerStops, TickerBounded, Ages
<1>8. CASE CloseSock BY <1>8 DEF CloseSock, TickerBounded, Ages
<1>9. CASE Connect   BY <1>9 DEF Connect, TickerBounded, Ages
<1>10. CASE UNCHANGED bufferVars BY <1>10 DEF bufferVars, TickerBounded, Ages
<1> QED BY <1>2, <1>3, <1>4, <1>5, <1>6, <1>7, <1>8, <1>9, <1>10 DEF BufferNext, Crash

\* Only timer_b reports a timeout, and only with bytes that waited.
LEMMA TimeoutStep ==
  ASSUME StreamKept, TickerBounded, [BufferNext]_bufferVars,
         report = "none", report' = "timeout"
  PROVE  waited > (Patience - 1) * FlushTimes - Delay - Late
<1>1. BufferTypeOK /\ buf \in Seq(Nat) /\ clock \in Nat /\ elapsed \in Nat /\ waited \in Nat
  BY DEF StreamKept, BufferTypeOK
<1>2. Timer
  BY DEF BufferNext, SendB, SendFails, EmitErr, Tick, Drain, PeerStops, CloseSock,
         Connect, Crash, bufferVars
<1>3. elapsed' > Patience * FlushTimes
  BY <1>2 DEF Timer, EmitErr
<1>4. elapsed' = 0 \/ (elapsed' = elapsed /\ (elapsed > FlushTimes => buf # <<>>))
  <2>1. CASE elapsed > FlushTimes
    <3>1. Flush(buf) BY <1>2, <2>1 DEF Timer
    <3> QED BY <1>1, <3>1, FlushTicks
  <2>2. CASE ~(elapsed > FlushTimes)
    BY <1>2, <2>2 DEF Timer
  <2> QED BY <2>1, <2>2
<1>5. elapsed > Patience * FlushTimes /\ buf # <<>>
  BY <1>1, <1>3, <1>4, Delays
<1>6. elapsed <= waited + FlushTimes + Delay + Late
  BY <1>5 DEF TickerBounded
<1> QED BY <1>1, <1>5, <1>6, Delays

\* A send timeout is never reported of a socket whose bytes waited less than
\* about as many periods as the code says, whatever the periods are and whatever
\* the socket did before.
THEOREM SendTimeoutIsReal == BufferSpec => TimeoutIsReal
<1>1. BufferInit => TickerBounded
  BY Delays DEF BufferInit, TickerBounded
<1>2. StreamKept /\ TickerBounded /\ [BufferNext]_bufferVars => TickerBounded'
  BY TickerStep
<1>3. StreamKept /\ TickerBounded /\ [BufferNext]_bufferVars =>
        [report = "none" /\ report' = "timeout"
           => waited > (Patience - 1) * FlushTimes - Delay - Late]_bufferVars
  BY TimeoutStep
<1> QED BY <1>1, <1>2, <1>3, SendBufferKeepsStream, PTL DEF BufferSpec, TimeoutIsReal
===============================================================================
