-------------------------- MODULE FileTransferProofs --------------------------
(***************************************************************************)
(* What the file transfer guarantees for any clients, sizes, chunks and    *)
(* paths and faults: no handler of the server uses a _write_file that      *)
(* fopen did not set, and a transfer that is as the code expects (no       *)
(* resize, no partial send) is exact: no byte is lost, and the file        *)
(* declared complete is the source file if no other session had it open    *)
(* and fclose lost nothing.                                                *)
(***************************************************************************)
EXTENDS FileTransfer, SequenceTheorems, TLAPS

(* The inductive invariant. *)

\* A reply that lets the client send, and messages that write to the file.
Answered(q) == \E i \in DOMAIN q : q[i].type = "RSP" /\ q[i].code # "ERROR"
Needing(q) == \E i \in DOMAIN q : q[i].type \in {"DATA", "END"}

\* The transfer of c got as far as the RSP that follows fopen.
Begun(c) == \/ Answered(toClient[c])
            \/ snd[c].pc \in {"loop", "failed"}
            \/ Needing(toServer[c])

Opened == ServerUp =>
            \A c \in Clients : Begun(c) => rcv[c].file \in {"open", "null"}

\* Nothing is under way before a client connects.
Fresh == \A c \in Clients :
           snd[c].pc = "connect" => toServer[c] = <<>> /\ toClient[c] = <<>>

SizesKept == fsize \in [Clients -> Nat]

IInv == ProcessesOK /\ SizesKept /\ Fresh /\ Opened

LEMMA InvImpliesNoWildFile == IInv => NoWildFile
<1> SUFFICES ASSUME IInv, NEW c \in Clients,
                    \/ Arrived(c, "DATA")
                    \/ Arrived(c, "END") /\ Head(toServer[c]).code = "ERROR"
             PROVE  rcv[c].file \in {"open", "null"}
  BY DEF NoWildFile
<1>1. /\ ServerUp /\ toServer[c] # <<>>
      /\ Head(toServer[c]).type \in {"DATA", "END"}
  BY DEF Arrived
<1>2. toServer[c] \in Seq(Messages) BY DEF IInv, ProcessesOK
<1>3. 1 \in DOMAIN toServer[c] /\ Head(toServer[c]) = toServer[c][1]
  BY <1>1, <1>2
<1>4. Needing(toServer[c]) BY <1>1, <1>3 DEF Needing
<1> QED BY <1>1, <1>4 DEF IInv, Opened, Begun

-----------------------------------------------------------------------------
(* Messages and the queues they are in. *)

LEMMA MessageTypes ==
  /\ \A n \in 0..(Word - 1) : Req(n) \in Messages
  /\ \A x \in Codes : Rsp(x) \in Messages /\ End(x) \in Messages
  /\ \A p \in Nat, n \in 1..Chunk, w \in BOOLEAN : Data(p, n, w) \in Messages
  /\ \A n : Req(n).type = "REQ"
  /\ \A x : Rsp(x).type = "RSP" /\ Rsp(x).code = x /\ End(x).type = "END"
  /\ \A p, n, w : Data(p, n, w).type = "DATA"
BY DEF Messages, Req, Rsp, End, Data

LEMMA Remainders == \A n \in Nat : U32(n) \in 0..(Word - 1) /\ U32(n) \in Nat
BY BoundsAssumption DEF U32

LEMMA EmptyQueue == <<>> \in Seq(Messages) /\ ~Answered(<<>>) /\ ~Needing(<<>>)
BY DEF Answered, Needing

LEMMA PrefixOf ==
  ASSUME NEW s \in Seq(Messages), NEW p \in Prefixes(s)
  PROVE  /\ p \in Seq(Messages)
         /\ Answered(p) => Answered(s)
         /\ Needing(p) => Needing(s)
         /\ s = <<>> => p = <<>>
<1>1. PICK n \in 0..Len(s) : p = SubSeq(s, 1, n) BY DEF Prefixes
<1>2. p \in Seq(Messages) /\ Len(p) = n /\ \A i \in 1..n : p[i] = s[i]
  BY <1>1, SubSeqProperties
<1>3. DOMAIN p = 1..n /\ DOMAIN s = 1..Len(s) /\ n \in 0..Len(s)
  BY <1>2
<1>4. DOMAIN p \subseteq DOMAIN s BY <1>3
<1>5. \A i \in DOMAIN p : i \in DOMAIN s /\ p[i] = s[i] BY <1>2, <1>3, <1>4
<1>6. s = <<>> => p = <<>> BY <1>2, <1>3
<1> QED BY <1>2, <1>5, <1>6 DEF Answered, Needing

LEMMA TailOf ==
  ASSUME NEW s \in Seq(Messages), s # <<>>
  PROVE  /\ Tail(s) \in Seq(Messages) /\ Head(s) \in Messages
         /\ Answered(Tail(s)) => Answered(s)
         /\ Needing(Tail(s)) => Needing(s)
         /\ Head(s).type = "RSP" /\ Head(s).code # "ERROR" => Answered(s)
<1>1. /\ Tail(s) \in Seq(Messages) /\ Head(s) \in Messages /\ Head(s) = s[1]
      /\ 1 \in DOMAIN s
      /\ \A i \in DOMAIN Tail(s) : i + 1 \in DOMAIN s /\ Tail(s)[i] = s[i + 1]
  OBVIOUS
<1> QED BY <1>1 DEF Answered, Needing

LEMMA AppendOf ==
  ASSUME NEW s \in Seq(Messages), NEW m \in Messages
  PROVE  /\ Append(s, m) \in Seq(Messages)
         /\ Answered(Append(s, m)) =>
              Answered(s) \/ (m.type = "RSP" /\ m.code # "ERROR")
         /\ Needing(Append(s, m)) => Needing(s) \/ m.type \in {"DATA", "END"}
<1>1. /\ Append(s, m) \in Seq(Messages)
      /\ \A i \in DOMAIN Append(s, m) :
           \/ i \in DOMAIN s /\ Append(s, m)[i] = s[i]
           \/ Append(s, m)[i] = m
  OBVIOUS
<1> QED BY <1>1 DEF Answered, Needing

-----------------------------------------------------------------------------
(* A new value for one client. *)

LEMMA SenderUpdated ==
  ASSUME ProcessesOK, NEW c \in Clients, NEW r \in Senders,
         snd' = [snd EXCEPT ![c] = r]
  PROVE  /\ snd' \in [Clients -> Senders] /\ snd'[c] = r
         /\ \A d \in Clients \ {c} : snd'[d] = snd[d]
BY DEF ProcessesOK

LEMMA SenderFields ==
  ASSUME NEW r \in Senders
  PROVE  /\ \A x \in {"connect", "poll", "loop", "failed", "exited"} :
              /\ [r EXCEPT !.pc = x] \in Senders
              /\ [r EXCEPT !.pc = x].pc = x
         /\ [r EXCEPT !.deaf = TRUE] \in Senders
         /\ [r EXCEPT !.deaf = TRUE].pc = r.pc
         /\ r.pc \in {"connect", "poll", "loop", "failed", "exited"}
         /\ r.pos \in Nat
BY DEF Senders

LEMMA SessionUpdated ==
  ASSUME ProcessesOK, NEW c \in Clients, NEW r \in Sessions,
         rcv' = [rcv EXCEPT ![c] = r]
  PROVE  /\ rcv' \in [Clients -> Sessions] /\ rcv'[c] = r
         /\ \A d \in Clients \ {c} : rcv'[d] = rcv[d]
BY DEF ProcessesOK

LEMMA QueueUpdated ==
  ASSUME NEW q \in [Clients -> Seq(Messages)], NEW c \in Clients,
         NEW s \in Seq(Messages)
  PROVE  /\ [q EXCEPT ![c] = s] \in [Clients -> Seq(Messages)]
         /\ [q EXCEPT ![c] = s][c] = s
         /\ \A d \in Clients \ {c} : [q EXCEPT ![c] = s][d] = q[d]
OBVIOUS

-----------------------------------------------------------------------------
(* Processes that end. *)

LEMMA ServerExits ==
  ASSUME IInv, NEW how \in {"exited", "aborted"},
         NEW replies \in [Clients -> Seq(Messages)],
         \A c \in Clients : snd[c].pc = "connect" => replies[c] = <<>>,
         ServerExit(how, replies),
         rcv' \in [Clients -> Sessions], UNCHANGED <<fsize, changes, snd>>
  PROVE  IInv'
<1>1. /\ srv' = how
      /\ conn' = [c \in Clients |-> IF conn[c] = "up" THEN "down" ELSE conn[c]]
      /\ toServer' = [c \in Clients |-> <<>>]
      /\ toClient' \in [Clients -> UNION {Prefixes(replies[c]) : c \in Clients}]
      /\ \A c \in Clients : toClient'[c] \in Prefixes(replies[c])
  BY DEF ServerExit
<1>2. \A c \in Clients : toClient'[c] \in Seq(Messages)
                         /\ (replies[c] = <<>> => toClient'[c] = <<>>)
  BY <1>1, PrefixOf
<1>3. toClient' \in [Clients -> Seq(Messages)] BY <1>1, <1>2
<1>4. conn' \in [Clients -> {"none", "up", "down"}]
  BY <1>1 DEF IInv, ProcessesOK
<1>5. toServer' \in [Clients -> Seq(Messages)] BY <1>1, EmptyQueue
<1>6. ProcessesOK' BY <1>1, <1>3, <1>4, <1>5 DEF IInv, ProcessesOK
<1>7. Fresh' BY <1>1, <1>2 DEF Fresh
<1>8. Opened' BY <1>1 DEF Opened, ServerUp
<1> QED BY <1>6, <1>7, <1>8 DEF IInv, SizesKept

LEMMA ClientExits ==
  ASSUME IInv, NEW c \in Clients, ClientExit(c),
         snd[c].pc # "connect", UNCHANGED <<fsize, changes, rcv, srv>>
  PROVE  IInv'
<1>1. PICK s \in Prefixes(toServer[c]) : toServer' = [toServer EXCEPT ![c] = s]
  BY DEF ClientExit
<1>2. /\ snd' = [snd EXCEPT ![c].pc = "exited"]
      /\ conn' = [conn EXCEPT ![c] = "down"]
      /\ toClient' = [toClient EXCEPT ![c] = <<>>]
  BY DEF ClientExit
<1>3. toServer[c] \in Seq(Messages) BY DEF IInv, ProcessesOK
<1>4. s \in Seq(Messages) /\ (Needing(s) => Needing(toServer[c]))
  BY <1>3, PrefixOf
<1>5. ProcessesOK'
  <2>1. snd' \in [Clients -> Senders]
    <3>1. snd[c] \in Senders BY DEF IInv, ProcessesOK
    <3>2. [snd[c] EXCEPT !.pc = "exited"] \in Senders BY <3>1, SenderFields
    <3> QED BY <1>2, <3>2, SenderUpdated DEF IInv
  <2>2. /\ toServer' \in [Clients -> Seq(Messages)]
        /\ toClient' \in [Clients -> Seq(Messages)]
        /\ conn' \in [Clients -> {"none", "up", "down"}]
    BY <1>1, <1>2, <1>4, EmptyQueue DEF IInv, ProcessesOK
  <2> QED BY <2>1, <2>2 DEF IInv, ProcessesOK
<1>6. /\ snd'[c].pc = "exited" /\ toServer'[c] = s /\ toClient'[c] = <<>>
      /\ \A d \in Clients \ {c} : /\ snd'[d] = snd[d] /\ toServer'[d] = toServer[d]
                                  /\ toClient'[d] = toClient[d]
  BY <1>1, <1>2 DEF IInv, ProcessesOK, Senders
<1>7. Fresh' BY <1>6 DEF IInv, Fresh
<1>8. \A d \in Clients : Begun(d)' => Begun(d)
  BY <1>4, <1>6, EmptyQueue DEF Begun
<1>9. Opened' BY <1>8 DEF IInv, Opened, ServerUp
<1> QED BY <1>5, <1>7, <1>9 DEF IInv, SizesKept

-----------------------------------------------------------------------------
(* The client. *)

LEMMA StartStep ==
  ASSUME IInv, NEW c \in Clients, StartTransf(c)
  PROVE  IInv'
<1>1. /\ snd[c].pc = "connect" /\ rcv' = [rcv EXCEPT ![c] = NewSession]
      /\ UNCHANGED <<fsize, changes, srv, toClient>>
      /\ toServer[c] = <<>> /\ toClient[c] = <<>>
  BY DEF StartTransf, IInv, Fresh
<1>2. /\ U32(fsize[c]) \in 0..(Word - 1)
      /\ toServer \in [Clients -> Seq(Messages)] /\ snd[c] \in Senders
  BY Remainders DEF IInv, SizesKept, ProcessesOK
<1>3. NewSession \in Sessions
  BY BoundsAssumption DEF NewSession, Sessions
<1>4. rcv' \in [Clients -> Sessions]
      /\ \A d \in Clients \ {c} : rcv'[d] = rcv[d]
  BY <1>1, <1>3, SessionUpdated DEF IInv
<1>5. /\ snd' \in [Clients -> Senders] /\ snd'[c].pc \in {"exited", "poll"}
      /\ \A d \in Clients \ {c} : snd'[d] = snd[d]
      /\ conn' \in [Clients -> {"none", "up", "down"}]
      /\ toServer' \in [Clients -> Seq(Messages)] /\ ~Needing(toServer'[c])
      /\ \A d \in Clients \ {c} : toServer'[d] = toServer[d]
  <2>1. CASE U32(fsize[c]) = 0
    <3> DEFINE r == [snd[c] EXCEPT !.pc = "exited", !.status = "CONNECTED"]
    <3>1. snd' = [snd EXCEPT ![c] = r] /\ conn' = [conn EXCEPT ![c] = "down"]
          /\ UNCHANGED toServer
      BY <2>1 DEF StartTransf
    <3>2. r \in Senders /\ r.pc = "exited" BY <1>2 DEF Senders
    <3> HIDE DEF r
    <3>3. snd' \in [Clients -> Senders] /\ snd'[c] = r
          /\ \A d \in Clients \ {c} : snd'[d] = snd[d]
      BY <3>1, <3>2, SenderUpdated DEF IInv
    <3>4. conn' \in [Clients -> {"none", "up", "down"}]
      BY <3>1 DEF IInv, ProcessesOK
    <3> QED BY <1>1, <1>2, <3>1, <3>2, <3>3, <3>4, EmptyQueue
  <2>2. CASE U32(fsize[c]) # 0
    <3> DEFINE r == [snd[c] EXCEPT !.pc = "poll", !.status = "CONNECTED"]
               m == Req(U32(fsize[c]))
    <3>1. /\ snd' = [snd EXCEPT ![c] = r] /\ conn' = [conn EXCEPT ![c] = "up"]
          /\ toServer' = [toServer EXCEPT ![c] = <<m>>]
      BY <2>2 DEF StartTransf
    <3>2. r \in Senders /\ r.pc = "poll" BY <1>2 DEF Senders
    <3>3. m \in Messages /\ m.type = "REQ" BY <1>2, MessageTypes
    <3> HIDE DEF r, m
    <3>4. <<m>> \in Seq(Messages) /\ ~Needing(<<m>>) BY <3>3 DEF Needing
    <3>5. snd' \in [Clients -> Senders] /\ snd'[c] = r
          /\ \A d \in Clients \ {c} : snd'[d] = snd[d]
      BY <3>1, <3>2, SenderUpdated DEF IInv
    <3>6. conn' \in [Clients -> {"none", "up", "down"}]
      BY <3>1 DEF IInv, ProcessesOK
    <3>7. /\ toServer' \in [Clients -> Seq(Messages)] /\ toServer'[c] = <<m>>
          /\ \A d \in Clients \ {c} : toServer'[d] = toServer[d]
      BY <1>2, <3>1, <3>4, QueueUpdated
    <3> QED BY <3>2, <3>4, <3>5, <3>6, <3>7
  <2> QED BY <2>1, <2>2
<1>6. ProcessesOK' BY <1>1, <1>4, <1>5 DEF IInv, ProcessesOK
<1>7. Fresh' BY <1>1, <1>5 DEF IInv, Fresh
<1>8. \A d \in Clients : Begun(d)' => d # c /\ Begun(d)
  BY <1>1, <1>5, EmptyQueue DEF Begun
<1>9. Opened' BY <1>1, <1>4, <1>8 DEF IInv, Opened, ServerUp
<1> QED BY <1>1, <1>6, <1>7, <1>9 DEF IInv, SizesKept

\* A message of the server is taken from the queue.
LEMMA Dispatches ==
  ASSUME IInv, NEW c \in Clients, toClient[c] # <<>>, Dispatched(c),
         NEW r \in Senders, snd' = [snd EXCEPT ![c] = r],
         r.pc = "loop" => Answered(toClient[c]),
         r.pc \notin {"connect", "failed"},
         UNCHANGED <<fsize, changes, rcv, srv, conn, toServer>>
  PROVE  IInv'
<1>1. toClient[c] \in Seq(Messages) /\ toClient \in [Clients -> Seq(Messages)]
  BY DEF IInv, ProcessesOK
<1>2. /\ Tail(toClient[c]) \in Seq(Messages)
      /\ Answered(Tail(toClient[c])) => Answered(toClient[c])
  BY <1>1, TailOf
<1>3. /\ toClient' \in [Clients -> Seq(Messages)]
      /\ toClient'[c] = Tail(toClient[c])
      /\ \A d \in Clients \ {c} : toClient'[d] = toClient[d]
  BY <1>1, <1>2, QueueUpdated DEF Dispatched
<1>4. /\ snd' \in [Clients -> Senders] /\ snd'[c] = r
      /\ \A d \in Clients \ {c} : snd'[d] = snd[d]
  BY SenderUpdated DEF IInv
<1>5. ProcessesOK' BY <1>3, <1>4 DEF IInv, ProcessesOK
<1>6. Fresh' BY <1>3, <1>4 DEF IInv, Fresh
<1>7. \A d \in Clients : Begun(d)' => Begun(d)
  BY <1>2, <1>3, <1>4 DEF Begun
<1>8. Opened' BY <1>7 DEF IInv, Opened, ServerUp
<1> QED BY <1>5, <1>6, <1>8 DEF IInv, SizesKept

LEMMA RspStep ==
  ASSUME IInv, NEW c \in Clients, ProcTranRsp(c)
  PROVE  IInv'
<1>1. /\ snd[c].pc = "poll" /\ toClient[c] # <<>> /\ Head(toClient[c]).type = "RSP"
      /\ UNCHANGED <<fsize, changes, rcv, srv>>
  BY DEF ProcTranRsp, Dispatching
<1>2. snd[c] \in Senders /\ toClient[c] \in Seq(Messages)
      /\ snd = [snd EXCEPT ![c] = snd[c]]
  BY DEF IInv, ProcessesOK
<1>3. CASE ClientExit(c) BY <1>1, <1>3, ClientExits
<1>4. CASE UNCHANGED <<snd, conn, toServer>> /\ Dispatched(c)
  <2>1. snd' = [snd EXCEPT ![c] = snd[c]] BY <1>2, <1>4
  <2> QED BY <1>1, <1>2, <1>4, <2>1, Dispatches
<1>5. CASE /\ Head(toClient[c]).code # "ERROR" /\ UNCHANGED <<conn, toServer>>
           /\ Dispatched(c)
           /\ snd' = [snd EXCEPT ![c].pc = "loop", ![c].status = "SENDING",
                                 ![c].goal = U32(fsize[c])]
  <2> DEFINE r == [snd[c] EXCEPT !.pc = "loop", !.status = "SENDING",
                                 !.goal = U32(fsize[c])]
  <2>1. snd' = [snd EXCEPT ![c] = r] BY <1>2, <1>5
  <2>2. U32(fsize[c]) \in 0..(Word - 1) BY Remainders DEF IInv, SizesKept
  <2>3. r \in Senders /\ r.pc = "loop" BY <1>2, <2>2 DEF Senders
  <2> HIDE DEF r
  <2>4. Answered(toClient[c]) BY <1>1, <1>2, <1>5, TailOf
  <2> QED BY <1>1, <1>5, <2>1, <2>3, <2>4, Dispatches
<1> QED BY <1>3, <1>4, <1>5 DEF ProcTranRsp

LEMMA EndCStep ==
  ASSUME IInv, NEW c \in Clients, ProcTranEndC(c)
  PROVE  IInv'
<1>1. /\ snd[c].pc = "poll" /\ toClient[c] # <<>>
      /\ UNCHANGED <<fsize, changes, rcv, srv>>
  BY DEF ProcTranEndC, Dispatching
<1>2. snd[c] \in Senders /\ snd = [snd EXCEPT ![c] = snd[c]]
  BY DEF IInv, ProcessesOK
<1>3. CASE ClientExit(c) BY <1>1, <1>3, ClientExits
<1>4. CASE Dispatched(c) /\ UNCHANGED <<snd, conn, toServer>>
  <2>1. snd' = [snd EXCEPT ![c] = snd[c]] BY <1>2, <1>4
  <2> QED BY <1>1, <1>2, <1>4, <2>1, Dispatches
<1> QED BY <1>3, <1>4 DEF ProcTranEndC

\* The client sends, or gives up, in a transfer that has begun.
LEMMA Sends ==
  ASSUME IInv, NEW c \in Clients, snd[c].pc \in {"loop", "failed"},
         NEW r \in Senders, snd' = [snd EXCEPT ![c] = r], r.pc # "connect",
         NEW m \in Messages, Took(c, m) \/ UNCHANGED toServer,
         UNCHANGED <<fsize, changes, rcv, srv, conn, toClient>>
  PROVE  IInv'
<1>1. toServer[c] \in Seq(Messages) /\ toServer \in [Clients -> Seq(Messages)]
  BY DEF IInv, ProcessesOK
<1>2. /\ toServer' \in [Clients -> Seq(Messages)]
      /\ \A d \in Clients \ {c} : toServer'[d] = toServer[d]
  <2>1. Append(toServer[c], m) \in Seq(Messages) BY <1>1, AppendOf
  <2>2. CASE toServer' = [toServer EXCEPT ![c] = Append(toServer[c], m)]
    BY <1>1, <2>1, <2>2, QueueUpdated
  <2>3. CASE toServer' = toServer BY <1>1, <2>3
  <2> QED BY <2>2, <2>3 DEF Took
<1>3. /\ snd' \in [Clients -> Senders] /\ snd'[c] = r
      /\ \A d \in Clients \ {c} : snd'[d] = snd[d]
  BY SenderUpdated DEF IInv
<1>4. ProcessesOK' BY <1>2, <1>3 DEF IInv, ProcessesOK
<1>5. Fresh' BY <1>2, <1>3 DEF IInv, Fresh
<1>6. \A d \in Clients : Begun(d)' => Begun(d) BY <1>2, <1>3 DEF Begun
<1>7. Opened' BY <1>6 DEF IInv, Opened, ServerUp
<1> QED BY <1>4, <1>5, <1>7 DEF IInv, SizesKept

LEMMA ChunkStep ==
  ASSUME IInv, NEW c \in Clients, SendChunk(c)
  PROVE  IInv'
<1> DEFINE n == Least(Chunk, fsize[c] - snd[c].pos)
           next == U32(snd[c].pos + n)
<1>1. /\ snd[c].pc = "loop" /\ n > 0
      /\ UNCHANGED <<fsize, changes, rcv, srv, conn, toClient>>
  BY DEF SendChunk
<1>2. snd[c] \in Senders /\ snd[c].pos \in Nat /\ fsize[c] \in Nat /\ Chunk \in Nat
  <2>1. snd[c] \in Senders BY DEF IInv, ProcessesOK
  <2>2. snd[c].pos \in Nat BY <2>1 DEF Senders
  <2>3. fsize[c] \in Nat BY DEF IInv, SizesKept
  <2> QED BY <2>1, <2>2, <2>3, BoundsAssumption
<1>3. n \in 1..Chunk /\ snd[c].pos + n \in Nat
  BY <1>1, <1>2 DEF Least
<1>4. next \in 0..(Word - 1) BY <1>3, Remainders
<1>5. \A w \in BOOLEAN : Data(snd[c].pos, n, w) \in Messages
  BY <1>2, <1>3, MessageTypes
<1>6. CASE /\ Took(c, Data(snd[c].pos, n, TRUE))
           /\ snd' = [snd EXCEPT ![c].pos = @ + n, ![c].sent = U32(@ + n)]
  <2> DEFINE r == [snd[c] EXCEPT !.pos = @ + n, !.sent = U32(@ + n)]
  <2>1. snd' = [snd EXCEPT ![c] = r] BY <1>2, <1>6 DEF IInv, ProcessesOK
  <2>2. U32(snd[c].sent + n) \in 0..(Word - 1)
    <3>1. snd[c].sent + n \in Nat
      BY <1>2, <1>3, BoundsAssumption DEF Senders
    <3> QED BY <3>1, Remainders
  <2>3. r \in Senders /\ r.pc = "loop"
    BY <1>1, <1>2, <1>3, <2>2 DEF Senders
  <2> HIDE DEF r, n, next
  <2> QED BY <1>1, <1>5, <1>6, <2>1, <2>3, Sends
<1>7. CASE /\ Took(c, Data(snd[c].pos, n, FALSE))
           /\ snd' = [snd EXCEPT ![c].pos = @ + n, ![c].sent = U32(@ + n),
                                 ![c].short = TRUE]
  <2> DEFINE r == [snd[c] EXCEPT !.pos = @ + n, !.sent = U32(@ + n), !.short = TRUE]
  <2>1. snd' = [snd EXCEPT ![c] = r] BY <1>2, <1>7 DEF IInv, ProcessesOK
  <2>2. U32(snd[c].sent + n) \in 0..(Word - 1)
    <3>1. snd[c].sent + n \in Nat
      BY <1>2, <1>3, BoundsAssumption DEF Senders
    <3> QED BY <3>1, Remainders
  <2>3. r \in Senders /\ r.pc = "loop"
    BY <1>1, <1>2, <1>3, <2>2 DEF Senders
  <2> HIDE DEF r, n, next
  <2> QED BY <1>1, <1>5, <1>7, <2>1, <2>3, Sends
<1>8. CASE snd' = [snd EXCEPT ![c].pc = "failed"] /\ UNCHANGED toServer
  <2> DEFINE r == [snd[c] EXCEPT !.pc = "failed"]
  <2>1. snd' = [snd EXCEPT ![c] = r] BY <1>8
  <2>2. r \in Senders /\ r.pc = "failed" BY <1>2, SenderFields
  <2> HIDE DEF r, n, next
  <2> QED BY <1>1, <1>5, <1>8, <2>1, <2>2, Sends
<1> QED BY <1>6, <1>7, <1>8 DEF SendChunk

LEMMA LocalEndStep ==
  ASSUME IInv, NEW c \in Clients, LocalTransEnd(c)
  PROVE  IInv'
<1> DEFINE over == snd[c].sent = snd[c].goal
           r(told) == [snd[c] EXCEPT !.pc = "poll", !.told = told,
                         !.status = IF over THEN "SEND_OVER" ELSE "SEND_FAIL"]
           m == End(IF over THEN "SUCCESS" ELSE "ERROR")
<1>1. /\ snd[c].pc \in {"loop", "failed"}
      /\ UNCHANGED <<fsize, changes, rcv, srv, conn, toClient>>
  BY DEF LocalTransEnd
<1>2. PICK told \in BOOLEAN :
        /\ snd' = [snd EXCEPT ![c] = r(told)]
        /\ Took(c, m) \/ UNCHANGED toServer
  BY DEF LocalTransEnd
<1>3. m \in Messages BY MessageTypes DEF Codes
<1>4. snd[c] \in Senders BY DEF IInv, ProcessesOK
<1>5. r(told) \in Senders /\ r(told).pc = "poll" BY <1>4 DEF Senders
<1> HIDE DEF over, r, m
<1> QED BY <1>1, <1>2, <1>3, <1>5, Sends

LEMMA ClientErrStep ==
  ASSUME IInv, NEW c \in Clients, ClientErr(c)
  PROVE  IInv'
<1> DEFINE r == [snd[c] EXCEPT !.deaf = TRUE]
<1>1. /\ snd' = [snd EXCEPT ![c] = r]
      /\ UNCHANGED <<fsize, changes, rcv, srv, conn, toServer, toClient>>
  BY DEF ClientErr
<1>2. r \in Senders /\ r.pc = snd[c].pc
  <2>1. snd[c] \in Senders BY DEF IInv, ProcessesOK
  <2> QED BY <2>1, SenderFields
<1> HIDE DEF r
<1>3. /\ snd' \in [Clients -> Senders]
      /\ \A d \in Clients : snd'[d].pc = snd[d].pc
  BY <1>1, <1>2, SenderUpdated DEF IInv
<1>4. ProcessesOK' BY <1>1, <1>3 DEF IInv, ProcessesOK
<1>5. Fresh' BY <1>1, <1>3 DEF IInv, Fresh
<1>6. Opened' BY <1>1, <1>3 DEF IInv, Opened, ServerUp, Begun
<1> QED BY <1>1, <1>4, <1>5, <1>6 DEF IInv, SizesKept
-----------------------------------------------------------------------------
(* The server. *)

\* What the handlers of FileRecv keep true of a session.
LEMMA SessionFields ==
  ASSUME IInv, NEW c \in Clients
  PROVE  /\ rcv[c] \in Sessions
         /\ rcv = [rcv EXCEPT ![c] = rcv[c]]
         /\ \A x \in {"open", "null", "closed"} : [rcv[c] EXCEPT !.file = x] \in Sessions
         /\ \A x \in {"CONNECTED", "GONE"} : [rcv[c] EXCEPT !.status = x] \in Sessions
<1>1. rcv[c] \in Sessions /\ rcv = [rcv EXCEPT ![c] = rcv[c]]
  BY DEF IInv, ProcessesOK
<1>2. /\ \A x \in {"open", "null", "closed"} : [rcv[c] EXCEPT !.file = x] \in Sessions
      /\ \A x \in {"CONNECTED", "GONE"} : [rcv[c] EXCEPT !.status = x] \in Sessions
  BY <1>1 DEF Sessions
<1> QED BY <1>1, <1>2

LEMMA Replies ==
  ASSUME IInv, NEW c \in Clients, toServer[c] # <<>>, NEW m \in Messages
  PROVE  /\ Replied(c, m) \in [Clients -> Seq(Messages)]
         /\ \A d \in Clients \ {c} : Replied(c, m)[d] = toClient[d]
         /\ \A d \in Clients : snd[d].pc = "connect" => Replied(c, m)[d] = <<>>
<1>1. toClient \in [Clients -> Seq(Messages)] /\ toClient[c] \in Seq(Messages)
  BY DEF IInv, ProcessesOK
<1>2. Append(toClient[c], m) \in Seq(Messages) BY <1>1, AppendOf
<1>3. /\ snd[c].pc # "connect"
      /\ \A d \in Clients : snd[d].pc = "connect" => toClient[d] = <<>>
  BY DEF IInv, Fresh
<1>4. CASE Replied(c, m) = [toClient EXCEPT ![c] = Append(toClient[c], m)]
  <2>1. /\ Replied(c, m) \in [Clients -> Seq(Messages)]
        /\ \A d \in Clients \ {c} : Replied(c, m)[d] = toClient[d]
    BY <1>1, <1>2, <1>4, QueueUpdated
  <2> QED BY <1>3, <2>1
<1>5. CASE Replied(c, m) = toClient BY <1>1, <1>3, <1>5
<1> QED BY <1>4, <1>5 DEF Replied

\* A handler consumes the message, and may reply.
LEMMA GoesOn ==
  ASSUME IInv, ServerUp, NEW c \in Clients, toServer[c] # <<>>, Consumed(c),
         NEW r \in Sessions, rcv' = [rcv EXCEPT ![c] = r], NEW m \in Messages,
         \/ r.file \in {"open", "null"} /\ toClient' = Replied(c, m)
         \/ r.file \in {"open", "null", rcv[c].file} /\ toClient' = toClient,
         UNCHANGED <<fsize, changes, snd, srv, conn>>
  PROVE  IInv'
<1>1. /\ toServer[c] \in Seq(Messages) /\ toServer \in [Clients -> Seq(Messages)]
      /\ toClient \in [Clients -> Seq(Messages)]
      /\ snd[c].pc # "connect"
  BY DEF IInv, ProcessesOK, Fresh
<1>2. Tail(toServer[c]) \in Seq(Messages)
      /\ (Needing(Tail(toServer[c])) => Needing(toServer[c]))
  BY <1>1, TailOf
<1>3. /\ toServer' \in [Clients -> Seq(Messages)]
      /\ toServer'[c] = Tail(toServer[c])
      /\ \A d \in Clients \ {c} : toServer'[d] = toServer[d]
  BY <1>1, <1>2, QueueUpdated DEF Consumed
<1>4. /\ toClient' \in [Clients -> Seq(Messages)]
      /\ \A d \in Clients \ {c} : toClient'[d] = toClient[d]
  <2>1. CASE toClient' = Replied(c, m) BY <2>1, Replies
  <2>2. CASE toClient' = toClient BY <1>1, <2>2
  <2> QED BY <2>1, <2>2
<1>5. /\ rcv' \in [Clients -> Sessions] /\ rcv'[c] = r
      /\ \A d \in Clients \ {c} : rcv'[d] = rcv[d]
  BY SessionUpdated DEF IInv
<1>6. ProcessesOK' BY <1>3, <1>4, <1>5 DEF IInv, ProcessesOK
<1>7. Fresh' BY <1>1, <1>3, <1>4 DEF IInv, Fresh
<1>8. \A d \in Clients \ {c} : Begun(d)' => Begun(d) BY <1>3, <1>4 DEF Begun
<1>9. Begun(c)' => rcv'[c].file \in {"open", "null"}
  <2>1. CASE r.file \in {"open", "null"} BY <1>5, <2>1
  <2>2. CASE r.file = rcv[c].file /\ toClient' = toClient
    <3>1. Begun(c)' => Begun(c) BY <1>2, <1>3, <2>2 DEF Begun
    <3> QED BY <1>5, <2>2, <3>1 DEF IInv, Opened
  <2> QED BY <2>1, <2>2
<1>10. Opened' BY <1>5, <1>8, <1>9 DEF IInv, Opened
<1> QED BY <1>6, <1>7, <1>10 DEF IInv, SizesKept

\* What was under way to the clients when the process ends.
LEMMA NoReply ==
  ASSUME IInv
  PROVE  /\ toClient \in [Clients -> Seq(Messages)]
         /\ \A d \in Clients : snd[d].pc = "connect" => toClient[d] = <<>>
BY DEF IInv, ProcessesOK, Fresh

LEMMA ReplyStep ==
  ASSUME IInv, ServerUp, NEW c \in Clients, toServer[c] # <<>>,
         NEW m \in Messages, NEW r \in Sessions, r.file \in {"open", "null"},
         ReplyAndGoOn(c, m, r), UNCHANGED <<fsize, changes, snd>>
  PROVE  IInv'
<1>1. rcv' = [rcv EXCEPT ![c] = r] BY DEF ReplyAndGoOn
<1>2. CASE toClient' = Replied(c, m) /\ Consumed(c) /\ UNCHANGED <<srv, conn>>
  BY <1>1, <1>2, GoesOn
<1>3. CASE ServerExit("exited", toClient)
  <2>1. rcv' \in [Clients -> Sessions] BY <1>1, SessionUpdated DEF IInv
  <2> QED BY <1>3, <2>1, NoReply, ServerExits
<1> QED BY <1>2, <1>3 DEF ReplyAndGoOn

LEMMA ExitStep ==
  ASSUME IInv, NEW c \in Clients, toServer[c] # <<>>, NEW m \in Messages,
         NEW r \in Sessions, rcv' = [rcv EXCEPT ![c] = r],
         \E how \in {"exited", "aborted"} :
           ServerExit(how, toClient) \/ ServerExit(how, Replied(c, m)),
         UNCHANGED <<fsize, changes, snd>>
  PROVE  IInv'
<1>1. rcv' \in [Clients -> Sessions] BY SessionUpdated DEF IInv
<1>2. PICK how \in {"exited", "aborted"} :
        ServerExit(how, toClient) \/ ServerExit(how, Replied(c, m))
  OBVIOUS
<1>3. CASE ServerExit(how, toClient) BY <1>1, <1>3, NoReply, ServerExits
<1>4. CASE ServerExit(how, Replied(c, m)) BY <1>1, <1>4, Replies, ServerExits
<1> QED BY <1>2, <1>3, <1>4

LEMMA Arrivals ==
  ASSUME IInv, NEW c \in Clients, NEW type, Arrived(c, type)
  PROVE  /\ ServerUp /\ toServer[c] # <<>>
         /\ Head(toServer[c]) \in Messages /\ Head(toServer[c]).type = type
<1>1. toServer[c] \in Seq(Messages) BY DEF IInv, ProcessesOK
<1> QED BY <1>1, TailOf DEF Arrived

LEMMA ReqStep ==
  ASSUME IInv, NEW c \in Clients, ProcTranReq(c)
  PROVE  IInv'
<1>1. /\ ServerUp /\ toServer[c] # <<>> /\ Head(toServer[c]) \in Messages
      /\ Head(toServer[c]).type = "REQ" /\ UNCHANGED <<fsize, changes, snd>>
  BY Arrivals DEF ProcTranReq
<1>2. \A x \in Codes : Rsp(x) \in Messages BY MessageTypes
<1>3. CASE Consumed(c) /\ UNCHANGED <<rcv, srv, conn, toClient>>
  <2>1. rcv' = [rcv EXCEPT ![c] = rcv[c]] /\ rcv[c] \in Sessions
    BY <1>3, SessionFields
  <2>2. Rsp("ERROR") \in Messages BY <1>2 DEF Codes
  <2> QED BY <1>1, <1>3, <2>1, <2>2, GoesOn
<1>4. CASE ReplyAndGoOn(c, Rsp("SUCCESS"),
             [rcv[c] EXCEPT !.status = "SENDING", !.file = "open", !.content = <<>>,
                            !.size = Head(toServer[c]).size])
  <2> DEFINE n == Head(toServer[c]).size
             s == <<>>
             r == [rcv[c] EXCEPT !.status = "SENDING", !.file = "open", !.content = s,
                                 !.size = n]
  <2>1. n \in 0..(Word - 1) /\ s \in Seq(Nat) BY <1>1 DEF Messages
  <2>2. rcv[c] \in Sessions BY SessionFields
  <2>3. r \in Sessions /\ r.file = "open"
    <3> HIDE DEF n, s
    <3> QED BY <2>1, <2>2 DEF Sessions
  <2>4. Rsp("SUCCESS") \in Messages BY <1>2 DEF Codes
  <2>5. ReplyAndGoOn(c, Rsp("SUCCESS"), r) BY <1>4
  <2> HIDE DEF r
  <2> QED BY <1>1, <2>3, <2>4, <2>5, ReplyStep
<1>5. CASE /\ rcv' = [rcv EXCEPT ![c].status = "CONNECTED"]
           /\ ServerExit("exited", Replied(c, Rsp("ERROR")))
  <2>1. /\ [rcv[c] EXCEPT !.status = "CONNECTED"] \in Sessions
        /\ rcv' = [rcv EXCEPT ![c] = [rcv[c] EXCEPT !.status = "CONNECTED"]]
    BY <1>5, SessionFields
  <2>2. Rsp("ERROR") \in Messages BY <1>2 DEF Codes
  <2> QED BY <1>1, <1>5, <2>1, <2>2, ExitStep
<1> QED BY <1>3, <1>4, <1>5 DEF ProcTranReq

LEMMA EndStep ==
  ASSUME IInv, NEW c \in Clients, ProcTranEnd(c)
  PROVE  IInv'
<1>1. /\ ServerUp /\ toServer[c] # <<>> /\ Head(toServer[c]) \in Messages
      /\ UNCHANGED <<fsize, changes, snd>>
  BY Arrivals DEF ProcTranEnd
<1>2. rcv[c] \in Sessions BY SessionFields
<1>3. CASE Consumed(c) /\ UNCHANGED <<rcv, srv, conn, toClient>>
  <2>1. rcv' = [rcv EXCEPT ![c] = rcv[c]] BY <1>3, SessionFields
  <2> QED BY <1>1, <1>2, <1>3, <2>1, GoesOn
<1>4. CASE /\ rcv' = [rcv EXCEPT ![c].file = IF @ = "open" THEN "closed" ELSE @]
           /\ ServerExit("exited", toClient)
  <2> DEFINE r == [rcv[c] EXCEPT !.file = IF @ = "open" THEN "closed" ELSE @]
  <2>1. r \in Sessions BY <1>2 DEF Sessions
  <2>2. rcv' = [rcv EXCEPT ![c] = r] BY <1>4
  <2> HIDE DEF r
  <2> QED BY <1>1, <1>4, <2>1, <2>2, ExitStep
<1> QED BY <1>3, <1>4 DEF ProcTranEnd

\* The message that fills the announced size.
LEMMA CompleteStep ==
  ASSUME IInv, ServerUp, NEW c \in Clients, toServer[c] # <<>>,
         NEW r \in Sessions, NEW zero \in BOOLEAN, Complete(c, r, zero),
         UNCHANGED <<fsize, changes, snd>>
  PROVE  IInv'
<1> DEFINE full == [r EXCEPT !.file = "null", !.done = TRUE]
           again == [full EXCEPT !.status = "INIT", !.size = 0, !.written = 0]
<1>1. full \in Sessions /\ full.file = "null" BY DEF Sessions
<1>2. again \in Sessions /\ again.file = "null"
  <2>1. 0 \in 0..(Word - 1) BY BoundsAssumption
  <2> HIDE DEF full
  <2> QED BY <1>1, <2>1 DEF Sessions
<1>3. End("SUCCESS") \in Messages BY MessageTypes DEF Codes
<1>4. CASE zero
  <2>1. /\ rcv' = [rcv EXCEPT ![c] = full]
        /\ \/ ServerExit("aborted", Replied(c, End("SUCCESS")))
           \/ ServerExit("exited", toClient)
    BY <1>4 DEF Complete
  <2> HIDE DEF full
  <2> QED BY <1>1, <1>3, <2>1, ExitStep
<1>5. CASE ~zero
  <2>1. ReplyAndGoOn(c, End("SUCCESS"), again) BY <1>5 DEF Complete
  <2> HIDE DEF again
  <2> QED BY <1>2, <1>3, <2>1, ReplyStep
<1> QED BY <1>4, <1>5

LEMMA DataStep ==
  ASSUME IInv, ServerUp, NEW c \in Clients, toServer[c] # <<>>,
         NEW bs \in Seq(Nat), NEW insync \in BOOLEAN, ProcFileData(c, bs, insync)
  PROVE  IInv'
<1> DEFINE w == U32(rcv[c].written + Len(bs))
           r == [rcv[c] EXCEPT !.written = w, !.content = @ \o bs,
                               !.synced = insync]
<1>1. rcv[c] \in Sessions /\ rcv = [rcv EXCEPT ![c] = rcv[c]] BY SessionFields
<1>2. w \in 0..(Word - 1)
  <2>1. rcv[c].written + Len(bs) \in Nat
    BY <1>1, BoundsAssumption DEF Sessions
  <2> QED BY <2>1, Remainders
<1>3. rcv[c].content \o bs \in Seq(Nat)
  <2>1. rcv[c].content \in Seq(Nat) BY <1>1 DEF Sessions
  <2> QED BY <2>1
<1>4. r \in Sessions /\ r.file = rcv[c].file BY <1>1, <1>2, <1>3 DEF Sessions
<1>5. [r EXCEPT !.file = "closed"] \in Sessions BY <1>4 DEF Sessions
<1>6. End("ERROR") \in Messages /\ UNCHANGED <<fsize, changes, snd>>
  BY MessageTypes DEF Codes, ProcFileData
<1> HIDE DEF w, r
<1>7. CASE UNCHANGED rcv /\ \E how \in {"exited", "aborted"} : ServerExit(how, toClient)
  <2>1. rcv' = [rcv EXCEPT ![c] = rcv[c]] BY <1>1, <1>7
  <2> QED BY <1>1, <1>6, <1>7, <2>1, ExitStep
<1>8. CASE \E zero \in BOOLEAN : Complete(c, r, zero)
  BY <1>4, <1>6, <1>8, CompleteStep
<1>9. CASE /\ rcv[c].file = "open" /\ rcv' = [rcv EXCEPT ![c] = r] /\ Consumed(c)
           /\ UNCHANGED <<srv, conn, toClient>>
  BY <1>4, <1>6, <1>9, GoesOn
<1>10. CASE /\ rcv' = [rcv EXCEPT ![c] = [r EXCEPT !.file = "closed"]]
            /\ ServerExit("exited", Replied(c, End("ERROR")))
  BY <1>5, <1>6, <1>10, ExitStep
<1>11. CASE /\ rcv' = [rcv EXCEPT ![c].file = "closed"]
            /\ ServerExit("exited", Replied(c, End("ERROR")))
  <2>1. /\ [rcv[c] EXCEPT !.file = "closed"] \in Sessions
        /\ rcv' = [rcv EXCEPT ![c] = [rcv[c] EXCEPT !.file = "closed"]]
    BY <1>11, SessionFields
  <2> QED BY <1>6, <1>11, <2>1, ExitStep
<1> QED BY <1>7, <1>8, <1>9, <1>10, <1>11 DEF ProcFileData, w, r

LEMMA RecvDataStep ==
  ASSUME IInv, NEW c \in Clients, RecvData(c) \/ RecvGarbled(c)
  PROVE  IInv'
<1> DEFINE m == Head(toServer[c])
<1>1. /\ ServerUp /\ toServer[c] # <<>> /\ m \in Messages /\ m.type = "DATA"
  BY Arrivals DEF RecvData, RecvGarbled
<1>2. m.after \in Nat /\ m.len \in 1..Chunk BY <1>1 DEF Messages
<1>3. m.len \in Nat /\ m.len - 1 \in Nat BY <1>2, BoundsAssumption
<1>4. \A n \in Nat : Positions(m.after, n) \in Seq(Nat)
  <2> SUFFICES ASSUME NEW n \in Nat PROVE Positions(m.after, n) \in Seq(Nat)
    OBVIOUS
  <2> HIDE DEF m
  <2>1. \A i \in 1..n : m.after + i \in Nat BY <1>2
  <2> QED BY <2>1 DEF Positions
<1>5. CASE RecvData(c)
  <2>1. ProcFileData(c, Positions(m.after, m.len), TRUE) BY <1>5 DEF RecvData
  <2> HIDE DEF m
  <2> QED BY <1>1, <1>3, <1>4, <2>1, DataStep
<1>6. CASE RecvGarbled(c)
  <2>1. ProcFileData(c, Append(Positions(m.after, m.len - 1), 0), FALSE)
    BY <1>6 DEF RecvGarbled
  <2>2. Append(Positions(m.after, m.len - 1), 0) \in Seq(Nat)
    <3> HIDE DEF m
    <3>1. Positions(m.after, m.len - 1) \in Seq(Nat) BY <1>3, <1>4
    <3> QED BY <3>1
  <2> HIDE DEF m
  <2> QED BY <1>1, <2>1, <2>2, DataStep
<1> QED BY <1>5, <1>6

LEMMA UnframedStep ==
  ASSUME IInv, NEW c \in Clients, RecvUnframed(c)
  PROVE  IInv'
<1>1. /\ ServerUp /\ toServer[c] # <<>> /\ UNCHANGED <<fsize, changes, snd, rcv>>
  BY DEF RecvUnframed
<1>2. rcv[c] \in Sessions /\ rcv' = [rcv EXCEPT ![c] = rcv[c]]
  BY <1>1, SessionFields
<1>3. End("ERROR") \in Messages BY MessageTypes DEF Codes
<1>4. CASE Consumed(c) /\ UNCHANGED <<srv, conn, toClient>>
  BY <1>1, <1>2, <1>3, <1>4, GoesOn
<1>5. CASE ServerExit("exited", toClient)
  BY <1>1, <1>2, <1>3, <1>5, ExitStep
<1> QED BY <1>4, <1>5 DEF RecvUnframed

\* Some of what was under way to and from c is lost.
LEMMA Loses ==
  ASSUME IInv, NEW c \in Clients,
         NEW s \in Prefixes(toServer[c]), toServer' = [toServer EXCEPT ![c] = s],
         NEW t \in Prefixes(toClient[c]), toClient' = [toClient EXCEPT ![c] = t],
         NEW r \in Sessions, rcv' = [rcv EXCEPT ![c] = r], r.file = rcv[c].file,
         conn' \in [Clients -> {"none", "up", "down"}],
         UNCHANGED <<fsize, changes, snd, srv>>
  PROVE  IInv'
<1>1. /\ toServer[c] \in Seq(Messages) /\ toClient[c] \in Seq(Messages)
      /\ toServer \in [Clients -> Seq(Messages)]
      /\ toClient \in [Clients -> Seq(Messages)]
  BY DEF IInv, ProcessesOK
<1>2. /\ s \in Seq(Messages) /\ (Needing(s) => Needing(toServer[c]))
      /\ toServer[c] = <<>> => s = <<>>
  BY <1>1, PrefixOf
<1>3. /\ t \in Seq(Messages) /\ (Answered(t) => Answered(toClient[c]))
      /\ toClient[c] = <<>> => t = <<>>
  BY <1>1, PrefixOf
<1>4. /\ toServer' \in [Clients -> Seq(Messages)] /\ toServer'[c] = s
      /\ \A d \in Clients \ {c} : toServer'[d] = toServer[d]
  BY <1>1, <1>2, QueueUpdated
<1>5. /\ toClient' \in [Clients -> Seq(Messages)] /\ toClient'[c] = t
      /\ \A d \in Clients \ {c} : toClient'[d] = toClient[d]
  BY <1>1, <1>3, QueueUpdated
<1>6. /\ rcv' \in [Clients -> Sessions] /\ rcv'[c] = r
      /\ \A d \in Clients \ {c} : rcv'[d] = rcv[d]
  BY SessionUpdated DEF IInv
<1>7. ProcessesOK' BY <1>4, <1>5, <1>6 DEF IInv, ProcessesOK
<1>8. Fresh' BY <1>2, <1>3, <1>4, <1>5 DEF IInv, Fresh
<1>9. \A d \in Clients : Begun(d)' => Begun(d)
  BY <1>2, <1>3, <1>4, <1>5 DEF Begun
<1>10. \A d \in Clients : rcv'[d].file = rcv[d].file BY <1>6
<1>11. Opened' BY <1>9, <1>10 DEF IInv, Opened, ServerUp
<1> QED BY <1>7, <1>8, <1>11 DEF IInv, SizesKept

LEMMA WholeAndNone ==
  ASSUME NEW s \in Seq(Messages)
  PROVE  s \in Prefixes(s) /\ <<>> \in Prefixes(s)
<1>1. Len(s) \in 0..Len(s) /\ 0 \in 0..Len(s) OBVIOUS
<1>2. SubSeq(s, 1, Len(s)) = s /\ SubSeq(s, 1, 0) = <<>> OBVIOUS
<1> QED BY <1>1, <1>2 DEF Prefixes

LEMMA SessionErrStep ==
  ASSUME IInv, NEW c \in Clients, SessionErr(c)
  PROVE  IInv'
<1>1. toServer[c] \in Seq(Messages) /\ toClient[c] \in Seq(Messages)
      /\ toClient = [toClient EXCEPT ![c] = toClient[c]]
      /\ rcv[c] \in Sessions /\ conn \in [Clients -> {"none", "up", "down"}]
  BY DEF IInv, ProcessesOK
<1> DEFINE r == [rcv[c] EXCEPT !.status = "GONE"]
<1>2. /\ rcv' = [rcv EXCEPT ![c] = r]
      /\ toServer' = [toServer EXCEPT ![c] = <<>>]
      /\ UNCHANGED <<fsize, changes, snd, srv, conn, toClient>>
  BY DEF SessionErr
<1>3. r \in Sessions /\ r.file = rcv[c].file BY <1>1 DEF Sessions
<1>4. <<>> \in Prefixes(toServer[c]) /\ toClient[c] \in Prefixes(toClient[c])
  BY <1>1, WholeAndNone
<1>5. toClient' = [toClient EXCEPT ![c] = toClient[c]] BY <1>1, <1>2
<1>6. conn' \in [Clients -> {"none", "up", "down"}] BY <1>1, <1>2
<1> HIDE DEF r
<1> QED BY <1>2, <1>3, <1>4, <1>5, <1>6, Loses

LEMMA ResetStep ==
  ASSUME IInv, NEW c \in Clients, ConnReset(c)
  PROVE  IInv'
<1>1. PICK s \in Prefixes(toServer[c]) : toServer' = [toServer EXCEPT ![c] = s]
  BY DEF ConnReset
<1>2. PICK t \in Prefixes(toClient[c]) : toClient' = [toClient EXCEPT ![c] = t]
  BY DEF ConnReset
<1>3. /\ conn' = [conn EXCEPT ![c] = "down"]
      /\ UNCHANGED <<fsize, changes, snd, rcv, srv>>
  BY DEF ConnReset
<1>4. rcv[c] \in Sessions /\ rcv' = [rcv EXCEPT ![c] = rcv[c]]
  BY <1>3, SessionFields
<1>5. conn' \in [Clients -> {"none", "up", "down"}]
  BY <1>3 DEF IInv, ProcessesOK
<1> QED BY <1>1, <1>2, <1>3, <1>4, <1>5, Loses

LEMMA ResizeStep ==
  ASSUME IInv, NEW c \in Clients, Resize(c)
  PROVE  IInv'
<1>1. PICK n \in Sizes[c] : fsize' = [fsize EXCEPT ![c] = n] BY DEF Resize
<1>2. /\ changes' = [changes EXCEPT ![c] = @ + 1] /\ changes[c] < MaxChanges
      /\ UNCHANGED <<snd, rcv, srv, conn, toServer, toClient>>
  BY DEF Resize
<1>3. n \in Nat BY SizesAssumption
<1>4. changes \in [Clients -> 0..MaxChanges] /\ changes[c] \in 0..MaxChanges
  BY DEF IInv, ProcessesOK
<1>5. changes' \in [Clients -> 0..MaxChanges]
  <2>1. changes[c] + 1 \in 0..MaxChanges BY <1>2, <1>4, BoundsAssumption
  <2> QED BY <1>2, <1>4, <2>1
<1>6. fsize' \in [Clients -> Nat] /\ \A d \in Clients : fsize'[d] \in Sizes[d]
  BY <1>1, <1>3 DEF IInv, ProcessesOK, SizesKept
<1>7. ProcessesOK' BY <1>2, <1>5, <1>6 DEF IInv, ProcessesOK
<1>8. Fresh' /\ Opened' BY <1>2 DEF IInv, Fresh, Opened, ServerUp, Begun
<1> QED BY <1>6, <1>7, <1>8 DEF IInv, SizesKept

LEMMA KilledStep ==
  ASSUME IInv, ServerKilled
  PROVE  IInv'
<1>1. ServerExit("exited", toClient) /\ UNCHANGED <<fsize, changes, snd, rcv>>
  BY DEF ServerKilled
<1>2. rcv' \in [Clients -> Sessions] BY <1>1 DEF IInv, ProcessesOK
<1> QED BY <1>1, <1>2, NoReply, ServerExits

-----------------------------------------------------------------------------
(* The theorem. *)

LEMMA InitEstablishesIInv == Init => IInv
<1> SUFFICES ASSUME Init PROVE IInv OBVIOUS
<1>1. NewSender \in Senders BY BoundsAssumption DEF NewSender, Senders
<1>2. NewSession \in Sessions BY BoundsAssumption DEF NewSession, Sessions
<1>3. /\ \A c \in Clients : fsize[c] \in Sizes[c]
      /\ fsize \in [Clients -> Nat]
  <2>1. /\ fsize \in [Clients -> UNION Range(Sizes)]
        /\ \A c \in Clients : fsize[c] \in Sizes[c]
    BY DEF Init
  <2>2. \A c \in Clients : fsize[c] \in Nat BY <2>1, SizesAssumption
  <2> QED BY <2>1, <2>2
<1>4. ProcessesOK
  BY <1>1, <1>2, <1>3, EmptyQueue, BoundsAssumption DEF Init, ProcessesOK
<1>5. Fresh BY DEF Init, Fresh
<1>6. \A c \in Clients : ~Begun(c)
  BY EmptyQueue DEF Init, Begun, NewSender
<1> QED BY <1>3, <1>4, <1>5, <1>6 DEF IInv, SizesKept, Opened

LEMMA NextKeepsIInv == IInv /\ [Next]_vars => IInv'
<1> SUFFICES ASSUME IInv, [Next]_vars PROVE IInv' OBVIOUS
<1>1. CASE UNCHANGED vars
  BY <1>1 DEF vars, IInv, ProcessesOK, SizesKept, Fresh, Opened, ServerUp, Begun
<1>2. ASSUME NEW c \in Clients, ClientStep(c) PROVE IInv'
  BY <1>2, StartStep, RspStep, EndCStep, ChunkStep, LocalEndStep, ClientErrStep
  DEF ClientStep
<1>3. ASSUME NEW c \in Clients, SessionStep(c) PROVE IInv'
  BY <1>3, ReqStep, EndStep, RecvDataStep, UnframedStep, SessionErrStep
  DEF SessionStep
<1>4. ASSUME NEW c \in Clients, ClientKilled(c) PROVE IInv'
  BY <1>4, ClientExits DEF ClientKilled
<1>5. ASSUME NEW c \in Clients, Resize(c) \/ ConnReset(c) PROVE IInv'
  BY <1>5, ResizeStep, ResetStep
<1>6. CASE ServerKilled BY <1>6, KilledStep
<1> QED BY <1>1, <1>2, <1>3, <1>4, <1>5, <1>6 DEF Next

\* Under every fault no handler of the server uses a _write_file that fopen did
\* not set or that fclose has closed (procFileData, procTranEnd in FileRecv.cpp).
THEOREM FileTransferNoWildFile == Spec => []NoWildFile
<1> QED BY InvImpliesNoWildFile, InitEstablishesIInv, NextKeepsIInv, PTL DEF Spec
-----------------------------------------------------------------------------
(* The bytes of an expected transfer: what the server wrote, then what the  *)
(* messages under way carry, then what the client has not read yet.         *)

EdgeOf(q, p, i) == IF i > Len(q) THEN p
                   ELSE IF q[i].type = "DATA" THEN q[i].after
                   ELSE IF q[i].type = "REQ" THEN 0 ELSE p
Stop(m) == m.after + m.len
AllData(q) == \A i \in DOMAIN q : q[i].type = "DATA"

\* Whole DATA messages that join, the last of which may be followed by END.
Linked(q, p) == \A i \in DOMAIN q :
  /\ q[i].type = "DATA" => /\ q[i].whole /\ Stop(q[i]) <= p
                           /\ i < Len(q) => Stop(q[i]) = EdgeOf(q, p, i + 1)
  /\ q[i].type # "DATA" => i = Len(q)

\* Nothing was lost at the end of q.
Ends(q, p) ==
  q # <<>> /\ q[Len(q)].type = "DATA" => Stop(q[Len(q)]) = p

Unasked(c) == /\ rcv[c].status = "INIT" /\ rcv[c].file = "garbage"
              /\ ~rcv[c].done /\ rcv[c].written = 0 /\ rcv[c].content = <<>>
Writing(c) == /\ rcv[c].file = "open" /\ rcv[c].size = fsize[c]
              /\ rcv[c].written = Len(rcv[c].content)
              /\ Len(rcv[c].content) < fsize[c]
Finished(c) == /\ snd[c].pc \notin {"connect", "loop", "failed"}
               /\ snd[c].status \in {"SEND_OVER", "SEND_FAIL"}

\* What the server wrote is a beginning of the file.
Wrote(c) == /\ rcv[c].content = Positions(0, Len(rcv[c].content))
            /\ Len(rcv[c].content) <= fsize[c]
            /\ rcv[c].done => Len(rcv[c].content) = fsize[c]

\* The client counts what it has read, towards the size it announced.
Counts(c) == /\ snd[c].pos <= fsize[c] /\ snd[c].sent = snd[c].pos
             /\ snd[c].pc \in {"loop", "failed"} =>
                  snd[c].goal = fsize[c] /\ snd[c].status = "SENDING"

\* The session knows the size before the first byte comes.
Stage(c) == /\ rcv[c].synced
            /\ Begun(c) => Writing(c) \/ rcv[c].done \/ rcv[c].status = "GONE"

Chain(c) ==
  /\ Linked(toServer[c], snd[c].pos)
  /\ toServer[c] # <<>> \/ conn[c] = "up" =>
       EdgeOf(toServer[c], snd[c].pos, 1) = Len(rcv[c].content)
  /\ conn[c] = "up" => Ends(toServer[c], snd[c].pos)

Purpose(c) ==
  \A i \in DOMAIN toServer[c] :
    LET m == toServer[c][i] IN
    /\ m.type \in {"REQ", "DATA", "END"}
    /\ m.type = "REQ" => Unasked(c) /\ m.size = fsize[c] /\ snd[c].pos = 0
    /\ m.type = "END" => /\ Finished(c)
                         /\ m.code = "SUCCESS" => snd[c].pos = fsize[c]

Faithful(c) ==
  /\ Wrote(c) /\ Counts(c)
  /\ ServerUp => Stage(c) /\ Chain(c) /\ Purpose(c)

Unstarted == \A c \in Clients : snd[c].pc = "connect" => snd[c] = NewSender
UpIfServed == \A c \in Clients : conn[c] = "up" => ServerUp

EInv == /\ IInv /\ Unstarted /\ UpIfServed
        /\ \A c \in Clients : Expected(c) => Faithful(c)
-----------------------------------------------------------------------------
(* Queues of messages that join. *)

LEMMA LinkedEmpty ==
  ASSUME NEW p
  PROVE  Linked(<<>>, p) /\ Ends(<<>>, p) /\ AllData(<<>>) /\ EdgeOf(<<>>, p, 1) = p
BY DEF Linked, Ends, AllData, EdgeOf

LEMMA MessageFields ==
  ASSUME NEW m \in Messages
  PROVE  m.type = "DATA" => m.after \in Nat /\ m.len \in Nat /\ m.len > 0
                            /\ Stop(m) \in Nat /\ m.after < Stop(m)
<1>1. m.type = "DATA" => m.after \in Nat /\ m.len \in 1..Chunk
  BY DEF Messages
<1>2. m.type = "DATA" => m.after \in Nat /\ m.len \in Nat /\ m.len > 0
  BY <1>1, BoundsAssumption
<1> QED BY <1>2 DEF Stop

LEMMA LinkedTail ==
  ASSUME NEW q \in Seq(Messages), q # <<>>, NEW p \in Nat, Linked(q, p)
  PROVE  /\ Linked(Tail(q), p)
         /\ Head(q).type # "DATA" => Tail(q) = <<>>
         /\ Head(q).type = "DATA" /\ Tail(q) # <<>> =>
              EdgeOf(Tail(q), p, 1) = Stop(Head(q))
         /\ Head(q).type = "DATA" => Head(q).whole /\ Stop(Head(q)) <= p
         /\ Ends(q, p) => Ends(Tail(q), p)
         /\ Ends(q, p) /\ Head(q).type = "DATA" =>
              EdgeOf(Tail(q), p, 1) = Stop(Head(q))
         /\ EdgeOf(q, p, 1) = IF Head(q).type = "DATA" THEN Head(q).after
                              ELSE IF Head(q).type = "REQ" THEN 0 ELSE p
<1> DEFINE t == Tail(q)
<1>1. /\ Head(q) = q[1] /\ DOMAIN q = 1..Len(q) /\ Len(q) \in Nat /\ Len(q) >= 1
      /\ Len(t) = Len(q) - 1 /\ DOMAIN t = 1..(Len(q) - 1)
      /\ \A i \in 1..(Len(q) - 1) : t[i] = q[i + 1]
      /\ t = <<>> <=> Len(q) = 1
  <2>1. /\ Head(q) = q[1] /\ DOMAIN q = 1..Len(q) /\ Len(q) \in Nat /\ Len(q) >= 1
        /\ Len(t) = Len(q) - 1 /\ DOMAIN t = 1..(Len(q) - 1)
        /\ \A i \in 1..(Len(q) - 1) : t[i] = q[i + 1]
    OBVIOUS
  <2>2. t \in Seq(Messages) OBVIOUS
  <2> HIDE DEF t
  <2>3. t = <<>> <=> Len(t) = 0 BY <2>2
  <2> QED BY <2>1, <2>3
<1> HIDE DEF t
<1>2. \A i \in DOMAIN t : /\ i \in Nat /\ i + 1 \in DOMAIN q /\ t[i] = q[i + 1]
                          /\ (i < Len(t) <=> i + 1 < Len(q))
                          /\ (i = Len(t) <=> i + 1 = Len(q))
  BY <1>1
<1>3. \A i \in Nat \ {0} : EdgeOf(t, p, i) = EdgeOf(q, p, i + 1)
  <2> SUFFICES ASSUME NEW i \in Nat \ {0} PROVE EdgeOf(t, p, i) = EdgeOf(q, p, i + 1)
    OBVIOUS
  <2>1. CASE i > Len(t)
    <3>1. i + 1 > Len(q) BY <1>1, <2>1
    <3> QED BY <2>1, <3>1 DEF EdgeOf
  <2>2. CASE ~(i > Len(t))
    <3>1. ~(i + 1 > Len(q)) /\ t[i] = q[i + 1] BY <1>1, <2>2
    <3> QED BY <2>2, <3>1 DEF EdgeOf
  <2> QED BY <2>1, <2>2
<1>4. Linked(t, p)
  <2> SUFFICES ASSUME NEW i \in DOMAIN t
               PROVE  /\ t[i].type = "DATA" =>
                           /\ t[i].whole /\ Stop(t[i]) <= p
                           /\ i < Len(t) => Stop(t[i]) = EdgeOf(t, p, i + 1)
                      /\ t[i].type # "DATA" => i = Len(t)
    BY DEF Linked
  <2> DEFINE j == i + 1
  <2>1. /\ j \in DOMAIN q /\ t[i] = q[j] /\ (i < Len(t) <=> j < Len(q))
        /\ (i = Len(t) <=> j = Len(q)) /\ EdgeOf(t, p, i + 1) = EdgeOf(q, p, j + 1)
    BY <1>2, <1>3
  <2> HIDE DEF j
  <2> QED BY <2>1 DEF Linked
<1>5. 1 \in DOMAIN q BY <1>1
<1>6. q[1].type # "DATA" => t = <<>> BY <1>1, <1>5 DEF Linked
<1>7. EdgeOf(t, p, 1) = EdgeOf(q, p, 2) BY <1>3
<1>8. q[1].type = "DATA" /\ t # <<>> => EdgeOf(t, p, 1) = Stop(q[1])
  <2>1. t # <<>> => 1 < Len(q) BY <1>1
  <2>2. q[1].type = "DATA" /\ 1 < Len(q) => Stop(q[1]) = EdgeOf(q, p, 1 + 1)
    BY <1>5 DEF Linked
  <2> QED BY <1>7, <2>1, <2>2
<1>9. Ends(q, p) => Ends(t, p)
  <2>1. t # <<>> => Len(t) \in DOMAIN t /\ t[Len(t)] = q[Len(q)] BY <1>1
  <2>2. q # <<>> OBVIOUS
  <2> QED BY <2>1, <2>2 DEF Ends
<1>10. Ends(q, p) /\ q[1].type = "DATA" /\ t = <<>> => Stop(q[1]) = p
  BY <1>1 DEF Ends
<1>11. t = <<>> => EdgeOf(t, p, 1) = p BY LinkedEmpty
<1>12. q[1].type = "DATA" => q[1].whole /\ Stop(q[1]) <= p BY <1>5 DEF Linked
<1>13. ~(1 > Len(q)) BY <1>1
<1> QED BY <1>1, <1>4, <1>6, <1>8, <1>9, <1>10, <1>11, <1>12, <1>13 DEF t, EdgeOf

LEMMA LinkedPrefix ==
  ASSUME NEW q \in Seq(Messages), NEW p \in Nat, Linked(q, p), NEW s \in Prefixes(q)
  PROVE  /\ Linked(s, p)
         /\ s # <<>> => q # <<>> /\ EdgeOf(s, p, 1) = EdgeOf(q, p, 1)
         /\ \A i \in DOMAIN s : i \in DOMAIN q /\ s[i] = q[i]
<1>1. PICK n \in 0..Len(q) : s = SubSeq(q, 1, n) BY DEF Prefixes
<1>2. s \in Seq(Messages) /\ Len(s) = n /\ \A i \in 1..n : s[i] = q[i]
  BY <1>1, SubSeqProperties
<1>3. /\ DOMAIN s = 1..n /\ DOMAIN q = 1..Len(q) /\ n \in Nat /\ n <= Len(q)
      /\ Len(q) \in Nat
  BY <1>2
<1>4. \A i \in DOMAIN s : /\ i \in DOMAIN q /\ s[i] = q[i] /\ i \in Nat
                          /\ i < n => i + 1 \in DOMAIN s /\ i < Len(q)
                          /\ ~(i > Len(s)) /\ ~(i > Len(q))
                          /\ i = Len(q) => i = Len(s)
  BY <1>2, <1>3
<1>5. \A i \in DOMAIN s : EdgeOf(s, p, i) = EdgeOf(q, p, i)
  BY <1>4 DEF EdgeOf
<1>6. Linked(s, p)
  <2> SUFFICES ASSUME NEW i \in DOMAIN s
               PROVE  /\ s[i].type = "DATA" =>
                           /\ s[i].whole /\ Stop(s[i]) <= p
                           /\ i < Len(s) => Stop(s[i]) = EdgeOf(s, p, i + 1)
                      /\ s[i].type # "DATA" => i = Len(s)
    BY DEF Linked
  <2>1. i \in DOMAIN q /\ s[i] = q[i] BY <1>4
  <2>2. i < Len(s) => i < Len(q) /\ EdgeOf(s, p, i + 1) = EdgeOf(q, p, i + 1)
    BY <1>2, <1>4, <1>5
  <2> QED BY <1>4, <2>1, <2>2 DEF Linked
<1>7. s # <<>> => 1 \in DOMAIN s /\ q # <<>> BY <1>2, <1>3
<1> QED BY <1>4, <1>5, <1>6, <1>7

LEMMA AppendAt ==
  ASSUME NEW q \in Seq(Messages), NEW m \in Messages
  PROVE  /\ Append(q, m) \in Seq(Messages) /\ Append(q, m) # <<>>
         /\ DOMAIN q = 1..Len(q) /\ Len(q) \in Nat
         /\ DOMAIN Append(q, m) = 1..(Len(q) + 1) /\ Len(Append(q, m)) = Len(q) + 1
         /\ \A i \in 1..Len(q) : Append(q, m)[i] = q[i]
         /\ Append(q, m)[Len(q) + 1] = m
         /\ q = <<>> <=> Len(q) = 0
OBVIOUS

\* A message that begins where q ends.
LEMMA LinkedAppend ==
  ASSUME NEW q \in Seq(Messages), NEW p \in Nat, NEW r \in Nat, NEW m \in Messages,
         Linked(q, p), Ends(q, p), AllData(q), p <= r,
         \/ m.type = "DATA" /\ m.after = p /\ Stop(m) = r /\ m.whole
         \/ m.type = "END" /\ r = p
  PROVE  /\ Linked(Append(q, m), r) /\ Ends(Append(q, m), r)
         /\ EdgeOf(Append(q, m), r, 1) = EdgeOf(q, p, 1)
<1> DEFINE a == Append(q, m)
           n == Len(q)
<1>1. /\ a \in Seq(Messages) /\ a # <<>> /\ DOMAIN q = 1..n /\ n \in Nat
      /\ DOMAIN a = 1..(n + 1) /\ Len(a) = n + 1
      /\ \A i \in 1..n : a[i] = q[i]
      /\ a[n + 1] = m /\ (q = <<>> <=> n = 0)
  BY AppendAt
<1> HIDE DEF a, n
<1>2. \A i \in 1..n : /\ q[i].type = "DATA" /\ a[i] = q[i] /\ i \in DOMAIN q
                      /\ Stop(q[i]) \in Nat
  <2>1. \A i \in 1..n : q[i] \in Messages BY <1>1
  <2> QED BY <1>1, <2>1, MessageFields DEF AllData
<1>3. \A i \in 1..n : EdgeOf(a, r, i) = q[i].after
  <2>1. \A i \in 1..n : ~(i > Len(a)) BY <1>1
  <2> QED BY <1>2, <2>1 DEF EdgeOf
<1>4. EdgeOf(a, r, n + 1) = p
  <2>1. ~(n + 1 > Len(a)) BY <1>1
  <2> QED BY <1>1, <2>1 DEF EdgeOf
<1>5. \A i \in 1..n : i < n => Stop(q[i]) = q[i + 1].after
  <2> SUFFICES ASSUME NEW i \in 1..n, i < n PROVE Stop(q[i]) = q[i + 1].after
    OBVIOUS
  <2>1. i + 1 \in 1..n /\ ~(i + 1 > Len(q)) BY <1>1 DEF n
  <2>2. EdgeOf(q, p, i + 1) = q[i + 1].after BY <1>2, <2>1 DEF EdgeOf
  <2>3. i < Len(q) BY DEF n
  <2> QED BY <1>2, <2>2, <2>3 DEF Linked
<1>6. \A i \in 1..n : i = n => Stop(q[i]) = p
  BY <1>1, <1>2 DEF Ends, n
<1>7. Linked(a, r)
  <2> SUFFICES ASSUME NEW i \in DOMAIN a
               PROVE  /\ a[i].type = "DATA" =>
                           /\ a[i].whole /\ Stop(a[i]) <= r
                           /\ i < Len(a) => Stop(a[i]) = EdgeOf(a, r, i + 1)
                      /\ a[i].type # "DATA" => i = Len(a)
    BY DEF Linked
  <2>1. CASE i = n + 1 BY <1>1, <2>1
  <2>2. CASE i \in 1..n
    <3>1. a[i].type = "DATA" /\ a[i] = q[i] /\ q[i].whole /\ Stop(q[i]) <= p
      BY <1>2, <2>2 DEF Linked
    <3>2. Stop(q[i]) <= r BY <1>2, <2>2, <3>1
    <3>3. CASE i = n BY <1>4, <1>6, <2>2, <3>1, <3>2, <3>3
    <3>4. CASE i < n
      <4>1. i + 1 \in 1..n BY <1>1, <2>2, <3>4
      <4> QED BY <1>3, <1>5, <2>2, <3>1, <3>2, <3>4, <4>1
    <3> QED BY <1>1, <2>2, <3>3, <3>4
  <2> QED BY <1>1, <2>1, <2>2
<1>8. Ends(a, r) BY <1>1 DEF Ends
<1>9. EdgeOf(a, r, 1) = EdgeOf(q, p, 1)
  <2>1. CASE n = 0
    <3>1. EdgeOf(q, p, 1) = p BY <1>1, <2>1, LinkedEmpty
    <3>2. 0 + 1 = 1 OBVIOUS
    <3> QED BY <1>4, <2>1, <3>1, <3>2
  <2>2. CASE n # 0
    <3>1. 1 \in 1..n /\ ~(1 > Len(q)) BY <1>1, <2>2 DEF n
    <3> QED BY <1>2, <1>3, <3>1 DEF EdgeOf
  <2> QED BY <2>1, <2>2
<1> QED BY <1>7, <1>8, <1>9 DEF a

\* Only the last message and an empty queue depend on how much was read.
LEMMA LinkedMore ==
  ASSUME NEW q \in Seq(Messages), NEW p \in Nat, NEW r \in Nat,
         Linked(q, p), AllData(q), p <= r
  PROVE  Linked(q, r) /\ (q # <<>> => EdgeOf(q, r, 1) = EdgeOf(q, p, 1))
<1>1. DOMAIN q = 1..Len(q) /\ Len(q) \in Nat /\ (q # <<>> => Len(q) >= 1) OBVIOUS
<1>2. \A i \in DOMAIN q : EdgeOf(q, r, i) = EdgeOf(q, p, i)
  <2>1. \A i \in DOMAIN q : ~(i > Len(q)) /\ q[i].type = "DATA" BY <1>1 DEF AllData
  <2> QED BY <2>1 DEF EdgeOf
<1>3. \A i \in DOMAIN q : i < Len(q) => i + 1 \in DOMAIN q BY <1>1
<1>4. \A i \in DOMAIN q : q[i].type = "DATA" /\ Stop(q[i]) \in Nat
  <2>1. \A i \in DOMAIN q : q[i] \in Messages BY <1>1
  <2> QED BY <2>1, MessageFields DEF AllData
<1>5. Linked(q, r)
  <2> SUFFICES ASSUME NEW i \in DOMAIN q
               PROVE  /\ q[i].whole /\ Stop(q[i]) <= r
                      /\ i < Len(q) => Stop(q[i]) = EdgeOf(q, r, i + 1)
    BY <1>4 DEF Linked
  <2>1. /\ q[i].whole /\ Stop(q[i]) <= p
        /\ i < Len(q) => Stop(q[i]) = EdgeOf(q, p, i + 1)
    BY <1>4 DEF Linked
  <2>2. Stop(q[i]) <= r BY <1>4, <2>1
  <2> QED BY <1>2, <1>3, <2>1, <2>2
<1>6. q # <<>> => 1 \in DOMAIN q BY <1>1
<1> QED BY <1>2, <1>5, <1>6

LEMMA PositionsJoin ==
  ASSUME NEW n \in Nat, NEW k \in Nat
  PROVE  /\ Positions(0, n) \o Positions(n, k) = Positions(0, n + k)
         /\ Len(Positions(n, k)) = k /\ Len(Positions(0, n + k)) = n + k
         /\ Positions(0, n) \in Seq(Nat) /\ Positions(n, k) \in Seq(Nat)
<1> DEFINE a == Positions(0, n)
           b == Positions(n, k)
           c == Positions(0, n + k)
<1>1. /\ a \in Seq(Nat) /\ Len(a) = n /\ \A i \in 1..n : a[i] = i
      /\ b \in Seq(Nat) /\ Len(b) = k /\ \A i \in 1..k : b[i] = n + i
      /\ c \in Seq(Nat) /\ Len(c) = n + k /\ \A i \in 1..(n + k) : c[i] = i
  BY DEF Positions
<1> HIDE DEF a, b, c
<1>2. /\ a \o b \in Seq(Nat) /\ Len(a \o b) = n + k
      /\ \A i \in 1..(n + k) : (a \o b)[i] = IF i <= n THEN a[i] ELSE b[i - n]
  BY <1>1
<1>3. \A i \in 1..(n + k) : (a \o b)[i] = c[i]
  <2> SUFFICES ASSUME NEW i \in 1..(n + k) PROVE (a \o b)[i] = c[i] OBVIOUS
  <2>1. CASE i <= n
    <3>1. i \in 1..n BY <2>1
    <3> QED BY <1>1, <1>2, <2>1, <3>1
  <2>2. CASE ~(i <= n)
    <3>1. i - n \in 1..k /\ n + (i - n) = i BY <2>2
    <3>2. (a \o b)[i] = b[i - n] BY <1>2, <2>2
    <3> QED BY <1>1, <3>1, <3>2
  <2> QED BY <2>1, <2>2
<1>4. a \o b = c BY <1>1, <1>2, <1>3
<1> QED BY <1>1, <1>4 DEF a, b, c
-----------------------------------------------------------------------------
(* What a step leaves alone. *)

LEMMA ExpectedBefore ==
  ASSUME NEW c \in Clients, Expected(c)', changes'[c] = changes[c],
         fsize'[c] = fsize[c], snd[c].short => snd'[c].short
  PROVE  Expected(c)
BY DEF Expected

LEMMA Undisturbed ==
  ASSUME NEW c \in Clients, Expected(c) => Faithful(c),
         fsize'[c] = fsize[c], changes'[c] = changes[c], snd'[c] = snd[c],
         rcv'[c] = rcv[c], toServer'[c] = toServer[c],
         conn'[c] = "up" => conn[c] = "up", srv' = "running" => srv = "running",
         Answered(toClient'[c]) => Answered(toClient[c])
  PROVE  Expected(c)' => Faithful(c)'
<1> SUFFICES ASSUME Expected(c)' PROVE Faithful(c)' OBVIOUS
<1>1. Expected(c) /\ Faithful(c) BY ExpectedBefore
<1>2. Wrote(c)' BY <1>1 DEF Faithful, Wrote
<1>3. Counts(c)' BY <1>1 DEF Faithful, Counts
<1>4. ServerUp' => Stage(c)'
  BY <1>1 DEF Faithful, ServerUp, Stage, Begun, Writing
<1>5. ServerUp' => Chain(c)' BY <1>1 DEF Faithful, ServerUp, Chain
<1>6. ServerUp' => Purpose(c)'
  BY <1>1 DEF Faithful, ServerUp, Purpose, Unasked, Finished
<1> QED BY <1>2, <1>3, <1>4, <1>5, <1>6 DEF Faithful

\* The server ends: what its sessions wrote stays as it is.
LEMMA ExitFaithful ==
  ASSUME EInv, NEW how \in {"exited", "aborted"}, NEW replies,
         ServerExit(how, replies), UNCHANGED <<fsize, changes, snd>>,
         \A c \in Clients : Expected(c) /\ Faithful(c) => Wrote(c)'
  PROVE  \A c \in Clients : Expected(c)' => Faithful(c)'
<1>1. srv' = how /\ ~ServerUp' BY DEF ServerExit, ServerUp
<1> SUFFICES ASSUME NEW c \in Clients, Expected(c)' PROVE Faithful(c)' OBVIOUS
<1>2. Expected(c) /\ Faithful(c) BY ExpectedBefore DEF EInv
<1>3. Wrote(c)' BY <1>2
<1>4. Counts(c)' BY <1>2 DEF Faithful, Counts
<1> QED BY <1>1, <1>3, <1>4 DEF Faithful

\* Messages to the server are lost, and the client may have ended.
LEMMA LossFaithful ==
  ASSUME EInv, NEW c \in Clients, Expected(c),
         fsize'[c] = fsize[c], changes'[c] = changes[c], rcv'[c] = rcv[c],
         srv' = srv, conn'[c] # "up",
         NEW s \in Prefixes(toServer[c]), toServer'[c] = s,
         snd'[c] = snd[c] \/ snd'[c] = [snd[c] EXCEPT !.pc = "exited"],
         Answered(toClient'[c]) => Answered(toClient[c])
  PROVE  Faithful(c)'
<1>1. Faithful(c) /\ IInv BY DEF EInv
<1>2. toServer[c] \in Seq(Messages) /\ snd[c] \in Senders
  BY <1>1 DEF IInv, ProcessesOK
<1>3. /\ snd[c].pos \in Nat /\ snd'[c].pos = snd[c].pos /\ snd'[c].sent = snd[c].sent
      /\ snd'[c].goal = snd[c].goal /\ snd'[c].status = snd[c].status
      /\ snd'[c].pc \in {snd[c].pc, "exited"}
  BY <1>2 DEF Senders
<1>4. Wrote(c)' BY <1>1 DEF Faithful, Wrote
<1>5. Counts(c)' BY <1>1, <1>3 DEF Faithful, Counts
<1>6. ASSUME ServerUp' PROVE Stage(c)' /\ Chain(c)' /\ Purpose(c)'
  <2>1. Stage(c) /\ Chain(c) /\ Purpose(c) BY <1>1, <1>6 DEF Faithful, ServerUp
  <2>2. /\ Linked(s, snd[c].pos)
        /\ s # <<>> => toServer[c] # <<>>
             /\ EdgeOf(s, snd[c].pos, 1) = EdgeOf(toServer[c], snd[c].pos, 1)
        /\ \A i \in DOMAIN s : i \in DOMAIN toServer[c] /\ s[i] = toServer[c][i]
    BY <1>2, <1>3, <2>1, LinkedPrefix DEF Chain
  <2>3. Needing(s) => Needing(toServer[c]) BY <2>2 DEF Needing
  <2>4. Stage(c)' BY <1>3, <2>1, <2>3 DEF Stage, Begun, Writing
  <2>5. Chain(c)' BY <1>3, <2>1, <2>2 DEF Chain
  <2>6. Purpose(c)' BY <1>3, <2>1, <2>2 DEF Purpose, Unasked, Finished
  <2> QED BY <2>4, <2>5, <2>6
<1> QED BY <1>4, <1>5, <1>6 DEF Faithful

LEMMA ClientExitFaithful ==
  ASSUME EInv, NEW c \in Clients, ClientExit(c), UNCHANGED <<fsize, changes, rcv, srv>>
  PROVE  \A d \in Clients : Expected(d)' => Faithful(d)'
<1>1. PICK s \in Prefixes(toServer[c]) : toServer' = [toServer EXCEPT ![c] = s]
  BY DEF ClientExit
<1>2. /\ snd' = [snd EXCEPT ![c].pc = "exited"]
      /\ conn' = [conn EXCEPT ![c] = "down"]
      /\ toClient' = [toClient EXCEPT ![c] = <<>>]
  BY DEF ClientExit
<1>3. /\ snd'[c] = [snd[c] EXCEPT !.pc = "exited"] /\ toServer'[c] = s
      /\ toClient'[c] = <<>> /\ conn'[c] = "down" /\ snd'[c].short = snd[c].short
      /\ \A d \in Clients \ {c} : /\ snd'[d] = snd[d] /\ toServer'[d] = toServer[d]
                                  /\ toClient'[d] = toClient[d] /\ conn'[d] = conn[d]
  BY <1>1, <1>2 DEF EInv, IInv, ProcessesOK, Senders
<1>4. ASSUME NEW d \in Clients \ {c} PROVE Expected(d)' => Faithful(d)'
  BY <1>3, Undisturbed DEF EInv
<1>5. ASSUME Expected(c)' PROVE Faithful(c)'
  <2>1. Expected(c) BY <1>3, <1>5, ExpectedBefore
  <2> QED BY <1>3, <2>1, EmptyQueue, LossFaithful
<1> QED BY <1>4, <1>5

LEMMA ResetFaithful ==
  ASSUME EInv, NEW c \in Clients, ConnReset(c)
  PROVE  \A d \in Clients : Expected(d)' => Faithful(d)'
<1>1. PICK s \in Prefixes(toServer[c]) : toServer' = [toServer EXCEPT ![c] = s]
  BY DEF ConnReset
<1>2. PICK t \in Prefixes(toClient[c]) : toClient' = [toClient EXCEPT ![c] = t]
  BY DEF ConnReset
<1>3. conn' = [conn EXCEPT ![c] = "down"] /\ UNCHANGED <<fsize, changes, snd, rcv, srv>>
  BY DEF ConnReset
<1>4. /\ toServer'[c] = s /\ toClient'[c] = t /\ conn'[c] = "down"
      /\ \A d \in Clients \ {c} : /\ toServer'[d] = toServer[d]
                                  /\ toClient'[d] = toClient[d] /\ conn'[d] = conn[d]
  BY <1>1, <1>2, <1>3 DEF EInv, IInv, ProcessesOK
<1>5. Answered(t) => Answered(toClient[c])
  <2>1. toClient[c] \in Seq(Messages) BY DEF EInv, IInv, ProcessesOK
  <2> QED BY <2>1, PrefixOf
<1>6. ASSUME NEW d \in Clients \ {c} PROVE Expected(d)' => Faithful(d)'
  BY <1>3, <1>4, Undisturbed DEF EInv
<1>7. ASSUME Expected(c)' PROVE Faithful(c)'
  <2>1. Expected(c) BY <1>3, <1>7, ExpectedBefore
  <2> QED BY <1>3, <1>4, <1>5, <2>1, LossFaithful
<1> QED BY <1>6, <1>7
-----------------------------------------------------------------------------
(* The client reads and sends. *)

LEMMA SmallRemainder == \A n \in Nat : n < Word => U32(n) = n
<1> SUFFICES ASSUME NEW n \in Nat, n < Word PROVE n % Word = n BY DEF U32
<1> QED BY BoundsAssumption

LEMMA StartFaithful ==
  ASSUME EInv, NEW c \in Clients, StartTransf(c)
  PROVE  \A d \in Clients : Expected(d)' => Faithful(d)'
<1> DEFINE f == U32(fsize[c])
<1>1. /\ snd[c].pc = "connect" /\ rcv' = [rcv EXCEPT ![c] = NewSession] /\ ServerUp
      /\ UNCHANGED <<fsize, changes, srv, toClient>>
      /\ toServer[c] = <<>> /\ toClient[c] = <<>> /\ snd[c] = NewSender
  BY DEF StartTransf, EInv, IInv, Fresh, Unstarted
<1>2. /\ snd'[c] = [NewSender EXCEPT !.pc = IF f = 0 THEN "exited" ELSE "poll",
                                     !.status = "CONNECTED"]
      /\ toServer'[c] = IF f = 0 THEN <<>> ELSE <<Req(f)>>
      /\ f = 0 => conn'[c] = "down"
      /\ rcv'[c] = NewSession
      /\ \A d \in Clients \ {c} : /\ snd'[d] = snd[d] /\ toServer'[d] = toServer[d]
                                  /\ rcv'[d] = rcv[d] /\ conn'[d] = conn[d]
  BY <1>1 DEF StartTransf, EInv, IInv, ProcessesOK
<1>3. ASSUME NEW d \in Clients \ {c} PROVE Expected(d)' => Faithful(d)'
  BY <1>1, <1>2, Undisturbed DEF EInv
<1>4. ASSUME Expected(c)' PROVE Faithful(c)'
  <2>1. fsize[c] \in Nat /\ fsize[c] < Word /\ fsize'[c] = fsize[c]
    BY <1>1, <1>4 DEF Expected, EInv, IInv, SizesKept
  <2>2. f = fsize[c] BY <2>1, SmallRemainder
  <2> HIDE DEF f
  <2>3. /\ snd'[c].pos = 0 /\ snd'[c].sent = 0
        /\ snd'[c].pc \notin {"loop", "failed"}
        /\ rcv'[c].content = <<>> /\ ~rcv'[c].done /\ rcv'[c].synced
        /\ rcv'[c].status = "INIT" /\ rcv'[c].file = "garbage" /\ rcv'[c].written = 0
    BY <1>2 DEF NewSender, NewSession
  <2>4. Len(<<>>) = 0 /\ Positions(0, 0) = <<>> BY DEF Positions
  <2>5. Wrote(c)' BY <2>1, <2>3, <2>4 DEF Wrote
  <2>6. Counts(c)' BY <2>1, <2>3 DEF Counts
  <2>7. ~Needing(toServer'[c])
    <3>1. Req(f).type = "REQ" BY DEF Req
    <3> QED BY <1>2, <3>1, EmptyQueue DEF Needing
  <2>8. Stage(c)' BY <1>1, <2>3, <2>7, EmptyQueue DEF Stage, Begun
  <2>9. Chain(c)' /\ Purpose(c)'
    <3>1. CASE f = 0
      <4>1. toServer'[c] = <<>> /\ conn'[c] # "up" BY <1>2, <3>1
      <4> QED BY <2>3, <4>1, LinkedEmpty DEF Chain, Purpose
    <3>2. CASE f # 0
      <4> DEFINE m == Req(f)
                 q == <<m>>
      <4>1. m.type = "REQ" /\ m.size = f BY DEF Req
      <4>2. toServer'[c] = q BY <1>2, <3>2
      <4> HIDE DEF m
      <4>3. DOMAIN q = {1} /\ q[1] = m /\ Len(q) = 1 /\ q # <<>> OBVIOUS
      <4> HIDE DEF q
      <4>4. Linked(q, 0) /\ Ends(q, 0) /\ EdgeOf(q, 0, 1) = 0
        BY <4>1, <4>3 DEF Linked, Ends, EdgeOf
      <4>5. Chain(c)' BY <2>3, <2>4, <4>2, <4>4 DEF Chain
      <4>6. Purpose(c)' BY <2>1, <2>2, <2>3, <4>1, <4>2, <4>3 DEF Purpose, Unasked
      <4> QED BY <4>5, <4>6
    <3> QED BY <3>1, <3>2
  <2> QED BY <2>5, <2>6, <2>8, <2>9 DEF Faithful
<1> QED BY <1>3, <1>4

\* While the client reads and sends, only DATA is under way.
LEMMA OnlyData ==
  ASSUME EInv, NEW c \in Clients, Expected(c), ServerUp, snd[c].pc \in {"loop", "failed"}
  PROVE  AllData(toServer[c])
<1>1. Faithful(c) /\ Stage(c) /\ Purpose(c) /\ Begun(c)
  BY DEF EInv, Faithful, Begun
<1>2. ~Unasked(c) /\ ~Finished(c) BY <1>1 DEF Stage, Unasked, Finished, Writing
<1> QED BY <1>1, <1>2 DEF Purpose, AllData

\* The client goes on to q, r having been read and sent; the session is as before.
LEMMA SendFaithful ==
  ASSUME EInv, NEW c \in Clients, Expected(c), snd[c].pc \in {"loop", "failed"},
         NEW s \in Senders, snd'[c] = s, s.pos \in Nat, snd[c].pos <= s.pos,
         s.pos <= fsize[c], s.sent = s.pos,
         s.pc \in {"loop", "failed"} => s.goal = snd[c].goal /\ s.status = "SENDING",
         \/ toServer'[c] = toServer[c] /\ (s.pos = snd[c].pos \/ conn[c] # "up")
         \/ \E m \in Messages :
              /\ toServer'[c] = Append(toServer[c], m)
              /\ \/ m.type = "DATA" /\ m.after = snd[c].pos /\ Stop(m) = s.pos /\ m.whole
                 \/ /\ m.type = "END" /\ s.pos = snd[c].pos /\ Finished(c)'
                    /\ m.code = "SUCCESS" => s.pos = fsize[c],
         fsize'[c] = fsize[c], rcv'[c] = rcv[c], conn'[c] = conn[c],
         conn[c] = "up" \/ toServer'[c] = toServer[c],
         srv' = srv, toClient'[c] = toClient[c]
  PROVE  Faithful(c)'
<1> DEFINE q == toServer[c]
           p == snd[c].pos
<1>1. Faithful(c) /\ IInv BY DEF EInv
<1>2. q \in Seq(Messages) /\ p \in Nat BY <1>1 DEF IInv, ProcessesOK, Senders
<1>3. Wrote(c)' BY <1>1 DEF Faithful, Wrote
<1>4. Counts(c)' BY <1>1 DEF Faithful, Counts
<1>5. ASSUME ServerUp' PROVE Stage(c)' /\ Chain(c)' /\ Purpose(c)'
  <2>1. ServerUp /\ Stage(c) /\ Chain(c) /\ Purpose(c) /\ AllData(q)
    BY <1>1, <1>5, OnlyData DEF Faithful, ServerUp
  <2>2. Begun(c) BY DEF Begun
  <2>3. Stage(c)' BY <2>1, <2>2 DEF Stage, Writing
  <2>4. Linked(q, p) /\ (conn[c] = "up" => Ends(q, p))
        /\ (q # <<>> \/ conn[c] = "up" => EdgeOf(q, p, 1) = Len(rcv[c].content))
    BY <2>1 DEF Chain
  <2>5. CASE toServer'[c] = q /\ (s.pos = p \/ conn[c] # "up")
    <3> HIDE DEF q, p
    <3>1. Linked(q, s.pos) /\ (q # <<>> => EdgeOf(q, s.pos, 1) = EdgeOf(q, p, 1))
      BY <1>2, <2>1, <2>4, LinkedMore DEF p
    <3>2. Chain(c)' BY <2>4, <2>5, <3>1 DEF Chain
    <3>3. Purpose(c)' BY <2>1, <2>5 DEF Purpose, AllData
    <3> QED BY <2>3, <3>2, <3>3
  <2>6. ASSUME NEW m \in Messages, toServer'[c] = Append(q, m),
               \/ m.type = "DATA" /\ m.after = p /\ Stop(m) = s.pos /\ m.whole
               \/ /\ m.type = "END" /\ s.pos = p /\ Finished(c)'
                  /\ m.code = "SUCCESS" => s.pos = fsize[c]
        PROVE  Chain(c)' /\ Purpose(c)'
    <3>1. conn[c] = "up"
      <4>1. Append(q, m) # q
        <5>1. Len(Append(q, m)) = Len(q) + 1 /\ Len(q) \in Nat BY <1>2, AppendAt
        <5> QED BY <5>1
      <4> QED BY <2>6, <4>1
    <3> HIDE DEF q, p
    <3>2. /\ Linked(Append(q, m), s.pos) /\ Ends(Append(q, m), s.pos)
          /\ EdgeOf(Append(q, m), s.pos, 1) = EdgeOf(q, p, 1)
      <4>1. p <= s.pos BY DEF p
      <4> QED BY <1>2, <2>1, <2>4, <2>6, <3>1, <4>1, LinkedAppend
    <3>3. Chain(c)' BY <2>4, <2>6, <3>1, <3>2 DEF Chain
    <3>4. \A i \in DOMAIN Append(q, m) :
            Append(q, m)[i] = m \/ (Append(q, m)[i].type = "DATA")
      <4>1. /\ DOMAIN Append(q, m) = 1..(Len(q) + 1) /\ DOMAIN q = 1..Len(q)
            /\ \A i \in 1..Len(q) : Append(q, m)[i] = q[i]
            /\ Append(q, m)[Len(q) + 1] = m /\ Len(q) \in Nat
        BY <1>2, AppendAt
      <4>2. \A i \in 1..(Len(q) + 1) : i \in 1..Len(q) \/ i = Len(q) + 1 BY <4>1
      <4> QED BY <2>1, <4>1, <4>2 DEF AllData
    <3>5. Purpose(c)' BY <2>6, <3>4 DEF Purpose
    <3> QED BY <3>3, <3>5
  <2>7. Chain(c)' /\ Purpose(c)'
    BY <2>5, <2>6
  <2> QED BY <2>3, <2>7
<1> QED BY <1>3, <1>4, <1>5 DEF Faithful

\* What one turn of the loop reads.
LEMMA ChunkReads ==
  ASSUME EInv, NEW c \in Clients, Expected(c), snd[c].pc = "loop",
         NEW n, n = Least(Chunk, fsize[c] - snd[c].pos), n > 0
  PROVE  /\ n \in 1..Chunk /\ snd[c].pos \in Nat /\ snd[c].pos + n <= fsize[c]
         /\ U32(snd[c].sent + n) = snd[c].pos + n /\ snd[c].pos + n \in Nat
         /\ snd[c].goal = fsize[c] /\ snd[c].status = "SENDING"
         /\ snd[c].sent = snd[c].pos
<1>1. /\ Faithful(c) /\ snd[c] \in Senders /\ fsize[c] \in Nat /\ fsize[c] < Word
      /\ Chunk \in Nat
  BY BoundsAssumption DEF EInv, IInv, ProcessesOK, SizesKept, Expected
<1>2. snd[c].pos \in Nat /\ snd[c].sent = snd[c].pos
  BY <1>1 DEF Faithful, Counts, Senders
<1>3. n \in 1..Chunk /\ snd[c].pos + n <= fsize[c] /\ snd[c].pos + n \in Nat
  BY <1>1, <1>2 DEF Least
<1>4. snd[c].pos + n < Word BY <1>1, <1>2, <1>3, BoundsAssumption
<1>5. U32(snd[c].pos + n) = snd[c].pos + n BY <1>3, <1>4, SmallRemainder
<1> QED BY <1>1, <1>2, <1>3, <1>5 DEF Faithful, Counts

LEMMA ChunkFaithful ==
  ASSUME EInv, NEW c \in Clients, SendChunk(c)
  PROVE  \A d \in Clients : Expected(d)' => Faithful(d)'
<1> DEFINE n == Least(Chunk, fsize[c] - snd[c].pos)
<1>1. /\ snd[c].pc = "loop" /\ n > 0
      /\ UNCHANGED <<fsize, changes, rcv, srv, conn, toClient>>
      /\ snd \in [Clients -> Senders] /\ snd[c] \in Senders
      /\ toServer \in [Clients -> Seq(Messages)]
  BY DEF SendChunk, EInv, IInv, ProcessesOK
<1>2. \/ /\ Took(c, Data(snd[c].pos, n, TRUE))
         /\ snd' = [snd EXCEPT ![c].pos = @ + n, ![c].sent = U32(@ + n)]
      \/ /\ snd' = [snd EXCEPT ![c].pos = @ + n, ![c].sent = U32(@ + n),
                               ![c].short = TRUE]
         /\ Took(c, Data(snd[c].pos, n, FALSE))
      \/ /\ snd' = [snd EXCEPT ![c].pc = "failed"]
         /\ UNCHANGED toServer
  BY DEF SendChunk
<1>3. \A d \in Clients \ {c} : snd'[d] = snd[d] /\ toServer'[d] = toServer[d]
  BY <1>1, <1>2 DEF Took
<1>4. ASSUME NEW d \in Clients \ {c} PROVE Expected(d)' => Faithful(d)'
  BY <1>1, <1>3, Undisturbed DEF EInv
<1>5. ASSUME Expected(c)' PROVE Faithful(c)'
  <2>1. snd'[c].short => FALSE BY <1>5 DEF Expected
  <2>2. \/ /\ Took(c, Data(snd[c].pos, n, TRUE))
           /\ snd'[c] = [snd[c] EXCEPT !.pos = @ + n, !.sent = U32(@ + n)]
        \/ /\ snd'[c] = [snd[c] EXCEPT !.pc = "failed"]
           /\ UNCHANGED toServer
    <3>1. CASE /\ Took(c, Data(snd[c].pos, n, TRUE))
               /\ snd' = [snd EXCEPT ![c].pos = @ + n, ![c].sent = U32(@ + n)]
      <4> HIDE DEF n
      <4> QED BY <1>1, <3>1
    <3>2. CASE snd' = [snd EXCEPT ![c].pos = @ + n, ![c].sent = U32(@ + n),
                                  ![c].short = TRUE]
      <4> HIDE DEF n
      <4>1. snd'[c] = [snd[c] EXCEPT !.pos = @ + n, !.sent = U32(@ + n),
                                     !.short = TRUE]
        BY <1>1, <3>2
      <4>2. snd'[c].short = TRUE BY <1>1, <4>1 DEF Senders
      <4> QED BY <2>1, <4>2
    <3>3. CASE snd' = [snd EXCEPT ![c].pc = "failed"] /\ UNCHANGED toServer
      BY <1>1, <3>3
    <3> QED BY <1>2, <3>1, <3>2, <3>3
  <2>3. snd'[c].short = snd[c].short BY <1>1, <2>2 DEF Senders
  <2>4. Expected(c) BY <1>1, <1>5, <2>3, ExpectedBefore
  <2>5. /\ n \in 1..Chunk /\ snd[c].pos \in Nat /\ snd[c].pos + n <= fsize[c]
        /\ U32(snd[c].sent + n) = snd[c].pos + n /\ snd[c].pos + n \in Nat
        /\ snd[c].goal = fsize[c] /\ snd[c].status = "SENDING"
        /\ snd[c].sent = snd[c].pos
    BY <1>1, <2>4, ChunkReads
  <2> HIDE DEF n
  <2>6. CASE /\ Took(c, Data(snd[c].pos, n, TRUE))
             /\ snd'[c] = [snd[c] EXCEPT !.pos = @ + n, !.sent = U32(@ + n)]
    <3> DEFINE s == [snd[c] EXCEPT !.pos = @ + n, !.sent = U32(@ + n)]
               m == Data(snd[c].pos, n, TRUE)
    <3>1. /\ s.pos = snd[c].pos + n /\ s.sent = snd[c].pos + n /\ s.pc = "loop"
          /\ s.goal = fsize[c] /\ s.status = "SENDING"
      BY <1>1, <2>5 DEF Senders
    <3>2. s \in Senders
      <4>1. IInv' BY ChunkStep DEF EInv
      <4> QED BY <2>6, <4>1 DEF IInv, ProcessesOK
    <3>3. m \in Messages /\ m.type = "DATA" /\ m.after = snd[c].pos
          /\ Stop(m) = snd[c].pos + n /\ m.whole
      BY <2>5 DEF Data, Messages, Stop
    <3>4. \/ conn[c] = "up" /\ toServer'[c] = Append(toServer[c], m)
          \/ conn[c] # "up" /\ toServer'[c] = toServer[c]
      BY <1>1, <2>6 DEF Took
    <3>5. snd'[c] = s BY <2>6
    <3> HIDE DEF s, m
    <3>6. snd[c].pos <= s.pos
      <4>1. \A x \in Nat : x <= x + n BY <2>5, BoundsAssumption
      <4> QED BY <2>5, <3>1, <4>1
    <3>7. /\ s.pos \in Nat /\ s.pos <= fsize[c] /\ s.sent = s.pos /\ Stop(m) = s.pos
          /\ s.goal = snd[c].goal
      BY <2>5, <3>1, <3>3
    <3> QED BY <1>1, <2>4, <3>1, <3>2, <3>3, <3>4, <3>5, <3>6, <3>7, SendFaithful
  <2>7. CASE snd'[c] = [snd[c] EXCEPT !.pc = "failed"] /\ UNCHANGED toServer
    <3> DEFINE s == [snd[c] EXCEPT !.pc = "failed"]
    <3>1. /\ s.pos = snd[c].pos /\ s.sent = s.pos /\ s.goal = snd[c].goal
          /\ s.status = "SENDING" /\ s \in Senders
      BY <1>1, <2>5, SenderFields DEF Senders
    <3>2. snd'[c] = s BY <2>7
    <3> HIDE DEF s
    <3>3. s.pos \in Nat /\ snd[c].pos <= s.pos /\ s.pos <= fsize[c]
      BY <2>4, <2>5, <3>1 DEF EInv, Faithful, Counts
    <3> QED BY <1>1, <2>4, <2>7, <3>1, <3>2, <3>3, SendFaithful
  <2> QED BY <2>2, <2>6, <2>7
<1> QED BY <1>4, <1>5

LEMMA LocalEndFaithful ==
  ASSUME EInv, NEW c \in Clients, LocalTransEnd(c)
  PROVE  \A d \in Clients : Expected(d)' => Faithful(d)'
<1> DEFINE over == snd[c].sent = snd[c].goal
           how == IF over THEN "SEND_OVER" ELSE "SEND_FAIL"
           x == IF over THEN "SUCCESS" ELSE "ERROR"
<1>1. /\ snd[c].pc \in {"loop", "failed"}
      /\ UNCHANGED <<fsize, changes, rcv, srv, conn, toClient>>
      /\ snd \in [Clients -> Senders] /\ snd[c] \in Senders
      /\ toServer \in [Clients -> Seq(Messages)]
  BY DEF LocalTransEnd, EInv, IInv, ProcessesOK
<1>2. PICK told \in BOOLEAN :
        /\ snd' = [snd EXCEPT ![c].pc = "poll", ![c].told = told, ![c].status = how]
        /\ Took(c, End(x)) \/ UNCHANGED toServer
  BY DEF LocalTransEnd
<1>3. /\ snd'[c] = [snd[c] EXCEPT !.pc = "poll", !.told = told, !.status = how]
      /\ \A d \in Clients \ {c} : snd'[d] = snd[d] /\ toServer'[d] = toServer[d]
  BY <1>1, <1>2 DEF Took
<1> DEFINE s == [snd[c] EXCEPT !.pc = "poll", !.told = told, !.status = how]
           m == End(x)
<1>4. /\ s \in Senders /\ s.pc = "poll" /\ s.pos = snd[c].pos /\ s.sent = snd[c].sent
      /\ s.status \in {"SEND_OVER", "SEND_FAIL"} /\ s.short = snd[c].short
      /\ s.pos \in Nat
  BY <1>1, <1>2 DEF Senders
<1>5. m \in Messages /\ m.type = "END" /\ (m.code = "SUCCESS" => over)
  BY DEF Messages, End, Codes
<1>6. \/ conn[c] = "up" /\ toServer'[c] = Append(toServer[c], m)
      \/ toServer'[c] = toServer[c]
  BY <1>1, <1>2 DEF Took
<1>7. snd'[c] = s BY <1>3
<1>8. ASSUME NEW d \in Clients \ {c} PROVE Expected(d)' => Faithful(d)'
  BY <1>1, <1>3, Undisturbed DEF EInv
<1> HIDE DEF s, m, how, x
<1>9. ASSUME Expected(c)' PROVE Faithful(c)'
  <2>1. Expected(c) BY <1>1, <1>4, <1>7, <1>9, ExpectedBefore
  <2>2. Counts(c) /\ fsize[c] \in Nat
    BY <2>1 DEF EInv, Faithful, IInv, SizesKept
  <2>3. s.pos <= fsize[c] /\ s.sent = s.pos /\ snd[c].pos <= s.pos
        /\ (over => s.pos = fsize[c])
    BY <1>1, <1>4, <2>2 DEF Counts
  <2>4. Finished(c)' BY <1>4, <1>7 DEF Finished
  <2> HIDE DEF over
  <2> QED BY <1>1, <1>4, <1>5, <1>6, <1>7, <2>1, <2>3, <2>4, SendFaithful
<1> QED BY <1>8, <1>9

\* The client takes a message of the server; goal is what stat says now.
LEMMA DispatchFaithful ==
  ASSUME EInv, NEW c \in Clients, Dispatching(c, "RSP") \/ Dispatching(c, "END"),
         Dispatched(c),
         \/ UNCHANGED snd
         \/ /\ Dispatching(c, "RSP") /\ Head(toClient[c]).code # "ERROR"
            /\ snd[c].status = "CONNECTED"
            /\ snd' = [snd EXCEPT ![c].pc = "loop", ![c].status = "SENDING",
                                  ![c].goal = U32(fsize[c])],
         UNCHANGED <<fsize, changes, rcv, srv, conn, toServer>>
  PROVE  \A d \in Clients : Expected(d)' => Faithful(d)'
<1>1. /\ snd[c] \in Senders /\ toClient[c] \in Seq(Messages) /\ toClient[c] # <<>>
      /\ snd[c].pc = "poll" /\ snd \in [Clients -> Senders]
      /\ toClient \in [Clients -> Seq(Messages)]
  BY DEF EInv, IInv, ProcessesOK, Dispatching
<1>2. /\ toClient'[c] = Tail(toClient[c])
      /\ \A d \in Clients \ {c} : toClient'[d] = toClient[d] /\ snd'[d] = snd[d]
  BY <1>1 DEF Dispatched
<1>3. /\ Answered(Tail(toClient[c])) => Answered(toClient[c])
      /\ Head(toClient[c]).type = "RSP" /\ Head(toClient[c]).code # "ERROR" =>
           Answered(toClient[c])
  BY <1>1, TailOf
<1>4. ASSUME NEW d \in Clients \ {c} PROVE Expected(d)' => Faithful(d)'
  BY <1>2, Undisturbed DEF EInv
<1>5. CASE UNCHANGED snd
  <2>1. Expected(c)' => Faithful(c)' BY <1>2, <1>3, <1>5, Undisturbed DEF EInv
  <2> QED BY <1>4, <2>1
<1>6. CASE /\ Dispatching(c, "RSP") /\ Head(toClient[c]).code # "ERROR"
           /\ snd[c].status = "CONNECTED"
           /\ snd' = [snd EXCEPT ![c].pc = "loop", ![c].status = "SENDING",
                                 ![c].goal = U32(fsize[c])]
  <2> DEFINE f == U32(fsize[c])
  <2>1. snd'[c] = [snd[c] EXCEPT !.pc = "loop", !.status = "SENDING", !.goal = f]
    BY <1>1, <1>6
  <2>2. Answered(toClient[c]) BY <1>3, <1>6 DEF Dispatching
  <2>3. ASSUME Expected(c)' PROVE Faithful(c)'
    <3> HIDE DEF f
    <3>1. /\ snd'[c].pos = snd[c].pos /\ snd'[c].sent = snd[c].sent
          /\ snd'[c].short = snd[c].short /\ snd'[c].goal = f
          /\ snd'[c].pc = "loop" /\ snd'[c].status = "SENDING"
      BY <1>1, <2>1 DEF Senders
    <3>2. Expected(c) /\ Faithful(c) BY <2>3, <3>1, ExpectedBefore DEF EInv
    <3>3. f = fsize[c]
      BY <3>2, SmallRemainder DEF EInv, IInv, SizesKept, Expected, f
    <3>4. Wrote(c)' BY <3>2 DEF Faithful, Wrote
    <3>5. Counts(c)' BY <3>1, <3>2, <3>3 DEF Faithful, Counts
    <3>6. ASSUME ServerUp' PROVE Stage(c)' /\ Chain(c)' /\ Purpose(c)'
      <4>1. ServerUp /\ Stage(c) /\ Chain(c) /\ Purpose(c) /\ Begun(c)
        BY <2>2, <3>2, <3>6 DEF Faithful, ServerUp, Begun
      <4>2. ~Finished(c) BY <1>6 DEF Finished
      <4>3. Stage(c)' BY <4>1 DEF Stage, Writing
      <4>4. Chain(c)' BY <3>1, <4>1 DEF Chain
      <4>5. Purpose(c)' BY <3>1, <4>1, <4>2 DEF Purpose, Unasked
      <4> QED BY <4>3, <4>4, <4>5
    <3> QED BY <3>4, <3>5, <3>6 DEF Faithful
  <2> QED BY <1>4, <2>3
<1> QED BY <1>5, <1>6

LEMMA RspFaithful ==
  ASSUME EInv, NEW c \in Clients, ProcTranRsp(c) \/ ProcTranEndC(c)
  PROVE  \A d \in Clients : Expected(d)' => Faithful(d)'
<1>1. UNCHANGED <<fsize, changes, rcv, srv>>
      /\ (Dispatching(c, "RSP") \/ Dispatching(c, "END"))
  BY DEF ProcTranRsp, ProcTranEndC
<1>2. \/ ClientExit(c)
      \/ UNCHANGED <<snd, conn, toServer>> /\ Dispatched(c)
      \/ /\ Dispatching(c, "RSP") /\ Head(toClient[c]).code # "ERROR"
         /\ snd[c].status = "CONNECTED"
         /\ snd' = [snd EXCEPT ![c].pc = "loop", ![c].status = "SENDING",
                               ![c].goal = U32(fsize[c])]
         /\ UNCHANGED <<conn, toServer>> /\ Dispatched(c)
  BY DEF ProcTranRsp, ProcTranEndC
<1>3. CASE ClientExit(c) BY <1>1, <1>3, ClientExitFaithful
<1> QED BY <1>1, <1>2, <1>3, DispatchFaithful

LEMMA ClientErrFaithful ==
  ASSUME EInv, NEW c \in Clients, ClientErr(c)
  PROVE  \A d \in Clients : Expected(d)' => Faithful(d)'
<1>1. /\ snd' = [snd EXCEPT ![c].deaf = TRUE] /\ snd[c] \in Senders
      /\ UNCHANGED <<fsize, changes, rcv, srv, conn, toServer, toClient>>
      /\ snd \in [Clients -> Senders]
  BY DEF ClientErr, EInv, IInv, ProcessesOK
<1>2. /\ snd'[c] = [snd[c] EXCEPT !.deaf = TRUE]
      /\ \A d \in Clients \ {c} : snd'[d] = snd[d]
  BY <1>1
<1>3. ASSUME NEW d \in Clients \ {c} PROVE Expected(d)' => Faithful(d)'
  BY <1>1, <1>2, Undisturbed DEF EInv
<1>4. /\ snd'[c].pos = snd[c].pos /\ snd'[c].sent = snd[c].sent
      /\ snd'[c].short = snd[c].short /\ snd'[c].goal = snd[c].goal
      /\ snd'[c].pc = snd[c].pc /\ snd'[c].status = snd[c].status
  BY <1>1, <1>2 DEF Senders
<1>5. ASSUME Expected(c)' PROVE Faithful(c)'
  <2>1. Expected(c) /\ Faithful(c) BY <1>1, <1>4, <1>5, ExpectedBefore DEF EInv
  <2>2. Wrote(c)' /\ Counts(c)' BY <1>1, <1>4, <2>1 DEF Faithful, Wrote, Counts
  <2>3. ServerUp' => Stage(c)'
    BY <1>1, <1>4, <2>1 DEF Faithful, ServerUp, Stage, Begun, Writing
  <2>4. ServerUp' => Chain(c)' BY <1>1, <1>4, <2>1 DEF Faithful, ServerUp, Chain
  <2>5. ServerUp' => Purpose(c)'
    BY <1>1, <1>4, <2>1 DEF Faithful, ServerUp, Purpose, Unasked, Finished
  <2> QED BY <2>2, <2>3, <2>4, <2>5 DEF Faithful
<1> QED BY <1>3, <1>5

-----------------------------------------------------------------------------
(* The session writes. *)

\* The session takes the head of its queue; r is what it becomes.
LEMMA TakeFaithful ==
  ASSUME EInv, ServerUp, NEW c \in Clients, toServer[c] # <<>>,
         NEW r, rcv' = [rcv EXCEPT ![c] = r], Consumed(c),
         UNCHANGED <<fsize, changes, snd, srv, conn>>,
         \A d \in Clients \ {c} : toClient'[d] = toClient[d],
         Expected(c) /\ Faithful(c) =>
           /\ Wrote(c)' /\ Stage(c)'
           /\ \/ EdgeOf(toServer'[c], snd[c].pos, 1) = Len(r.content)
              \/ toServer'[c] = <<>> /\ conn[c] # "up"
           /\ \A i \in DOMAIN toServer'[c] : toServer'[c][i].type \in {"DATA", "END"}
  PROVE  \A d \in Clients : Expected(d)' => Faithful(d)'
<1>1. /\ toServer \in [Clients -> Seq(Messages)] /\ toServer[c] \in Seq(Messages)
      /\ rcv \in [Clients -> Sessions] /\ snd[c] \in Senders
  BY DEF EInv, IInv, ProcessesOK
<1>2. /\ toServer'[c] = Tail(toServer[c]) /\ rcv'[c] = r
      /\ \A d \in Clients \ {c} : toServer'[d] = toServer[d] /\ rcv'[d] = rcv[d]
  BY <1>1 DEF Consumed
<1>3. ASSUME NEW d \in Clients \ {c} PROVE Expected(d)' => Faithful(d)'
  BY <1>2, Undisturbed DEF EInv
<1>4. ASSUME Expected(c)' PROVE Faithful(c)'
  <2>1. Expected(c) /\ Faithful(c) BY <1>4, ExpectedBefore DEF EInv
  <2>2. Wrote(c)' /\ Stage(c)' BY <2>1
  <2>3. Counts(c)' BY <2>1 DEF Faithful, Counts
  <2>4. Chain(c) /\ Purpose(c) /\ snd[c].pos \in Nat
    BY <1>1, <2>1 DEF Faithful, Senders
  <2>5. /\ Linked(Tail(toServer[c]), snd[c].pos)
        /\ Ends(toServer[c], snd[c].pos) => Ends(Tail(toServer[c]), snd[c].pos)
    BY <1>1, <2>4, LinkedTail DEF Chain
  <2>6. Chain(c)' BY <1>2, <2>1, <2>4, <2>5 DEF Chain
  <2>7. Purpose(c)'
    <3>1. \A i \in DOMAIN Tail(toServer[c]) :
            \E j \in DOMAIN toServer[c] : Tail(toServer[c])[i] = toServer[c][j]
      <4>1. \A i \in DOMAIN Tail(toServer[c]) :
              i + 1 \in DOMAIN toServer[c] /\ Tail(toServer[c])[i] = toServer[c][i + 1]
        BY <1>1
      <4> QED BY <4>1
    <3>2. \A i \in DOMAIN toServer'[c] : toServer'[c][i].type \in {"DATA", "END"}
      BY <2>1
    <3> QED BY <1>2, <2>4, <3>1, <3>2 DEF Purpose, Finished
  <2> QED BY <2>2, <2>3, <2>6, <2>7 DEF Faithful
<1> QED BY <1>3, <1>4

LEMMA ExitKeepsFaithful ==
  ASSUME EInv, NEW c \in Clients, NEW r, rcv' = [rcv EXCEPT ![c] = r],
         NEW how \in {"exited", "aborted"}, NEW replies, ServerExit(how, replies),
         UNCHANGED <<fsize, changes, snd>>,
         Expected(c) /\ Faithful(c) => Wrote(c)'
  PROVE  \A d \in Clients : Expected(d)' => Faithful(d)'
<1>1. \A d \in Clients \ {c} : rcv'[d] = rcv[d] BY DEF EInv, IInv, ProcessesOK
<1>2. \A d \in Clients : Expected(d) /\ Faithful(d) => Wrote(d)'
  BY <1>1 DEF Faithful, Wrote
<1> QED BY <1>2, ExitFaithful

LEMMA ReplyFaithful ==
  ASSUME EInv, ServerUp, NEW c \in Clients, toServer[c] # <<>>,
         NEW r, NEW m, ReplyAndGoOn(c, m, r), UNCHANGED <<fsize, changes, snd>>,
         Expected(c) /\ Faithful(c) =>
           /\ Wrote(c)' /\ r.synced /\ (Writing(c)' \/ r.done)
           /\ \/ EdgeOf(Tail(toServer[c]), snd[c].pos, 1) = Len(r.content)
              \/ Tail(toServer[c]) = <<>> /\ conn[c] # "up"
           /\ \A i \in DOMAIN Tail(toServer[c]) :
                Tail(toServer[c])[i].type \in {"DATA", "END"}
  PROVE  \A d \in Clients : Expected(d)' => Faithful(d)'
<1>0. rcv' = [rcv EXCEPT ![c] = r] /\ rcv'[c] = r
  BY DEF ReplyAndGoOn, EInv, IInv, ProcessesOK
<1>1. CASE toClient' = Replied(c, m) /\ Consumed(c) /\ UNCHANGED <<srv, conn>>
  <2>1. \A d \in Clients \ {c} : toClient'[d] = toClient[d]
    BY <1>1 DEF Replied, EInv, IInv, ProcessesOK
  <2>2. toServer'[c] = Tail(toServer[c])
    BY <1>1 DEF Consumed, EInv, IInv, ProcessesOK
  <2>3. Expected(c) /\ Faithful(c) =>
           /\ Wrote(c)' /\ Stage(c)'
           /\ \/ EdgeOf(toServer'[c], snd[c].pos, 1) = Len(r.content)
              \/ toServer'[c] = <<>> /\ conn[c] # "up"
           /\ \A i \in DOMAIN toServer'[c] : toServer'[c][i].type \in {"DATA", "END"}
    BY <1>0, <2>2 DEF Stage
  <2> QED BY <1>0, <1>1, <2>1, <2>3, TakeFaithful
<1>2. CASE ServerExit("exited", toClient)
  BY <1>0, <1>2, ExitKeepsFaithful
<1> QED BY <1>1, <1>2 DEF ReplyAndGoOn

\* The first message under way, as Chain and Purpose have it.
LEMMA FirstMessage ==
  ASSUME EInv, NEW c \in Clients, Expected(c), ServerUp, toServer[c] # <<>>
  PROVE  LET m == Head(toServer[c]) IN
         /\ m \in Messages /\ m.type \in {"REQ", "DATA", "END"}
         /\ m.type = "REQ" => Unasked(c) /\ m.size = fsize[c] /\ snd[c].pos = 0
         /\ m.type = "END" => /\ snd[c].pos = Len(rcv[c].content)
                              /\ m.code = "SUCCESS" => snd[c].pos = fsize[c]
         /\ m.type # "DATA" => Tail(toServer[c]) = <<>>
         /\ m.type = "DATA" =>
              /\ m.whole /\ m.after = Len(rcv[c].content) /\ Stop(m) <= fsize[c]
              /\ \/ EdgeOf(Tail(toServer[c]), snd[c].pos, 1) = Stop(m)
                 \/ Tail(toServer[c]) = <<>> /\ conn[c] # "up"
         /\ m.type \in {"DATA", "END"} =>
              Writing(c) \/ rcv[c].done \/ rcv[c].status = "GONE"
         /\ \A i \in DOMAIN Tail(toServer[c]) :
              Tail(toServer[c])[i].type \in {"DATA", "END"}
<1> DEFINE q == toServer[c]
           p == snd[c].pos
           m == Head(q)
<1>1. /\ Faithful(c) /\ Stage(c) /\ Chain(c) /\ Purpose(c) /\ Counts(c)
      /\ q \in Seq(Messages) /\ snd[c] \in Senders /\ fsize[c] \in Nat
  BY DEF EInv, Faithful, IInv, ProcessesOK, SizesKept
<1>2. p \in Nat /\ p <= fsize[c] BY <1>1 DEF Senders, Counts
<1>3. /\ m \in Messages /\ m = q[1] /\ 1 \in DOMAIN q
      /\ \A i \in DOMAIN Tail(q) : i + 1 \in DOMAIN q /\ Tail(q)[i] = q[i + 1]
                                   /\ i + 1 # 1
  BY <1>1
<1>4. /\ m.type \in {"REQ", "DATA", "END"}
      /\ m.type = "REQ" => Unasked(c) /\ m.size = fsize[c] /\ p = 0
      /\ m.type = "END" => (m.code = "SUCCESS" => p = fsize[c])
  BY <1>1, <1>3 DEF Purpose
<1>5. m.type \in {"DATA", "END"} => Writing(c) \/ rcv[c].done \/ rcv[c].status = "GONE"
  <2>1. m.type \in {"DATA", "END"} => Needing(q) BY <1>3 DEF Needing
  <2> QED BY <1>1, <2>1 DEF Stage, Begun
<1>6. Linked(q, p) /\ EdgeOf(q, p, 1) = Len(rcv[c].content)
      /\ (conn[c] = "up" => Ends(q, p))
  BY <1>1 DEF Chain
<1> HIDE DEF q, p, m
<1>7. /\ m.type # "DATA" => Tail(q) = <<>>
      /\ m.type = "DATA" /\ Tail(q) # <<>> => EdgeOf(Tail(q), p, 1) = Stop(m)
      /\ m.type = "DATA" => m.whole /\ Stop(m) <= p
      /\ Ends(q, p) /\ m.type = "DATA" => EdgeOf(Tail(q), p, 1) = Stop(m)
      /\ EdgeOf(q, p, 1) = IF m.type = "DATA" THEN m.after
                           ELSE IF m.type = "REQ" THEN 0 ELSE p
  <2>1. q # <<>> BY DEF q
  <2> QED BY <1>1, <1>2, <1>6, <2>1, LinkedTail DEF m
<1>8. m.type = "DATA" => Stop(m) <= fsize[c]
  <2>1. m.type = "DATA" => Stop(m) \in Nat BY <1>3, MessageFields
  <2> QED BY <1>1, <1>2, <1>7, <2>1
<1>9. \A i \in DOMAIN Tail(q) : Tail(q)[i].type \in {"DATA", "END"}
  <2> SUFFICES ASSUME NEW i \in DOMAIN Tail(q)
               PROVE  Tail(q)[i].type \in {"DATA", "END"}
    OBVIOUS
  <2> DEFINE j == i + 1
  <2>1. j \in DOMAIN q /\ Tail(q)[i] = q[j] /\ j # 1 BY <1>3
  <2>2. q[j].type \in {"REQ", "DATA", "END"} /\ (q[j].type = "REQ" => Unasked(c))
    BY <1>1, <2>1 DEF Purpose, q
  <2>3. Tail(q) # <<>> BY <2>1
  <2>4. m.type = "DATA" BY <1>7, <2>3
  <2>5. ~Unasked(c)
    BY <1>5, <2>4 DEF Unasked, Writing
  <2> QED BY <2>1, <2>2, <2>5
<1>10. /\ m.type = "END" => p = Len(rcv[c].content)
       /\ m.type = "DATA" =>
            /\ m.whole /\ m.after = Len(rcv[c].content)
            /\ \/ EdgeOf(Tail(q), p, 1) = Stop(m)
               \/ Tail(q) = <<>> /\ conn[c] # "up"
  <2>1. m.type = "DATA" => m.after = Len(rcv[c].content) BY <1>6, <1>7
  <2>2. m.type = "END" => p = Len(rcv[c].content) BY <1>6, <1>7
  <2>3. m.type = "DATA" /\ conn[c] = "up" => EdgeOf(Tail(q), p, 1) = Stop(m)
    BY <1>6, <1>7
  <2>4. m.type = "DATA" /\ Tail(q) # <<>> => EdgeOf(Tail(q), p, 1) = Stop(m)
    BY <1>7
  <2> QED BY <1>7, <2>1, <2>2, <2>3, <2>4
<1>11. /\ m \in Messages /\ (m.type # "DATA" => Tail(q) = <<>>) BY <1>3, <1>7
<1> QED BY <1>4, <1>5, <1>8, <1>9, <1>10, <1>11 DEF q, p, m

LEMMA ReqFaithful ==
  ASSUME EInv, NEW c \in Clients, ProcTranReq(c)
  PROVE  \A d \in Clients : Expected(d)' => Faithful(d)'
<1> DEFINE m == Head(toServer[c])
<1>1. /\ ServerUp /\ toServer[c] # <<>> /\ m.type = "REQ"
      /\ UNCHANGED <<fsize, changes, snd>> /\ rcv[c] \in Sessions
      /\ rcv = [rcv EXCEPT ![c] = rcv[c]] /\ rcv \in [Clients -> Sessions]
  BY DEF ProcTranReq, Arrived, EInv, IInv, ProcessesOK
<1>2. Expected(c) => /\ Unasked(c) /\ m.size = fsize[c] /\ snd[c].pos = 0
                     /\ Tail(toServer[c]) = <<>>
  BY <1>1, FirstMessage
<1> HIDE DEF m
<1>3. CASE rcv[c].status # "INIT" /\ Consumed(c) /\ UNCHANGED <<rcv, srv, conn, toClient>>
  <2>1. ~Expected(c) BY <1>2, <1>3 DEF Unasked
  <2>2. rcv' = [rcv EXCEPT ![c] = rcv[c]] BY <1>1, <1>3
  <2> QED BY <1>1, <1>3, <2>1, <2>2, TakeFaithful
<1>4. CASE /\ m.size # 0
           /\ ReplyAndGoOn(c, Rsp("SUCCESS"),
                [rcv[c] EXCEPT !.status = "SENDING", !.file = "open", !.content = <<>>,
                               !.size = m.size])
  <2> DEFINE r == [rcv[c] EXCEPT !.status = "SENDING", !.file = "open", !.content = <<>>,
                                 !.size = m.size]
  <2>1. /\ r.content = <<>> /\ r.done = rcv[c].done /\ r.file = "open"
        /\ r.size = m.size /\ r.written = rcv[c].written /\ r.synced = rcv[c].synced
    BY <1>1 DEF Sessions
  <2>2. rcv'[c] = r BY <1>1, <1>4 DEF ReplyAndGoOn
  <2>3. ReplyAndGoOn(c, Rsp("SUCCESS"), r) BY <1>4
  <2> HIDE DEF r
  <2>4. ASSUME Expected(c), Faithful(c)
        PROVE  /\ Wrote(c)' /\ r.synced /\ Writing(c)'
               /\ EdgeOf(Tail(toServer[c]), snd[c].pos, 1) = Len(r.content)
               /\ \A i \in DOMAIN Tail(toServer[c]) :
                    Tail(toServer[c])[i].type \in {"DATA", "END"}
    <3>1. /\ rcv[c].content = <<>> /\ rcv[c].written = 0 /\ Len(<<>>) = 0
          /\ fsize[c] \in Nat /\ m.size = fsize[c] /\ fsize'[c] = fsize[c]
      BY <1>1, <1>2, <2>4 DEF Unasked, EInv, IInv, SizesKept
    <3>2. Wrote(c)' BY <1>1, <2>1, <2>2, <2>4, <3>1 DEF Faithful, Wrote
    <3>3. r.synced BY <1>1, <2>1, <2>4 DEF Faithful, Stage
    <3>4. Writing(c)' BY <1>4, <2>1, <2>2, <3>1 DEF Writing
    <3>5. EdgeOf(Tail(toServer[c]), snd[c].pos, 1) = Len(r.content)
      BY <1>2, <2>1, <2>4, <3>1, LinkedEmpty
    <3> QED BY <1>1, <2>4, <3>2, <3>3, <3>4, <3>5, FirstMessage
  <2>5. Expected(c) /\ Faithful(c) =>
           /\ Wrote(c)' /\ r.synced /\ (Writing(c)' \/ r.done)
           /\ \/ EdgeOf(Tail(toServer[c]), snd[c].pos, 1) = Len(r.content)
              \/ Tail(toServer[c]) = <<>> /\ conn[c] # "up"
           /\ \A i \in DOMAIN Tail(toServer[c]) :
                Tail(toServer[c])[i].type \in {"DATA", "END"}
    BY <2>4
  <2> QED BY <1>1, <2>3, <2>5, ReplyFaithful
<1>5. CASE /\ rcv' = [rcv EXCEPT ![c].status = "CONNECTED"]
           /\ ServerExit("exited", Replied(c, Rsp("ERROR")))
  <2> DEFINE r == [rcv[c] EXCEPT !.status = "CONNECTED"]
  <2>1. r.content = rcv[c].content /\ r.done = rcv[c].done BY <1>1 DEF Sessions
  <2>2. rcv' = [rcv EXCEPT ![c] = r] /\ rcv'[c] = r BY <1>1, <1>5
  <2> HIDE DEF r
  <2>3. Faithful(c) => Wrote(c)' BY <1>1, <2>1, <2>2 DEF Faithful, Wrote
  <2> QED BY <1>1, <1>5, <2>2, <2>3, ExitKeepsFaithful
<1> QED BY <1>3, <1>4, <1>5 DEF ProcTranReq, m

LEMMA EndFaithful ==
  ASSUME EInv, NEW c \in Clients, ProcTranEnd(c)
  PROVE  \A d \in Clients : Expected(d)' => Faithful(d)'
<1>1. /\ ServerUp /\ toServer[c] # <<>> /\ Head(toServer[c]).type = "END"
      /\ UNCHANGED <<fsize, changes, snd>> /\ rcv[c] \in Sessions
      /\ rcv = [rcv EXCEPT ![c] = rcv[c]] /\ rcv \in [Clients -> Sessions]
  BY DEF ProcTranEnd, Arrived, EInv, IInv, ProcessesOK
<1>2. CASE Consumed(c) /\ UNCHANGED <<rcv, srv, conn, toClient>>
  <2>1. rcv' = [rcv EXCEPT ![c] = rcv[c]] BY <1>1, <1>2
  <2>2. ASSUME Expected(c), Faithful(c)
        PROVE  /\ Wrote(c)' /\ Stage(c)'
               /\ EdgeOf(toServer'[c], snd[c].pos, 1) = Len(rcv[c].content)
               /\ \A i \in DOMAIN toServer'[c] : toServer'[c][i].type \in {"DATA", "END"}
    <3>1. toServer'[c] = Tail(toServer[c])
      BY <1>2 DEF Consumed, EInv, IInv, ProcessesOK
    <3>2. Tail(toServer[c]) = <<>> /\ snd[c].pos = Len(rcv[c].content)
      BY <1>1, <2>2, FirstMessage
    <3>3. Wrote(c)' BY <1>1, <1>2, <2>2 DEF Faithful, Wrote
    <3>4. Stage(c)'
      BY <1>1, <1>2, <2>2, <3>1, <3>2, EmptyQueue DEF Faithful, Stage, Begun, Writing
    <3>5. toServer'[c] = <<>> BY <3>1, <3>2
    <3>6. EdgeOf(toServer'[c], snd[c].pos, 1) = Len(rcv[c].content)
      BY <3>2, <3>5 DEF EdgeOf
    <3>7. \A i \in DOMAIN toServer'[c] : toServer'[c][i].type \in {"DATA", "END"}
      BY <3>5
    <3> QED BY <3>3, <3>4, <3>6, <3>7
  <2>3. Expected(c) /\ Faithful(c) =>
           /\ Wrote(c)' /\ Stage(c)'
           /\ \/ EdgeOf(toServer'[c], snd[c].pos, 1) = Len(rcv[c].content)
              \/ toServer'[c] = <<>> /\ conn[c] # "up"
           /\ \A i \in DOMAIN toServer'[c] : toServer'[c][i].type \in {"DATA", "END"}
    BY <2>2
  <2>4. \A d \in Clients \ {c} : toClient'[d] = toClient[d] BY <1>2
  <2> QED BY <1>1, <1>2, <2>1, <2>3, <2>4, TakeFaithful
<1>3. CASE /\ rcv' = [rcv EXCEPT ![c].file = IF @ = "open" THEN "closed" ELSE @]
           /\ ServerExit("exited", toClient)
  <2> DEFINE r == [rcv[c] EXCEPT !.file = IF @ = "open" THEN "closed" ELSE @]
  <2>1. r.content = rcv[c].content /\ r.done = rcv[c].done BY <1>1 DEF Sessions
  <2>2. rcv' = [rcv EXCEPT ![c] = r] /\ rcv'[c] = r BY <1>1, <1>3
  <2> HIDE DEF r
  <2>3. Faithful(c) => Wrote(c)' BY <1>1, <2>1, <2>2 DEF Faithful, Wrote
  <2> QED BY <1>1, <1>3, <2>2, <2>3, ExitKeepsFaithful
<1> QED BY <1>2, <1>3 DEF ProcTranEnd

\* The bytes of the first message go where the file left off.
LEMMA FirstData ==
  ASSUME EInv, NEW c \in Clients, Expected(c), Arrived(c, "DATA")
  PROVE  LET m == Head(toServer[c])
             bs == Positions(m.after, m.len)
         IN
         /\ Writing(c) /\ Wrote(c) /\ Stage(c) /\ m.whole
         /\ Stop(m) \in Nat /\ Stop(m) <= fsize[c]
         /\ U32(rcv[c].written + Len(bs)) = Stop(m)
         /\ rcv[c].content \o bs = Positions(0, Stop(m))
         /\ Len(Positions(0, Stop(m))) = Stop(m)
         /\ \/ EdgeOf(Tail(toServer[c]), snd[c].pos, 1) = Stop(m)
            \/ Tail(toServer[c]) = <<>> /\ conn[c] # "up"
         /\ \A i \in DOMAIN Tail(toServer[c]) :
              Tail(toServer[c])[i].type \in {"DATA", "END"}
<1> DEFINE m == Head(toServer[c])
           bs == Positions(m.after, m.len)
<1>1. /\ ServerUp /\ toServer[c] # <<>> /\ m.type = "DATA"
      /\ rcv[c].status # "GONE" /\ fsize[c] \in Nat
      /\ Wrote(c) /\ Stage(c) /\ fsize[c] < Word
  BY DEF Arrived, EInv, IInv, SizesKept, Faithful, Expected
<1>2. /\ m \in Messages /\ m.whole /\ m.after = Len(rcv[c].content)
      /\ Stop(m) <= fsize[c]
      /\ \/ EdgeOf(Tail(toServer[c]), snd[c].pos, 1) = Stop(m)
         \/ Tail(toServer[c]) = <<>> /\ conn[c] # "up"
      /\ Writing(c) \/ rcv[c].done \/ rcv[c].status = "GONE"
      /\ \A i \in DOMAIN Tail(toServer[c]) :
           Tail(toServer[c])[i].type \in {"DATA", "END"}
  BY <1>1, FirstMessage
<1>3. /\ m.after \in Nat /\ m.len \in Nat /\ Stop(m) \in Nat
      /\ m.after < Stop(m) /\ Stop(m) = m.after + m.len
  BY <1>1, <1>2, MessageFields DEF Stop
<1> HIDE DEF m
<1>4. Writing(c)
  <2>1. Len(rcv[c].content) < fsize[c] BY <1>1, <1>2, <1>3
  <2>2. rcv[c].done => Len(rcv[c].content) = fsize[c] BY <1>1 DEF Wrote
  <2>3. ~rcv[c].done BY <1>1, <2>1, <2>2
  <2> QED BY <1>1, <1>2, <2>3
<1>5. rcv[c].content = Positions(0, m.after) /\ rcv[c].written = m.after
  BY <1>1, <1>2, <1>4 DEF Wrote, Writing
<1>6. /\ rcv[c].content \o bs = Positions(0, m.after + m.len)
      /\ Len(bs) = m.len /\ Len(Positions(0, m.after + m.len)) = m.after + m.len
  BY <1>3, <1>5, PositionsJoin
<1> HIDE DEF bs
<1>7. U32(rcv[c].written + Len(bs)) = Stop(m)
  <2>1. rcv[c].written + Len(bs) = Stop(m) BY <1>3, <1>5, <1>6
  <2>2. Stop(m) < Word BY <1>1, <1>2, <1>3, BoundsAssumption
  <2> QED BY <1>3, <2>1, <2>2, SmallRemainder
<1> QED BY <1>1, <1>2, <1>3, <1>4, <1>6, <1>7 DEF m, bs

\* procFileData, when the message is the one the session waits for.
LEMMA DataFaithful ==
  ASSUME EInv, NEW c \in Clients, Arrived(c, "DATA"),
         NEW bs \in Seq(Nat), NEW insync \in BOOLEAN, ProcFileData(c, bs, insync),
         Expected(c) => /\ insync = TRUE
                        /\ bs = Positions(Head(toServer[c]).after, Head(toServer[c]).len)
  PROVE  \A d \in Clients : Expected(d)' => Faithful(d)'
<1> DEFINE m == Head(toServer[c])
           stop == Stop(m)
           w == U32(rcv[c].written + Len(bs))
           r == [rcv[c] EXCEPT !.written = w, !.content = @ \o bs, !.synced = insync]
           full == [r EXCEPT !.file = "null", !.done = TRUE]
           again == [full EXCEPT !.status = "INIT", !.size = 0, !.written = 0]
           shut == [r EXCEPT !.file = "closed"]
           failed == [rcv[c] EXCEPT !.file = "closed"]
<1>1. /\ ServerUp /\ toServer[c] # <<>> /\ UNCHANGED <<fsize, changes, snd>>
      /\ rcv \in [Clients -> Sessions] /\ rcv[c] \in Sessions
      /\ rcv = [rcv EXCEPT ![c] = rcv[c]]
      /\ toServer \in [Clients -> Seq(Messages)]
  BY DEF Arrived, EInv, IInv, ProcessesOK, ProcFileData
<1>2. /\ r.written = w /\ r.content = rcv[c].content \o bs /\ r.synced = insync
      /\ r.file = rcv[c].file /\ r.size = rcv[c].size /\ r.done = rcv[c].done
      /\ full.content = r.content /\ full.done = TRUE /\ full.synced = r.synced
      /\ again.content = r.content /\ again.done = TRUE /\ again.synced = r.synced
      /\ shut.content = r.content /\ shut.done = r.done
      /\ failed.content = rcv[c].content /\ failed.done = rcv[c].done
  <2>1. DOMAIN rcv[c] = {"status", "file", "size", "written", "content", "done", "synced"}
    BY <1>1 DEF Sessions
  <2> HIDE DEF w
  <2> QED BY <2>1
<1>3. ASSUME Expected(c)
      PROVE  /\ Writing(c) /\ Wrote(c) /\ Stage(c) /\ stop \in Nat /\ stop <= fsize[c]
             /\ w = stop /\ insync = TRUE /\ rcv[c].content \o bs = Positions(0, stop)
             /\ Len(Positions(0, stop)) = stop /\ rcv[c].size = fsize[c]
             /\ \/ EdgeOf(Tail(toServer[c]), snd[c].pos, 1) = stop
                \/ Tail(toServer[c]) = <<>> /\ conn[c] # "up"
             /\ \A i \in DOMAIN Tail(toServer[c]) :
                  Tail(toServer[c])[i].type \in {"DATA", "END"}
  BY <1>3, FirstData DEF Writing
<1> HIDE DEF m, stop, w, r, full, again, shut, failed
<1>4. fsize[c] \in Nat /\ fsize'[c] = fsize[c] /\ snd'[c] = snd[c]
  BY <1>1 DEF EInv, IInv, SizesKept
\* A session x with the bytes of the message, or with none.
<1>5. ASSUME NEW x, rcv'[c] = x, x.content = r.content, Expected(c),
             x.done => w = rcv[c].size
      PROVE  Wrote(c)'
  <2>1. x.content = Positions(0, stop) /\ Len(x.content) = stop
    BY <1>2, <1>3, <1>5
  <2>2. x.done => stop = fsize[c] BY <1>3, <1>5
  <2> QED BY <1>3, <1>4, <1>5, <2>1, <2>2 DEF Wrote
<1>6. ASSUME NEW x, rcv'[c] = x, x.content = rcv[c].content, x.done = rcv[c].done,
             Expected(c)
      PROVE  Wrote(c)'
  BY <1>3, <1>4, <1>6 DEF Wrote
<1>7. ASSUME Expected(c) PROVE ~rcv[c].done
  BY <1>3, <1>4, <1>7 DEF Writing, Wrote
<1>8. CASE UNCHANGED rcv /\ \E how \in {"exited", "aborted"} : ServerExit(how, toClient)
  <2>1. PICK how \in {"exited", "aborted"} : ServerExit(how, toClient) BY <1>8
  <2>2. rcv' = [rcv EXCEPT ![c] = rcv[c]] /\ rcv'[c] = rcv[c] BY <1>1, <1>8
  <2>3. Expected(c) => Wrote(c)' BY <1>6, <2>2
  <2> QED BY <1>1, <2>1, <2>2, <2>3, ExitKeepsFaithful
<1>9. ASSUME NEW zero \in BOOLEAN, w = rcv[c].size, Complete(c, r, zero)
      PROVE  \A d \in Clients : Expected(d)' => Faithful(d)'
  <2>1. CASE zero
    <3>1. /\ rcv' = [rcv EXCEPT ![c] = full]
          /\ \/ ServerExit("aborted", Replied(c, End("SUCCESS")))
             \/ ServerExit("exited", toClient)
      BY <1>9, <2>1 DEF Complete, full
    <3>2. rcv'[c] = full BY <1>1, <3>1
    <3>3. Expected(c) => Wrote(c)' BY <1>2, <1>5, <1>9, <3>2
    <3> QED BY <1>1, <3>1, <3>3, ExitKeepsFaithful
  <2>2. CASE ~zero
    <3>1. ReplyAndGoOn(c, End("SUCCESS"), again)
      BY <1>9, <2>2 DEF Complete, again, full
    <3>2. rcv'[c] = again BY <1>1, <3>1 DEF ReplyAndGoOn
    <3>3. Expected(c) => Wrote(c)' BY <1>2, <1>5, <1>9, <3>2
    <3>4. Expected(c) => Len(again.content) = stop BY <1>2, <1>3
    <3>5. Expected(c) =>
            /\ Wrote(c)' /\ again.synced /\ (Writing(c)' \/ again.done)
            /\ \/ EdgeOf(Tail(toServer[c]), snd[c].pos, 1) = Len(again.content)
               \/ Tail(toServer[c]) = <<>> /\ conn[c] # "up"
            /\ \A i \in DOMAIN Tail(toServer[c]) :
                 Tail(toServer[c])[i].type \in {"DATA", "END"}
      BY <1>2, <1>3, <3>3, <3>4
    <3> QED BY <1>1, <3>1, <3>5, ReplyFaithful
  <2> QED BY <2>1, <2>2
<1>10. CASE /\ rcv[c].file = "open" /\ w < rcv[c].size
            /\ rcv' = [rcv EXCEPT ![c] = r] /\ Consumed(c)
            /\ UNCHANGED <<srv, conn, toClient>>
  <2>1. rcv'[c] = r /\ toServer'[c] = Tail(toServer[c])
    BY <1>1, <1>10 DEF Consumed
  <2>2. ASSUME Expected(c)
        PROVE  /\ Wrote(c)' /\ Stage(c)'
               /\ \/ EdgeOf(toServer'[c], snd[c].pos, 1) = Len(r.content)
                  \/ toServer'[c] = <<>> /\ conn[c] # "up"
               /\ \A i \in DOMAIN toServer'[c] : toServer'[c][i].type \in {"DATA", "END"}
    <3>1. r.content = Positions(0, stop) /\ Len(r.content) = stop /\ r.written = stop
      BY <1>2, <1>3, <2>2
    <3>2. Wrote(c)' BY <1>2, <1>5, <1>7, <2>1, <2>2
    <3>3. Writing(c)' BY <1>2, <1>3, <1>4, <1>10, <2>1, <2>2, <3>1 DEF Writing
    <3>4. Stage(c)' BY <1>2, <1>3, <2>1, <2>2, <3>3 DEF Stage
    <3> QED BY <1>3, <2>1, <2>2, <3>1, <3>2, <3>4
  <2>3. \A d \in Clients \ {c} : toClient'[d] = toClient[d] BY <1>10
  <2> QED BY <1>1, <1>10, <2>2, <2>3, TakeFaithful
<1>11. CASE /\ w > rcv[c].size /\ rcv' = [rcv EXCEPT ![c] = shut]
            /\ ServerExit("exited", Replied(c, End("ERROR")))
  <2>1. rcv'[c] = shut BY <1>1, <1>11
  <2>2. Expected(c) => Wrote(c)' BY <1>2, <1>5, <1>7, <2>1
  <2> QED BY <1>1, <1>11, <2>2, ExitKeepsFaithful
<1>12. CASE /\ rcv' = [rcv EXCEPT ![c] = failed]
            /\ ServerExit("exited", Replied(c, End("ERROR")))
  <2>1. rcv'[c] = failed BY <1>1, <1>12
  <2>2. Expected(c) => Wrote(c)' BY <1>2, <1>6, <2>1
  <2> QED BY <1>1, <1>12, <2>2, ExitKeepsFaithful
<1> QED
  BY <1>8, <1>9, <1>10, <1>11, <1>12 DEF ProcFileData, w, r, shut, failed

LEMMA RecvFaithful ==
  ASSUME EInv, NEW c \in Clients, RecvData(c) \/ RecvGarbled(c)
  PROVE  \A d \in Clients : Expected(d)' => Faithful(d)'
<1> DEFINE m == Head(toServer[c])
<1>1. Arrived(c, "DATA") /\ m \in Messages /\ m.type = "DATA" /\ IInv
  BY Arrivals DEF RecvData, RecvGarbled, EInv
<1>2. m.after \in Nat /\ m.len \in Nat /\ m.len - 1 \in Nat
  <2> HIDE DEF m
  <2>1. m.after \in Nat /\ m.len \in Nat /\ m.len > 0 BY <1>1, MessageFields
  <2> QED BY <2>1
<1>3. Expected(c) => m.whole BY <1>1, FirstData
<1>4. CASE RecvData(c)
  <2>1. ProcFileData(c, Positions(m.after, m.len), TRUE) BY <1>4 DEF RecvData
  <2>2. Positions(m.after, m.len) \in Seq(Nat)
    <3> HIDE DEF m
    <3> QED BY <1>2, PositionsJoin
  <2> QED BY <1>1, <2>1, <2>2, DataFaithful
<1>5. CASE RecvGarbled(c)
  <2>1. /\ ProcFileData(c, Append(Positions(m.after, m.len - 1), 0), FALSE)
        /\ ~m.whole
    BY <1>5 DEF RecvGarbled
  <2>2. Append(Positions(m.after, m.len - 1), 0) \in Seq(Nat)
    <3> HIDE DEF m
    <3>1. Positions(m.after, m.len - 1) \in Seq(Nat) BY <1>2, PositionsJoin
    <3> QED BY <3>1
  <2>3. ~Expected(c) BY <1>3, <2>1
  <2> QED BY <1>1, <2>1, <2>2, <2>3, DataFaithful
<1> QED BY <1>4, <1>5

LEMMA UnframedFaithful ==
  ASSUME EInv, NEW c \in Clients, RecvUnframed(c)
  PROVE  \A d \in Clients : Expected(d)' => Faithful(d)'
<1>1. /\ ServerUp /\ ~rcv[c].synced /\ toServer[c] # <<>>
      /\ UNCHANGED <<fsize, changes, snd, rcv>> /\ rcv' = [rcv EXCEPT ![c] = rcv[c]]
  BY DEF RecvUnframed, EInv, IInv, ProcessesOK
<1>2. ~(Expected(c) /\ Faithful(c)) BY <1>1 DEF Faithful, Stage
<1>3. CASE Consumed(c) /\ UNCHANGED <<srv, conn, toClient>>
  BY <1>1, <1>2, <1>3, TakeFaithful
<1>4. CASE ServerExit("exited", toClient)
  BY <1>1, <1>2, <1>4, ExitKeepsFaithful
<1> QED BY <1>3, <1>4 DEF RecvUnframed

LEMMA SessionErrFaithful ==
  ASSUME EInv, NEW c \in Clients, SessionErr(c)
  PROVE  \A d \in Clients : Expected(d)' => Faithful(d)'
<1> DEFINE r == [rcv[c] EXCEPT !.status = "GONE"]
<1>1. /\ UNCHANGED <<fsize, changes, snd, srv, conn, toClient>> /\ conn[c] = "down"
      /\ rcv' = [rcv EXCEPT ![c] = r] /\ toServer' = [toServer EXCEPT ![c] = <<>>]
      /\ rcv \in [Clients -> Sessions] /\ rcv[c] \in Sessions
      /\ toServer \in [Clients -> Seq(Messages)]
  BY DEF SessionErr, EInv, IInv, ProcessesOK
<1>2. /\ r.content = rcv[c].content /\ r.done = rcv[c].done /\ r.status = "GONE"
      /\ r.synced = rcv[c].synced
  BY <1>1 DEF Sessions
<1> HIDE DEF r
<1>3. /\ rcv'[c] = r /\ toServer'[c] = <<>>
      /\ \A d \in Clients \ {c} : rcv'[d] = rcv[d] /\ toServer'[d] = toServer[d]
  BY <1>1
<1>4. ASSUME NEW d \in Clients \ {c} PROVE Expected(d)' => Faithful(d)'
  BY <1>1, <1>3, Undisturbed DEF EInv
<1>5. ASSUME Expected(c)' PROVE Faithful(c)'
  <2>1. Expected(c) /\ Faithful(c) BY <1>1, <1>5, ExpectedBefore DEF EInv
  <2>2. Wrote(c)' BY <1>1, <1>2, <1>3, <2>1 DEF Faithful, Wrote
  <2>3. Counts(c)' BY <1>1, <2>1 DEF Faithful, Counts
  <2>4. ServerUp' => Stage(c)'
    BY <1>1, <1>2, <1>3, <2>1 DEF Faithful, ServerUp, Stage
  <2>5. Chain(c)' BY <1>1, <1>3, LinkedEmpty DEF Chain
  <2>6. Purpose(c)' BY <1>3 DEF Purpose
  <2> QED BY <2>2, <2>3, <2>4, <2>5, <2>6 DEF Faithful
<1> QED BY <1>4, <1>5

\* A transfer whose file was resized is not expected any more.
LEMMA ResizeFaithful ==
  ASSUME EInv, NEW c \in Clients, Resize(c)
  PROVE  \A d \in Clients : Expected(d)' => Faithful(d)'
<1>1. PICK n \in Sizes[c] : fsize' = [fsize EXCEPT ![c] = n] BY DEF Resize
<1>2. /\ changes' = [changes EXCEPT ![c] = @ + 1]
      /\ UNCHANGED <<snd, rcv, srv, conn, toServer, toClient>>
      /\ changes \in [Clients -> 0..MaxChanges] /\ changes[c] \in 0..MaxChanges
      /\ fsize \in [Clients -> Nat]
  BY DEF Resize, EInv, IInv, ProcessesOK, SizesKept
<1>3. /\ changes'[c] = changes[c] + 1
      /\ \A d \in Clients \ {c} : changes'[d] = changes[d] /\ fsize'[d] = fsize[d]
  BY <1>1, <1>2
<1>4. changes'[c] # 0 BY <1>2, <1>3, BoundsAssumption
<1>5. ASSUME NEW d \in Clients \ {c} PROVE Expected(d)' => Faithful(d)'
  BY <1>2, <1>3, Undisturbed DEF EInv
<1>6. Expected(c)' => Faithful(c)' BY <1>4 DEF Expected
<1> QED BY <1>5, <1>6

LEMMA ServerKilledFaithful ==
  ASSUME EInv, ServerKilled
  PROVE  \A d \in Clients : Expected(d)' => Faithful(d)'
<1>1. ServerExit("exited", toClient) /\ UNCHANGED <<fsize, changes, snd, rcv>>
  BY DEF ServerKilled
<1>2. \A d \in Clients : Expected(d) /\ Faithful(d) => Wrote(d)'
  BY <1>1 DEF Faithful, Wrote
<1> QED BY <1>1, <1>2, ExitFaithful

LEMMA NextFaithful ==
  EInv /\ [Next]_vars => \A d \in Clients : Expected(d)' => Faithful(d)'
<1> SUFFICES ASSUME EInv, [Next]_vars
             PROVE  \A d \in Clients : Expected(d)' => Faithful(d)'
  OBVIOUS
<1>1. CASE UNCHANGED vars BY <1>1, Undisturbed DEF vars, EInv
<1>2. ASSUME NEW c \in Clients, ClientStep(c)
      PROVE  \A d \in Clients : Expected(d)' => Faithful(d)'
  BY <1>2, StartFaithful, RspFaithful, ChunkFaithful, LocalEndFaithful,
     ClientErrFaithful
  DEF ClientStep
<1>3. ASSUME NEW c \in Clients, SessionStep(c)
      PROVE  \A d \in Clients : Expected(d)' => Faithful(d)'
  BY <1>3, ReqFaithful, EndFaithful, RecvFaithful, UnframedFaithful,
     SessionErrFaithful
  DEF SessionStep
<1>4. ASSUME NEW c \in Clients, ClientKilled(c)
      PROVE  \A d \in Clients : Expected(d)' => Faithful(d)'
  BY <1>4, ClientExitFaithful DEF ClientKilled
<1>5. ASSUME NEW c \in Clients, Resize(c) \/ ConnReset(c)
      PROVE  \A d \in Clients : Expected(d)' => Faithful(d)'
  BY <1>5, ResizeFaithful, ResetFaithful
<1>6. CASE ServerKilled BY <1>6, ServerKilledFaithful
<1> QED BY <1>1, <1>2, <1>3, <1>4, <1>5, <1>6 DEF Next

\* A client leaves "connect" for good, and a connection needs a server.
LEMMA OthersStay ==
  ASSUME EInv, [Next]_vars, NEW d \in Clients
  PROVE  /\ snd'[d] = snd[d] \/ snd'[d].pc # "connect"
         /\ conn'[d] = "up" => ServerUp'
<1>1. /\ snd \in [Clients -> Senders] /\ \A c \in Clients : snd[c] \in Senders
      /\ conn \in [Clients -> {"none", "up", "down"}]
      /\ conn[d] = "up" => ServerUp
  BY DEF EInv, IInv, ProcessesOK, UpIfServed
<1> DEFINE Goal == /\ snd'[d] = snd[d] \/ snd'[d].pc # "connect"
                   /\ conn'[d] = "up" => ServerUp'
<1>2. ASSUME NEW how, NEW replies, ServerExit(how, replies)
      PROVE  conn'[d] # "up"
  BY <1>1, <1>2 DEF ServerExit
<1>3. ASSUME UNCHANGED <<snd, conn, srv>> PROVE Goal
  BY <1>1, <1>3 DEF ServerUp
<1>4. ASSUME UNCHANGED snd, NEW how, NEW replies, ServerExit(how, replies) PROVE Goal
  BY <1>2, <1>4
<1>5. ASSUME NEW c \in Clients, ClientExit(c), UNCHANGED srv PROVE Goal
  <2>1. snd' = [snd EXCEPT ![c].pc = "exited"] /\ conn' = [conn EXCEPT ![c] = "down"]
    BY <1>5 DEF ClientExit
  <2>2. snd'[d] = snd[d] \/ snd'[d].pc = "exited" BY <1>1, <2>1 DEF Senders
  <2>3. conn'[d] = "up" => conn[d] = "up" BY <1>1, <2>1
  <2> QED BY <1>1, <1>5, <2>2, <2>3 DEF ServerUp
<1>6. ASSUME NEW c \in Clients, NEW s, snd' = [snd EXCEPT ![c] = s], s.pc # "connect",
             conn' = conn \/ ServerUp, UNCHANGED srv
      PROVE  Goal
  <2>1. snd'[d] = snd[d] \/ snd'[d].pc # "connect" BY <1>1, <1>6
  <2> QED BY <1>1, <1>6, <2>1 DEF ServerUp
<1>7. ASSUME NEW c \in Clients, ClientStep(c) PROVE Goal
  <2>1. CASE StartTransf(c)
    <3>1. PICK x \in {"exited", "poll"} :
            snd' = [snd EXCEPT ![c].pc = x, ![c].status = "CONNECTED"]
      BY <2>1 DEF StartTransf
    <3> DEFINE s == [snd[c] EXCEPT !.pc = x, !.status = "CONNECTED"]
    <3>2. s.pc # "connect" /\ snd' = [snd EXCEPT ![c] = s]
      BY <1>1, <3>1 DEF Senders
    <3>3. ServerUp /\ UNCHANGED srv BY <2>1 DEF StartTransf
    <3> HIDE DEF s
    <3> QED BY <1>6, <3>2, <3>3
  <2>2. CASE ProcTranRsp(c) \/ ProcTranEndC(c)
    <3>1. CASE ClientExit(c)
      BY <1>5, <2>2, <3>1 DEF ProcTranRsp, ProcTranEndC
    <3>2. CASE UNCHANGED <<snd, conn>>
      BY <1>3, <2>2, <3>2 DEF ProcTranRsp, ProcTranEndC
    <3>3. CASE /\ snd' = [snd EXCEPT ![c].pc = "loop", ![c].status = "SENDING",
                                     ![c].goal = U32(fsize[c])]
               /\ UNCHANGED conn
      <4> DEFINE f == U32(fsize[c])
                 s == [snd[c] EXCEPT !.pc = "loop", !.status = "SENDING", !.goal = f]
      <4>1. s.pc # "connect"
        <5> HIDE DEF f
        <5> QED BY <1>1 DEF Senders
      <4>2. snd' = [snd EXCEPT ![c] = s] /\ UNCHANGED srv
        BY <1>1, <2>2, <3>3 DEF ProcTranRsp, ProcTranEndC
      <4> HIDE DEF s
      <4> QED BY <1>6, <3>3, <4>1, <4>2
    <3> QED BY <2>2, <3>1, <3>2, <3>3 DEF ProcTranRsp, ProcTranEndC
  <2>3. CASE SendChunk(c)
    <3> DEFINE n == Least(Chunk, fsize[c] - snd[c].pos)
               s == [snd[c] EXCEPT !.pos = @ + n, !.sent = U32(@ + n)]
    <3>1. snd[c].pc = "loop" /\ UNCHANGED <<conn, srv>> BY <2>3 DEF SendChunk
    <3>2. \/ snd' = [snd EXCEPT ![c] = s]
          \/ snd' = [snd EXCEPT ![c] = [s EXCEPT !.short = TRUE]]
          \/ snd' = [snd EXCEPT ![c] = [snd[c] EXCEPT !.pc = "failed"]]
      BY <2>3 DEF SendChunk
    <3>3. s.pc = "loop" /\ [s EXCEPT !.short = TRUE].pc = "loop"
      <4> HIDE DEF n
      <4> QED BY <1>1, <3>1 DEF Senders
    <3>4. [snd[c] EXCEPT !.pc = "failed"].pc = "failed" BY <1>1 DEF Senders
    <3> HIDE DEF s
    <3> QED BY <1>6, <3>1, <3>2, <3>3, <3>4
  <2>4. CASE LocalTransEnd(c)
    <3>1. PICK told \in BOOLEAN, x \in {"SEND_OVER", "SEND_FAIL"} :
            snd' = [snd EXCEPT ![c].pc = "poll", ![c].told = told, ![c].status = x]
      BY <2>4 DEF LocalTransEnd
    <3> DEFINE s == [snd[c] EXCEPT !.pc = "poll", !.told = told, !.status = x]
    <3>2. s.pc # "connect" /\ snd' = [snd EXCEPT ![c] = s]
      BY <1>1, <3>1 DEF Senders
    <3>3. UNCHANGED <<conn, srv>> BY <2>4 DEF LocalTransEnd
    <3> HIDE DEF s
    <3> QED BY <1>6, <3>2, <3>3
  <2>5. CASE ClientErr(c)
    <3> DEFINE s == [snd[c] EXCEPT !.deaf = TRUE]
    <3>1. s.pc # "connect" /\ snd' = [snd EXCEPT ![c] = s] /\ UNCHANGED <<conn, srv>>
      BY <1>1, <2>5 DEF ClientErr, Senders
    <3> HIDE DEF s
    <3> QED BY <1>6, <3>1
  <2> QED BY <1>7, <2>1, <2>2, <2>3, <2>4, <2>5 DEF ClientStep
<1>8. ASSUME NEW c \in Clients, SessionStep(c) PROVE Goal
  <2>1. UNCHANGED snd
    BY <1>8 DEF SessionStep, ProcTranReq, ProcTranEnd, RecvData, RecvGarbled,
                ProcFileData, RecvUnframed, SessionErr
  <2>2. \/ UNCHANGED <<conn, srv>>
        \/ \E how \in {"exited", "aborted"} :
             \E m \in {Rsp("ERROR"), End("SUCCESS"), End("ERROR")} :
               ServerExit(how, toClient) \/ ServerExit(how, Replied(c, m))
    <3>1. ASSUME NEW m, NEW r, ReplyAndGoOn(c, m, r)
          PROVE  UNCHANGED <<conn, srv>> \/ ServerExit("exited", toClient)
      BY <3>1 DEF ReplyAndGoOn
    <3>2. CASE ProcTranReq(c) BY <3>1, <3>2 DEF ProcTranReq
    <3>3. CASE ProcTranEnd(c) BY <3>3 DEF ProcTranEnd
    <3>4. ASSUME NEW r, NEW zero, Complete(c, r, zero)
          PROVE  \/ UNCHANGED <<conn, srv>> \/ ServerExit("exited", toClient)
                 \/ ServerExit("aborted", Replied(c, End("SUCCESS")))
      BY <3>1, <3>4 DEF Complete
    <3>5. ASSUME NEW bs, NEW insync, ProcFileData(c, bs, insync)
          PROVE  \/ UNCHANGED <<conn, srv>> \/ ServerExit("exited", toClient)
                 \/ ServerExit("aborted", toClient)
                 \/ ServerExit("exited", Replied(c, End("ERROR")))
                 \/ ServerExit("aborted", Replied(c, End("SUCCESS")))
      BY <3>4, <3>5 DEF ProcFileData
    <3>6. CASE RecvData(c) BY <3>5, <3>6 DEF RecvData
    <3>7. CASE RecvGarbled(c) BY <3>5, <3>7 DEF RecvGarbled
    <3>8. CASE RecvUnframed(c) BY <3>8 DEF RecvUnframed
    <3>9. CASE SessionErr(c) BY <3>9 DEF SessionErr
    <3> QED BY <1>8, <3>2, <3>3, <3>6, <3>7, <3>8, <3>9 DEF SessionStep
  <2> QED BY <1>3, <1>4, <2>1, <2>2
<1>9. ASSUME NEW c \in Clients, ConnReset(c) PROVE Goal
  <2>1. conn' = [conn EXCEPT ![c] = "down"] /\ UNCHANGED <<snd, srv>>
    BY <1>9 DEF ConnReset
  <2>2. conn'[d] = "up" => conn[d] = "up" BY <1>1, <2>1
  <2> QED BY <1>1, <2>1, <2>2 DEF ServerUp
<1>10. CASE UNCHANGED vars BY <1>3, <1>10 DEF vars
<1>11. ASSUME NEW c \in Clients, ClientKilled(c) PROVE Goal
  BY <1>5, <1>11 DEF ClientKilled
<1>12. ASSUME NEW c \in Clients, Resize(c) PROVE Goal
  BY <1>3, <1>12 DEF Resize
<1>13. CASE ServerKilled BY <1>4, <1>13 DEF ServerKilled
<1> QED BY <1>7, <1>8, <1>9, <1>10, <1>11, <1>12, <1>13 DEF Next

LEMMA NextKeepsEInv == EInv /\ [Next]_vars => EInv'
<1> SUFFICES ASSUME EInv, [Next]_vars PROVE EInv' OBVIOUS
<1>1. IInv' BY NextKeepsIInv DEF EInv
<1>2. Unstarted' BY OthersStay DEF EInv, Unstarted
<1>3. UpIfServed' BY OthersStay DEF UpIfServed
<1>4. \A c \in Clients : Expected(c)' => Faithful(c)' BY NextFaithful
<1> QED BY <1>1, <1>2, <1>3, <1>4 DEF EInv

LEMMA InitEstablishesEInv == Init => EInv
<1> SUFFICES ASSUME Init PROVE EInv OBVIOUS
<1>1. IInv BY InitEstablishesIInv
<1>2. Unstarted /\ UpIfServed BY DEF Init, Unstarted, UpIfServed
<1>3. ASSUME NEW c \in Clients PROVE Faithful(c)
  <2>1. /\ rcv[c] = NewSession /\ snd[c] = NewSender /\ conn[c] = "none"
        /\ toServer[c] = <<>> /\ toClient[c] = <<>> /\ fsize[c] \in Nat
    BY <1>1 DEF Init, IInv, SizesKept
  <2>2. Wrote(c)
    <3>1. Positions(0, 0) = <<>> BY DEF Positions
    <3> QED BY <2>1, <3>1 DEF Wrote, NewSession
  <2>3. Counts(c) BY <2>1 DEF Counts, NewSender
  <2>4. Stage(c) BY <2>1, EmptyQueue DEF Stage, Begun, NewSession, NewSender
  <2>5. Chain(c) /\ Purpose(c) BY <2>1, LinkedEmpty DEF Chain, Purpose
  <2> QED BY <2>2, <2>3, <2>4, <2>5 DEF Faithful
<1> QED BY <1>1, <1>2, <1>3 DEF EInv

-----------------------------------------------------------------------------
(* The files: what a session's own file holds is what it gave to fwrite.  *)

Held(c) ==
  LET f == files[path[c]] IN
  /\ rcv[c].file = "open" => c \in f.writers
  /\ snd[c].pc = "connect" => c \notin f.writers
  /\ OwnFile(c) => f.bytes = rcv[c].content

DInv == EInv /\ DiskOK /\ \A c \in Clients : Held(c)

LEMMA FileRecord ==
  ASSUME DiskOK, NEW c \in Clients
  PROVE  /\ path[c] \in Names /\ files[path[c]].bytes \in Seq(Nat)
         /\ files[path[c]].writers \in SUBSET Clients
         /\ files[path[c]] \in [bytes : Seq(Nat), writers : SUBSET Clients, cut : BOOLEAN]
<1>1. path[c] \in Names BY DEF DiskOK
<1> QED BY <1>1 DEF DiskOK

\* Steps that touch no file.
LEMMA QuietDisk ==
  ASSUME DInv, [Next]_vars, UNCHANGED disk,
         \A c \in Clients : /\ rcv'[c].file = "open" => rcv[c].file = "open"
                            /\ OwnFile(c) => rcv'[c].content = rcv[c].content
  PROVE  DiskOK' /\ \A c \in Clients : Held(c)'
<1>1. path' = path /\ files' = files BY DEF disk
<1>2. DiskOK' BY <1>1 DEF DInv, DiskOK
<1>3. ASSUME NEW c \in Clients PROVE Held(c)'
  <2>1. snd'[c].pc = "connect" => snd[c].pc = "connect" BY OthersStay DEF DInv
  <2>2. OwnFile(c)' <=> OwnFile(c) BY <1>1 DEF OwnFile
  <2>3. Held(c) BY DEF DInv
  <2> QED BY <1>1, <2>1, <2>2, <2>3 DEF Held
<1> QED BY <1>2, <1>3

\* fopen.
LEMMA OpenedDisk ==
  ASSUME DInv, [Next]_vars, NEW c \in Clients, FileOpened(c), UNCHANGED path,
         snd[c].pc # "connect",
         rcv'[c].content = <<>>, \A d \in Clients \ {c} : rcv'[d] = rcv[d]
  PROVE  DiskOK' /\ \A d \in Clients : Held(d)'
<1> DEFINE others == {d \in Clients : path[d] = path[c] /\ rcv[d].file = "open"}
           new == NewFile({c} \cup others)
<1>1. /\ new.bytes = <<>> /\ new.writers = {c} \cup others /\ new.cut = FALSE
      /\ new \in [bytes : Seq(Nat), writers : SUBSET Clients, cut : BOOLEAN]
  <2>1. {c} \cup others \in SUBSET Clients
    <3>1. others \subseteq Clients BY Zenon
    <3> HIDE DEF others, new
    <3> QED BY ONLY <3>1, c \in Clients
  <2>3. <<>> \in Seq(Nat) BY SMT
  <2>2. new = [bytes |-> <<>>, writers |-> {c} \cup others, cut |-> FALSE]
    BY DEF NewFile
  <2> HIDE DEF others, new
  <2> QED BY <2>1, <2>2, <2>3
<1>2. files' = [files EXCEPT ![path[c]] = new] /\ path' = path
  BY DEF FileOpened
<1>3. files \in [Names -> [bytes : Seq(Nat), writers : SUBSET Clients, cut : BOOLEAN]]
      /\ \A d \in Clients : path[d] \in Names
  BY FileRecord DEF DInv, DiskOK
<1>4. DiskOK' BY <1>1, <1>2, <1>3 DEF DInv, DiskOK
<1>5. ASSUME NEW d \in Clients PROVE Held(d)'
  <2>1. snd'[d].pc = "connect" => snd[d].pc = "connect" BY OthersStay DEF DInv
  <2>2. Held(d) BY DEF DInv
  <2>3. CASE path[d] # path[c]
    <3>1. files'[path'[d]] = files[path[d]] /\ path'[d] = path[d]
          /\ rcv'[d] = rcv[d]
      BY <1>2, <1>3, <2>3
    <3> HIDE DEF new
    <3> QED BY <2>1, <2>2, <3>1 DEF Held, OwnFile
  <2>4. CASE path[d] = path[c]
    <3>1. files'[path'[d]] = new BY <1>2, <1>3, <2>4
    <3>2. rcv'[d].file = "open" => d \in new.writers
      BY <1>1, <2>4
    <3>3. snd'[d].pc = "connect" => d \notin new.writers
      BY <1>1, <2>1, <2>2, <2>4 DEF Held
    <3>4. new.writers = {d} => rcv'[d].content = new.bytes
      BY <1>1
    <3> HIDE DEF new
    <3> QED BY <3>1, <3>2, <3>3, <3>4 DEF Held, OwnFile
  <2> QED BY <2>3, <2>4
<1> QED BY <1>4, <1>5

\* What fwrite leaves in a file of the session's own.
LEMMA StoredIs ==
  ASSUME DiskOK, NEW c \in Clients, NEW r, NEW old \in Seq(Nat), NEW bs \in Seq(Nat),
         rcv[c].content = old, r.content = old \o bs
  PROVE  /\ Stored(c, r) \in Seq(Nat)
         /\ files[path[c]].bytes = old => Stored(c, r) = r.content
<1> DEFINE held == files[path[c]].bytes
           full == old \o bs
           st == [i \in DOMAIN held \cup DOMAIN full |->
                    IF i \in DOMAIN full \ DOMAIN old THEN full[i]
                    ELSE IF i \in DOMAIN held THEN held[i] ELSE 0]
<1>1. held \in Seq(Nat) BY FileRecord
<1>2. Stored(c, r) = st BY DEF Stored
<1>3. /\ full \in Seq(Nat) /\ Len(full) = Len(old) + Len(bs)
      /\ \A i \in 1..Len(old) : full[i] = old[i]
  OBVIOUS
<1> HIDE DEF held, full
<1>4. DOMAIN held = 1..Len(held) /\ DOMAIN full = 1..Len(full)
      /\ DOMAIN old = 1..Len(old) /\ Len(held) \in Nat /\ Len(full) \in Nat
      /\ Len(old) \in Nat /\ Len(bs) \in Nat
  BY <1>1, <1>3
<1>5. \A i \in DOMAIN held \cup DOMAIN full : st[i] \in Nat
  BY <1>1, <1>3, <1>4
<1>6. PICK n \in Nat : DOMAIN held \cup DOMAIN full = 1..n
  <2>1. CASE Len(held) <= Len(full)
    <3>1. DOMAIN held \cup DOMAIN full = 1..Len(full) BY <1>4, <2>1
    <3> QED BY <1>4, <3>1
  <2>2. CASE Len(full) <= Len(held)
    <3>1. DOMAIN held \cup DOMAIN full = 1..Len(held) BY <1>4, <2>2
    <3> QED BY <1>4, <3>1
  <2>3. Len(held) <= Len(full) \/ Len(full) <= Len(held) BY <1>4
  <2> QED BY <2>1, <2>2, <2>3
<1>7. st \in Seq(Nat)
  <2>1. st \in [1..n -> Nat] BY <1>5, <1>6
  <2> HIDE DEF st
  <2> QED BY <2>1, <1>6
<1>8. ASSUME held = old PROVE st = full
  <2>1. DOMAIN held \cup DOMAIN full = DOMAIN full BY <1>3, <1>4, <1>8
  <2>2. \A i \in DOMAIN full : st[i] = full[i]
    BY <1>3, <1>4, <1>8, <2>1
  <2>3. st = [i \in DOMAIN full |-> st[i]] BY <2>1
  <2>4. full = [i \in DOMAIN full |-> full[i]] BY <1>3
  <2> HIDE DEF st
  <2> QED BY <2>2, <2>3, <2>4
<1> HIDE DEF st
<1>9. held = old => Stored(c, r) = full BY <1>2, <1>8
<1> QED BY <1>2, <1>7, <1>9 DEF held, full

\* fwrite, and fclose too.
LEMMA WrittenDisk ==
  ASSUME DInv, [Next]_vars, NEW c \in Clients, UNCHANGED path, rcv[c].file = "open",
         NEW r, NEW bs \in Seq(Nat), r.content = rcv[c].content \o bs,
         \/ FileWritten(c, r) /\ rcv'[c].content = r.content
         \/ FileCut(c),
         \A d \in Clients \ {c} : rcv'[d] = rcv[d]
  PROVE  DiskOK' /\ \A d \in Clients : Held(d)'
<1> DEFINE f == files[path[c]]
<1>1. /\ files \in [Names -> [bytes : Seq(Nat), writers : SUBSET Clients, cut : BOOLEAN]]
      /\ \A d \in Clients : path[d] \in Names
      /\ DiskOK /\ path' = path
      /\ f \in [bytes : Seq(Nat), writers : SUBSET Clients, cut : BOOLEAN]
  BY FileRecord DEF DInv, DiskOK
<1>2. rcv[c].content \in Seq(Nat)
  BY DEF DInv, EInv, IInv, ProcessesOK, Sessions
<1>3. Stored(c, r) \in Seq(Nat) /\ (f.bytes = rcv[c].content => Stored(c, r) = r.content)
  BY <1>1, <1>2, StoredIs
<1>4. PICK g \in [bytes : Seq(Nat), writers : SUBSET Clients, cut : BOOLEAN] :
        /\ files' = [files EXCEPT ![path[c]] = g]
        /\ g.writers = f.writers
        /\ ~g.cut => ~f.cut /\ g.bytes = Stored(c, r) /\ rcv'[c].content = r.content
  <2>1. CASE FileWritten(c, r) /\ rcv'[c].content = r.content
    <3> DEFINE st == Stored(c, r)
               g == [f EXCEPT !.bytes = st]
    <3>1. files' = [files EXCEPT ![path[c]] = g] BY <2>1 DEF FileWritten
    <3>2. st \in Seq(Nat) BY <1>3
    <3> HIDE DEF st, f
    <3>3. /\ g \in [bytes : Seq(Nat), writers : SUBSET Clients, cut : BOOLEAN]
          /\ g.writers = f.writers /\ g.cut = f.cut /\ g.bytes = st
      BY <1>1, <3>2
    <3> HIDE DEF g
    <3> QED BY <2>1, <3>1, <3>3 DEF st
  <2>2. CASE FileCut(c)
    <3> DEFINE g == [f EXCEPT !.cut = TRUE]
    <3>1. files' = [files EXCEPT ![path[c]] = g] BY <2>2 DEF FileCut
    <3> HIDE DEF f
    <3>3. /\ g \in [bytes : Seq(Nat), writers : SUBSET Clients, cut : BOOLEAN]
          /\ g.writers = f.writers /\ g.cut
      BY <1>1
    <3> HIDE DEF g
    <3> QED BY <3>1, <3>3
  <2> QED BY <2>1, <2>2
<1> HIDE DEF f
<1>5. DiskOK' BY <1>1, <1>4 DEF DiskOK
<1>6. c \in f.writers BY DEF DInv, Held, f
<1>7. ASSUME NEW d \in Clients PROVE Held(d)'
  <2>1. snd'[d].pc = "connect" => snd[d].pc = "connect" BY OthersStay DEF DInv
  <2>2. Held(d) BY DEF DInv
  <2>3. CASE path[d] # path[c]
    <3>1. files'[path'[d]] = files[path[d]] /\ path'[d] = path[d]
          /\ rcv'[d] = rcv[d]
      BY <1>1, <1>4, <2>3
    <3> QED BY <2>1, <2>2, <3>1 DEF Held, OwnFile
  <2>4. CASE path[d] = path[c]
    <3>1. files'[path'[d]] = g /\ files[path[d]] = f BY <1>1, <1>4, <2>4 DEF f
    <3>2. rcv'[d].file = "open" => d \in f.writers
      BY <1>6, <2>2, <3>1 DEF Held
    <3>3. snd[d].pc = "connect" => d \notin f.writers
      BY <2>2, <3>1 DEF Held
    <3>4. g.writers = {d} /\ ~g.cut => g.bytes = rcv'[d].content
      <4>1. SUFFICES ASSUME g.writers = {d}, ~g.cut PROVE g.bytes = rcv'[d].content
        OBVIOUS
      <4>2. d = c BY <1>4, <1>6, <4>1
      <4>3. f.bytes = rcv[c].content
        BY <1>4, <2>2, <3>1, <4>1, <4>2 DEF Held, OwnFile
      <4> QED BY <1>3, <1>4, <4>1, <4>2, <4>3
    <3> QED BY <1>4, <2>1, <3>1, <3>2, <3>3, <3>4 DEF Held, OwnFile
  <2> QED BY <2>3, <2>4
<1> QED BY <1>5, <1>7

\* What a handler of the session does to its record and to its file.
LEMMA ReplyUpdates ==
  ASSUME NEW c, NEW m, NEW r, ReplyAndGoOn(c, m, r)
  PROVE  rcv' = [rcv EXCEPT ![c] = r]
BY DEF ReplyAndGoOn

LEMMA UpdateOne ==
  ASSUME DInv, NEW c \in Clients, NEW x, rcv' = [rcv EXCEPT ![c] = x]
  PROVE  rcv'[c] = x /\ \A d \in Clients \ {c} : rcv'[d] = rcv[d]
BY DEF DInv, EInv, IInv, ProcessesOK

\* A session goes on as x, which has not opened a file, and touches none.
LEMMA QuietSession ==
  ASSUME DInv, [Next]_vars, UNCHANGED disk, NEW c \in Clients, NEW x,
         rcv' = [rcv EXCEPT ![c] = x], x.content = rcv[c].content,
         x.file = "open" => rcv[c].file = "open"
  PROVE  DiskOK' /\ \A d \in Clients : Held(d)'
<1>1. rcv'[c] = x /\ \A d \in Clients \ {c} : rcv'[d] = rcv[d] BY UpdateOne
<1>2. ASSUME NEW d \in Clients
      PROVE  /\ rcv'[d].file = "open" => rcv[d].file = "open"
             /\ rcv'[d].content = rcv[d].content
  BY <1>1
<1> QED BY <1>2, QuietDisk

LEMMA ReqDisk ==
  ASSUME DInv, [Next]_vars, NEW c \in Clients, ProcTranReq(c)
  PROVE  DiskOK' /\ \A d \in Clients : Held(d)'
<1>1. rcv[c] \in Sessions /\ rcv = [rcv EXCEPT ![c] = rcv[c]]
  BY SessionFields DEF DInv, EInv
<1>2. UNCHANGED path /\ snd[c].pc # "connect"
  BY DEF ProcTranReq, Arrived, DInv, EInv, IInv, Fresh
<1>3. CASE UNCHANGED <<rcv, files>>
  BY <1>1, <1>2, <1>3, QuietSession DEF disk
<1>4. CASE /\ FileOpened(c)
           /\ ReplyAndGoOn(c, Rsp("SUCCESS"),
                [rcv[c] EXCEPT !.status = "SENDING", !.file = "open", !.content = <<>>,
                               !.size = Head(toServer[c]).size])
  <2> DEFINE n == Head(toServer[c]).size
             r == [rcv[c] EXCEPT !.status = "SENDING", !.file = "open", !.content = <<>>,
                                 !.size = n]
  <2>1. rcv' = [rcv EXCEPT ![c] = r] BY <1>4, ReplyUpdates
  <2>2. r.content = <<>>
    <3> HIDE DEF n
    <3> QED BY <1>1 DEF Sessions
  <2> HIDE DEF r
  <2>3. rcv'[c] = r /\ \A d \in Clients \ {c} : rcv'[d] = rcv[d] BY <2>1, UpdateOne
  <2> QED BY <1>2, <1>4, <2>2, <2>3, OpenedDisk
<1>5. CASE rcv' = [rcv EXCEPT ![c].status = "CONNECTED"] /\ UNCHANGED files
  <2> DEFINE r == [rcv[c] EXCEPT !.status = "CONNECTED"]
  <2>1. r.content = rcv[c].content /\ r.file = rcv[c].file BY <1>1 DEF Sessions
  <2>2. rcv' = [rcv EXCEPT ![c] = r] BY <1>5
  <2> HIDE DEF r
  <2> QED BY <1>2, <1>5, <2>1, <2>2, QuietSession DEF disk
<1> QED BY <1>3, <1>4, <1>5 DEF ProcTranReq

LEMMA DataDisk ==
  ASSUME DInv, [Next]_vars, NEW c \in Clients, NEW bs \in Seq(Nat),
         NEW insync \in BOOLEAN, ProcFileData(c, bs, insync)
  PROVE  DiskOK' /\ \A d \in Clients : Held(d)'
<1> DEFINE w == U32(rcv[c].written + Len(bs))
           r == [rcv[c] EXCEPT !.written = w, !.content = @ \o bs, !.synced = insync]
           full == [r EXCEPT !.file = "null", !.done = TRUE]
           again == [full EXCEPT !.status = "INIT", !.size = 0, !.written = 0]
           shut == [r EXCEPT !.file = "closed"]
<1>1. rcv[c] \in Sessions /\ rcv = [rcv EXCEPT ![c] = rcv[c]]
  BY SessionFields DEF DInv, EInv
<1>2. UNCHANGED path BY DEF ProcFileData
<1>3. /\ r.content = rcv[c].content \o bs /\ full.content = r.content
      /\ again.content = r.content /\ shut.content = r.content
  <2>1. DOMAIN rcv[c] = {"status", "file", "size", "written", "content", "done", "synced"}
    BY <1>1 DEF Sessions
  <2> HIDE DEF w
  <2> QED BY <2>1
<1>4. CASE UNCHANGED <<rcv, files>>
  <2> HIDE DEF r
  <2> QED BY <1>1, <1>2, <1>4, QuietSession DEF disk
\* The session wrote r and goes on as x, or something was lost.
<1>5. ASSUME rcv[c].file = "open", NEW x, rcv' = [rcv EXCEPT ![c] = x],
             \/ FileWritten(c, r) /\ x.content = r.content
             \/ FileCut(c)
      PROVE  DiskOK' /\ \A d \in Clients : Held(d)'
  <2> HIDE DEF r
  <2>1. rcv'[c] = x /\ \A d \in Clients \ {c} : rcv'[d] = rcv[d] BY <1>5, UpdateOne
  <2> QED BY <1>2, <1>3, <1>5, <2>1, WrittenDisk
<1>6. ASSUME rcv[c].file = "open", NEW zero \in BOOLEAN, Complete(c, r, zero)
      PROVE  DiskOK' /\ \A d \in Clients : Held(d)'
  <2>1. FileWritten(c, r) \/ FileCut(c) BY <1>6 DEF Complete
  <2>2. rcv' = [rcv EXCEPT ![c] = full] \/ rcv' = [rcv EXCEPT ![c] = again]
    BY <1>6, ReplyUpdates DEF Complete
  <2> HIDE DEF r, full, again
  <2> QED BY <1>3, <1>5, <1>6, <2>1, <2>2
<1>7. CASE rcv[c].file = "open" /\ FileWritten(c, r) /\ rcv' = [rcv EXCEPT ![c] = r]
  <2> HIDE DEF r
  <2> QED BY <1>5, <1>7
<1>8. CASE rcv[c].file = "open" /\ FileWritten(c, r) /\ rcv' = [rcv EXCEPT ![c] = shut]
  <2> HIDE DEF r, shut
  <2> QED BY <1>3, <1>5, <1>8
<1>9. CASE rcv[c].file = "open" /\ FileCut(c) /\ rcv' = [rcv EXCEPT ![c].file = "closed"]
  <2>1. rcv' = [rcv EXCEPT ![c] = [rcv[c] EXCEPT !.file = "closed"]] BY <1>9
  <2> HIDE DEF r
  <2> QED BY <1>5, <1>9, <2>1
<1> QED BY <1>4, <1>6, <1>7, <1>8, <1>9 DEF ProcFileData

LEMMA RecvDisk ==
  ASSUME DInv, [Next]_vars, NEW c \in Clients, RecvData(c) \/ RecvGarbled(c)
  PROVE  DiskOK' /\ \A d \in Clients : Held(d)'
<1> DEFINE m == Head(toServer[c])
<1>1. m \in Messages /\ m.type = "DATA"
  BY Arrivals DEF RecvData, RecvGarbled, DInv, EInv
<1>2. m.after \in Nat /\ m.len \in Nat /\ m.len - 1 \in Nat
  BY <1>1, BoundsAssumption DEF Messages
<1>3. \A n \in Nat : Positions(m.after, n) \in Seq(Nat)
  <2> SUFFICES ASSUME NEW n \in Nat PROVE Positions(m.after, n) \in Seq(Nat)
    OBVIOUS
  <2> HIDE DEF m
  <2>1. \A i \in 1..n : m.after + i \in Nat BY <1>2
  <2> QED BY <2>1 DEF Positions
<1>4. CASE RecvData(c)
  <2>1. ProcFileData(c, Positions(m.after, m.len), TRUE) BY <1>4 DEF RecvData
  <2> HIDE DEF m
  <2> QED BY <1>2, <1>3, <2>1, DataDisk
<1>5. CASE RecvGarbled(c)
  <2>1. ProcFileData(c, Append(Positions(m.after, m.len - 1), 0), FALSE)
    BY <1>5 DEF RecvGarbled
  <2> HIDE DEF m
  <2>2. Append(Positions(m.after, m.len - 1), 0) \in Seq(Nat)
    <3>1. Positions(m.after, m.len - 1) \in Seq(Nat) BY <1>2, <1>3
    <3> QED BY <3>1
  <2> QED BY <2>1, <2>2, DataDisk
<1> QED BY <1>4, <1>5

LEMMA NextDisk ==
  ASSUME DInv, [Next]_vars
  PROVE  DiskOK' /\ \A d \in Clients : Held(d)'
<1>1. ASSUME UNCHANGED <<rcv, disk>> PROVE DiskOK' /\ \A d \in Clients : Held(d)'
  BY <1>1, QuietDisk
<1>2. ASSUME NEW c \in Clients, StartTransf(c)
      PROVE  DiskOK' /\ \A d \in Clients : Held(d)'
  <2>1. UNCHANGED disk /\ rcv' = [rcv EXCEPT ![c] = NewSession] /\ snd[c].pc = "connect"
    BY <1>2 DEF StartTransf
  <2>2. rcv'[c] = NewSession /\ \A d \in Clients \ {c} : rcv'[d] = rcv[d]
    BY <2>1, UpdateOne
  <2>3. ~OwnFile(c) BY <2>1 DEF DInv, Held, OwnFile
  <2>4. NewSession.file # "open" BY DEF NewSession
  <2> QED BY <2>1, <2>2, <2>3, <2>4, QuietDisk
<1>3. ASSUME NEW c \in Clients, ClientStep(c) PROVE UNCHANGED <<rcv, disk>> \/ StartTransf(c)
  BY <1>3 DEF ClientStep, ProcTranRsp, ProcTranEndC, SendChunk, LocalTransEnd, ClientErr
<1>4. ASSUME NEW c \in Clients, Resize(c) \/ ClientKilled(c) \/ ConnReset(c)
      PROVE  UNCHANGED <<rcv, disk>>
  BY <1>4 DEF Resize, ClientKilled, ConnReset
<1>5. ServerKilled => UNCHANGED <<rcv, disk>> BY DEF ServerKilled
<1>6. ASSUME NEW c \in Clients, ProcTranEnd(c) \/ RecvUnframed(c) \/ SessionErr(c)
      PROVE  DiskOK' /\ \A d \in Clients : Held(d)'
  <2>1. rcv[c] \in Sessions BY SessionFields DEF DInv, EInv
  <2>2. UNCHANGED disk BY <1>6 DEF ProcTranEnd, RecvUnframed, SessionErr
  <2> DEFINE r == [rcv[c] EXCEPT !.file = IF @ = "open" THEN "closed" ELSE @]
             gone == [rcv[c] EXCEPT !.status = "GONE"]
  <2>3. UNCHANGED rcv \/ rcv' = [rcv EXCEPT ![c] = r] \/ rcv' = [rcv EXCEPT ![c] = gone]
    BY <1>6 DEF ProcTranEnd, RecvUnframed, SessionErr
  <2>4. /\ r.content = rcv[c].content /\ r.file # "open"
        /\ gone.content = rcv[c].content /\ gone.file = rcv[c].file
    BY <2>1 DEF Sessions
  <2> HIDE DEF r, gone
  <2> QED BY <1>1, <2>2, <2>3, <2>4, QuietSession
<1>7. ASSUME NEW c \in Clients, SessionStep(c)
      PROVE  DiskOK' /\ \A d \in Clients : Held(d)'
  BY <1>6, <1>7, ReqDisk, RecvDisk DEF SessionStep
<1>8. UNCHANGED vars => UNCHANGED <<rcv, disk>> BY DEF vars
<1> QED BY <1>1, <1>2, <1>3, <1>4, <1>5, <1>7, <1>8 DEF Next

LEMMA NextKeepsDInv == DInv /\ [Next]_vars => DInv'
BY NextDisk, NextKeepsEInv DEF DInv

LEMMA InitEstablishesDInv == Init => DInv
<1> SUFFICES ASSUME Init PROVE DInv OBVIOUS
<1>1. EInv BY InitEstablishesEInv
<1>2. DiskOK
  <2>1. path \in [Clients -> Names] /\ files = [n \in Names |-> NewFile({})] BY DEF Init
  <2>2. NewFile({}) \in [bytes : Seq(Nat), writers : SUBSET Clients, cut : BOOLEAN]
    BY DEF NewFile
  <2> QED BY <2>1, <2>2 DEF DiskOK
<1>3. ASSUME NEW c \in Clients PROVE Held(c)
  <2>1. files[path[c]] = NewFile({}) BY <1>2, FileRecord DEF Init
  <2>2. rcv[c].file = "garbage" BY DEF Init, NewSession
  <2> QED BY <2>1, <2>2 DEF Held, OwnFile, NewFile
<1> QED BY <1>1, <1>2, <1>3 DEF DInv

LEMMA DInvImpliesExact == DInv => Exact
<1> SUFFICES ASSUME DInv PROVE Exact OBVIOUS
<1>0. EInv /\ TypeOK BY DEF DInv, EInv, IInv, TypeOK
<1> USE <1>0
<1>1. ProcessesOK BY DEF EInv, IInv
<1>2. NothingLost
  <2> SUFFICES ASSUME NEW c \in Clients, Expected(c), conn[c] = "up"
               PROVE  /\ rcv[c].content = Positions(0, Edge(c, 1))
                      /\ \A i \in DOMAIN toServer[c] :
                           LET m == toServer[c][i] IN
                           m.type = "DATA" => m.after + m.len = Edge(c, i + 1)
    BY DEF NothingLost
  <2>1. Wrote(c) /\ Chain(c) BY DEF EInv, Faithful, UpIfServed
  <2>2. \A i : Edge(c, i) = EdgeOf(toServer[c], snd[c].pos, i) BY DEF Edge, EdgeOf
  <2>3. rcv[c].content = Positions(0, Edge(c, 1)) BY <2>1, <2>2 DEF Wrote, Chain
  <2>4. ASSUME NEW i \in DOMAIN toServer[c], toServer[c][i].type = "DATA"
        PROVE  Stop(toServer[c][i]) = Edge(c, i + 1)
    <3>1. /\ toServer[c] \in Seq(Messages) /\ i \in 1..Len(toServer[c])
          /\ Len(toServer[c]) \in Nat
      BY <1>1, <2>4 DEF ProcessesOK
    <3>2. CASE i < Len(toServer[c])
      BY <2>1, <2>2, <2>4, <3>2 DEF Chain, Linked
    <3>3. CASE i = Len(toServer[c])
      <4>1. toServer[c] # <<>> BY <3>1
      <4>2. Stop(toServer[c][i]) = snd[c].pos BY <2>1, <2>4, <3>3, <4>1 DEF Chain, Ends
      <4>3. i + 1 > Len(toServer[c]) BY <3>1, <3>3
      <4> QED BY <4>2, <4>3 DEF Edge
    <3> QED BY <3>1, <3>2, <3>3
  <2> QED BY <2>3, <2>4 DEF Stop
<1>3. CompleteIsExact
  <2> SUFFICES ASSUME NEW c \in Clients, Expected(c), rcv[c].done
               PROVE  /\ rcv[c].content = Positions(0, fsize[c])
                      /\ OwnFile(c) => files[path[c]].bytes = Positions(0, fsize[c])
    BY DEF CompleteIsExact
  <2>1. rcv[c].content = Positions(0, fsize[c]) BY DEF EInv, Faithful, Wrote
  <2>2. OwnFile(c) => files[path[c]].bytes = rcv[c].content BY DEF DInv, Held
  <2> QED BY <2>1, <2>2
<1>4. NoFalseAlarm
  <2> SUFFICES ASSUME NEW c \in Clients, Expected(c)
               PROVE  /\ Arrived(c, "DATA") =>
                           /\ rcv[c].file = "open"
                           /\ rcv[c].written + Head(toServer[c]).len <= rcv[c].size
                      /\ Arrived(c, "END") /\ Head(toServer[c]).code = "SUCCESS" =>
                           rcv[c].done
    BY DEF NoFalseAlarm
  <2>1. ASSUME Arrived(c, "DATA")
        PROVE  /\ rcv[c].file = "open"
               /\ rcv[c].written + Head(toServer[c]).len <= rcv[c].size
    <3>1. ServerUp /\ toServer[c] # <<>> /\ Head(toServer[c]).type = "DATA"
      BY <2>1 DEF Arrived
    <3>2. Writing(c) /\ Stop(Head(toServer[c])) <= fsize[c] BY <2>1, FirstData
    <3>3. Head(toServer[c]).after = Len(rcv[c].content) BY <3>1, FirstMessage
    <3> QED BY <3>2, <3>3 DEF Writing, Stop
  <2>2. ASSUME Arrived(c, "END"), Head(toServer[c]).code = "SUCCESS"
        PROVE  rcv[c].done
    <3>1. /\ ServerUp /\ toServer[c] # <<>> /\ Head(toServer[c]).type = "END"
          /\ rcv[c].status # "GONE"
      BY <2>2 DEF Arrived
    <3>2. snd[c].pos = Len(rcv[c].content) /\ snd[c].pos = fsize[c]
          /\ (Writing(c) \/ rcv[c].done)
      BY <2>2, <3>1, FirstMessage
    <3>3. ~Writing(c)
      BY <3>2 DEF Writing, EInv, IInv, SizesKept
    <3> QED BY <3>2, <3>3
  <2> QED BY <2>1, <2>2
<1> QED BY <1>1, <1>2, <1>3, <1>4 DEF Exact

\* For every number of clients, every file and every chunk size, whatever happens
\* to the processes, the connections and the other sessions: a transfer that is as
\* FileSend and FileRecv expect loses no byte on its way to fwrite, a file declared
\* complete that no other session had open and that fclose did not cut is the
\* source file, and procFileData's checks do not end the process.
THEOREM FileTransferExact == Spec => []Exact
<1> QED BY InitEstablishesDInv, NextKeepsDInv, DInvImpliesExact, PTL DEF Spec
===============================================================================
