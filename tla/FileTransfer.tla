----------------------------- MODULE FileTransfer -----------------------------
(***************************************************************************)
(* The file transfer of src/core/file over TCP: clients that each send one *)
(* file (FileSend, inside FileTcpClient) to one server process (FileRecv,  *)
(* one per FileSession).  A message is what StickyPacket hands on: framing *)
(* is in StickyPacket.tla.  A byte of a file is named by its position, so  *)
(* a DATA message is the interval of positions it carries and what the     *)
(* server wrote is a sequence of positions.  Clients may name one path.    *)
(***************************************************************************)
EXTENDS Integers, Sequences, FiniteSets, Functions

CONSTANTS
  Clients,        \* client processes, each with its own connection
  Sizes,          \* for each client, the sizes its source file may have
  Paths,          \* for each client, the paths it may ask the server to write
  Chunk,          \* payload bytes of a full DATA message: _snd_buf_mtu - 8
  Word,           \* 2^32: sizes and lengths are kept in uint32_t
  Window,         \* bound: messages the connection holds before send blocks
  MaxChanges,     \* bound: times another program resizes a source file
  Faulty          \* clients whose process may be killed, whose connection may
                  \* be reset or stall until send_tcp_data gives up, and whose
                  \* file may be resized; the server may be killed if there are any

ASSUME SizesAssumption == Sizes \in [Clients -> SUBSET Nat]
ASSUME PathsAssumption == DOMAIN Paths = Clients
ASSUME BoundsAssumption == /\ Chunk \in Nat \ {0}
                           /\ Word \in Nat \ {0}
                           /\ Window \in Nat \ {0}
                           /\ MaxChanges \in Nat
ASSUME FaultsAssumption == Faulty \subseteq Clients

VARIABLES
  fsize,      \* size of each client's source file, as stat sees it
  changes,    \* how often it was resized
  snd,        \* FileSend of each client
  rcv,        \* FileRecv of each session
  srv,        \* the server process
  conn,       \* the connection of each client
  toServer,   \* messages on their way to the session
  toClient,   \* messages on their way to the client
  path,       \* where each client wants its file: its directory and file name
  files       \* the server's files, by path

disk == <<path, files>>
vars == <<fsize, changes, snd, rcv, srv, conn, toServer, toClient, disk>>

U32(n) == n % Word
Least(a, b) == IF a < b THEN a ELSE b
Prefixes(s) == {SubSeq(s, 1, n) : n \in 0..Len(s)}

Codes    == {"SUCCESS", "ERROR"}
Req(n)   == [type |-> "REQ", size |-> n]
Rsp(c)   == [type |-> "RSP", code |-> c]
End(c)   == [type |-> "END", code |-> c]
\* The n bytes after position p; whole is FALSE when only part was sent.
Data(p, n, whole) == [type |-> "DATA", after |-> p, len |-> n, whole |-> whole]

Positions(p, n) == [i \in 1..n |-> p + i]

\* pc: "connect", "poll" (in epoll_wait), "loop" (in the lambda of procTranRsp),
\* "failed" (the loop ended on a send error), "exited".  short, told: history, a
\* message was sent in part, END was sent.
NewSender == [pc |-> "connect", status |-> "INIT", pos |-> 0, sent |-> 0,
              goal |-> 0, short |-> FALSE, told |-> FALSE, deaf |-> FALSE]

\* file: _write_file, not initialised by the constructor.  content, done:
\* history, the bytes given to fwrite since fopen and whether they were declared
\* complete.  synced is FALSE once a partial message has shifted the stream.
NewSession == [status |-> "INIT", file |-> "garbage", size |-> 0, written |-> 0,
               content |-> <<>>, done |-> FALSE, synced |-> TRUE]

\* bytes: what the file holds when its streams are flushed.  History: writers,
\* the sessions that had it open since it was emptied last; cut, whether a write
\* or fclose failed since then.
Names == UNION Range(Paths)
NewFile(by) == [bytes |-> <<>>, writers |-> by, cut |-> FALSE]

Init == /\ fsize \in {f \in [Clients -> UNION Range(Sizes)] :
                       \A c \in Clients : f[c] \in Sizes[c]}
        /\ changes = [c \in Clients |-> 0]
        /\ snd = [c \in Clients |-> NewSender]
        /\ rcv = [c \in Clients |-> NewSession]
        /\ srv = "running"
        /\ conn = [c \in Clients |-> "none"]
        /\ toServer = [c \in Clients |-> <<>>]
        /\ toClient = [c \in Clients |-> <<>>]
        /\ path \in {f \in [Clients -> Names] : \A c \in Clients : f[c] \in Paths[c]}
        /\ files = [n \in Names |-> NewFile({})]

ServerUp == srv = "running"
-----------------------------------------------------------------------------
(* Processes that end, connections that break.  What was sent and not yet  *)
(* received is lost from some point on; the peer reads the rest, then EOF. *)

\* exit(1) of client c.
ClientExit(c) ==
  /\ snd' = [snd EXCEPT ![c].pc = "exited"]
  /\ conn' = [conn EXCEPT ![c] = "down"]
  /\ \E s \in Prefixes(toServer[c]) : toServer' = [toServer EXCEPT ![c] = s]
  /\ toClient' = [toClient EXCEPT ![c] = <<>>]

\* exit(1) ("exited") or a failed assert ("aborted"): it ends every session.
\* replies is toClient with what the handler sent before.
ServerExit(how, replies) ==
  /\ srv' = how
  /\ conn' = [c \in Clients |-> IF conn[c] = "up" THEN "down" ELSE conn[c]]
  /\ toServer' = [c \in Clients |-> <<>>]
  /\ toClient' \in {f \in [Clients -> UNION {Prefixes(replies[c]) : c \in Clients}] :
                      \A c \in Clients : f[c] \in Prefixes(replies[c])}

\* SendSignalMsg on a connection that is up, or whose end is not known yet.
Replied(c, m) == IF conn[c] = "up" THEN [toClient EXCEPT ![c] = Append(@, m)]
                                   ELSE toClient

\* The kernel takes a message of client c (and loses it if the peer is gone).
Took(c, m) == toServer' = IF conn[c] = "up"
                          THEN [toServer EXCEPT ![c] = Append(@, m)]
                          ELSE toServer
Room(c) == conn[c] = "up" => Len(toServer[c]) < Window
\* send_tcp_data stopped early: an error, or 10000 times EAGAIN.
GaveUp(c) == conn[c] = "down" \/ (c \in Faulty /\ ~Room(c))
-----------------------------------------------------------------------------
(* FileSend, on the client's epoll thread                                  *)

\* onSockConnect, then StartTransf.
StartTransf(c) ==
  /\ snd[c].pc = "connect" /\ ServerUp
  /\ IF U32(fsize[c]) = 0
     THEN snd' = [snd EXCEPT ![c].pc = "exited", ![c].status = "CONNECTED"]
          /\ conn' = [conn EXCEPT ![c] = "down"]
          /\ UNCHANGED toServer
     ELSE snd' = [snd EXCEPT ![c].pc = "poll", ![c].status = "CONNECTED"]
          /\ conn' = [conn EXCEPT ![c] = "up"]
          /\ toServer' = [toServer EXCEPT ![c] = <<Req(U32(fsize[c]))>>]
  /\ rcv' = [rcv EXCEPT ![c] = NewSession]
  /\ UNCHANGED <<fsize, changes, srv, toClient, disk>>

\* The client's thread is in epoll_wait, its socket has a message.
Dispatching(c, type) == /\ snd[c].pc = "poll" /\ ~snd[c].deaf
                        /\ toClient[c] # <<>> /\ Head(toClient[c]).type = type
Dispatched(c) == toClient' = [toClient EXCEPT ![c] = Tail(@)]

\* procTranRsp up to the loop.  _send_poller has no thread, so its async runs
\* the lambda here and now.
ProcTranRsp(c) ==
  /\ Dispatching(c, "RSP")
  /\ IF Head(toClient[c]).code = "ERROR"
     THEN ClientExit(c)
     ELSE /\ \/ /\ snd[c].status # "CONNECTED"
                /\ UNCHANGED <<snd, conn, toServer>> /\ Dispatched(c)
             \/ /\ snd[c].status = "CONNECTED" /\ U32(fsize[c]) # 0
                /\ snd' = [snd EXCEPT ![c].pc = "loop", ![c].status = "SENDING",
                                      ![c].goal = U32(fsize[c])]
                /\ UNCHANGED <<conn, toServer>> /\ Dispatched(c)
             \/ /\ snd[c].status = "CONNECTED" /\ U32(fsize[c]) = 0
                /\ ClientExit(c)
  /\ UNCHANGED <<fsize, changes, rcv, srv, disk>>

ProcTranEndC(c) ==
  /\ Dispatching(c, "END")
  /\ IF Head(toClient[c]).code = "ERROR"
     THEN ClientExit(c)
     ELSE Dispatched(c) /\ UNCHANGED <<snd, conn, toServer>>
  /\ UNCHANGED <<fsize, changes, rcv, srv, disk>>

\* One turn of the loop: fread got n bytes.
SendChunk(c) ==
  LET n == Least(Chunk, fsize[c] - snd[c].pos) IN
  /\ snd[c].pc = "loop" /\ n > 0
  /\ \/ /\ Room(c)
        /\ Took(c, Data(snd[c].pos, n, TRUE))
        /\ snd' = [snd EXCEPT ![c].pos = @ + n, ![c].sent = U32(@ + n)]
     \/ /\ GaveUp(c)                     \* part of it was sent: len # 0
        /\ Took(c, Data(snd[c].pos, n, FALSE))
        /\ snd' = [snd EXCEPT ![c].pos = @ + n, ![c].sent = U32(@ + n),
                              ![c].short = TRUE]
     \/ /\ GaveUp(c)                     \* nothing was sent: len = 0
        /\ snd' = [snd EXCEPT ![c].pc = "failed"]
        /\ UNCHANGED toServer
  /\ UNCHANGED <<fsize, changes, rcv, srv, conn, toClient, disk>>

\* Mutant of LocalTransEnd: the code stays ERROR_SUCCESS when the send failed.
LocalTransEnd_SuccessCode(c) ==
  /\ \/ snd[c].pc = "failed"
     \/ snd[c].pc = "loop" /\ snd[c].pos >= fsize[c]
  /\ LET over == snd[c].sent = snd[c].goal IN
     \E told \in BOOLEAN :
       /\ snd' = [snd EXCEPT ![c].pc = "poll", ![c].told = told,
                             ![c].status = IF over THEN "SEND_OVER" ELSE "SEND_FAIL"]
       /\ IF told THEN Room(c) /\ Took(c, End("SUCCESS"))
                  ELSE GaveUp(c) /\ UNCHANGED toServer
  /\ UNCHANGED <<fsize, changes, rcv, srv, conn, toClient, disk>>

\* After the loop, and localTransEnd, which runs at once on the same thread;
\* whether END could be sent is not looked at.
LocalTransEnd(c) ==
  /\ \/ snd[c].pc = "failed"
     \/ snd[c].pc = "loop" /\ snd[c].pos >= fsize[c]
  /\ LET over == snd[c].sent = snd[c].goal IN
     \E told \in BOOLEAN :
       /\ snd' = [snd EXCEPT ![c].pc = "poll", ![c].told = told,
                             ![c].status = IF over THEN "SEND_OVER" ELSE "SEND_FAIL"]
       /\ IF told THEN Room(c) /\ Took(c, End(IF over THEN "SUCCESS" ELSE "ERROR"))
                  ELSE GaveUp(c) /\ UNCHANGED toServer
  /\ UNCHANGED <<fsize, changes, rcv, srv, conn, toClient, disk>>

\* EOF or an error on the client's socket: FileTcpClient::onError does nothing,
\* closeSock(false) stops the events; the process stays.
ClientErr(c) ==
  /\ snd[c].pc = "poll" /\ ~snd[c].deaf /\ conn[c] = "down" /\ toClient[c] = <<>>
  /\ snd' = [snd EXCEPT ![c].deaf = TRUE]
  /\ UNCHANGED <<fsize, changes, rcv, srv, conn, toServer, toClient, disk>>
-----------------------------------------------------------------------------
(* FileRecv, on the server's epoll thread                                  *)

Arrived(c, type) == /\ ServerUp /\ rcv[c].synced /\ rcv[c].status # "GONE"
                    /\ toServer[c] # <<>> /\ Head(toServer[c]).type = type
Consumed(c) == toServer' = [toServer EXCEPT ![c] = Tail(@)]

\* A handler that sends m and goes on with rcv[c] = r; when the send fails the
\* process exits.
ReplyAndGoOn(c, m, r) ==
  \/ /\ rcv' = [rcv EXCEPT ![c] = r]
     /\ toClient' = Replied(c, m)
     /\ Consumed(c)
     /\ UNCHANGED <<srv, conn>>
  \/ /\ conn[c] = "down"
     /\ rcv' = [rcv EXCEPT ![c] = r]
     /\ ServerExit("exited", toClient)

\* fopen(path, "wb") empties the file, whoever else is writing it.
FileOpened(c) ==
  LET others == {d \in Clients : path[d] = path[c] /\ rcv[d].file = "open"}
  IN files' = [files EXCEPT ![path[c]] = NewFile({c} \cup others)]

\* The file of c once the bytes that r adds are written, at the offset of the
\* session's own stream; 0 is a byte nobody wrote.
Stored(c, r) ==
  LET held == files[path[c]].bytes IN
  [i \in DOMAIN held \cup DOMAIN r.content |->
     IF i \in DOMAIN r.content \ DOMAIN rcv[c].content THEN r.content[i]
     ELSE IF i \in DOMAIN held THEN held[i] ELSE 0]

FileWritten(c, r) == files' = [files EXCEPT ![path[c]].bytes = Stored(c, r)]

\* fwrite or fclose failed: what the stream still buffered is lost, here what r
\* adds.
FileCut(c) == files' = [files EXCEPT ![path[c]].cut = TRUE]

\* procTranReq: the directory exists and fopen succeeds, or one of the checks
\* fails, the error is reported and the process exits.
ProcTranReq(c) ==
  /\ Arrived(c, "REQ")
  /\ \/ /\ rcv[c].status # "INIT"
        /\ Consumed(c)
        /\ UNCHANGED <<rcv, srv, conn, toClient, files>>
     \/ /\ rcv[c].status = "INIT" /\ Head(toServer[c]).size # 0
        /\ FileOpened(c)
        /\ ReplyAndGoOn(c, Rsp("SUCCESS"),
             [rcv[c] EXCEPT !.status = "SENDING", !.file = "open", !.content = <<>>,
                            !.size = Head(toServer[c]).size])
     \/ /\ rcv[c].status = "INIT"
        /\ rcv' = [rcv EXCEPT ![c].status = "CONNECTED"]
        /\ ServerExit("exited", Replied(c, Rsp("ERROR")))
        /\ UNCHANGED files
  /\ UNCHANGED <<fsize, changes, snd, path>>

ProcTranEnd(c) ==
  /\ Arrived(c, "END")
  /\ IF Head(toServer[c]).code = "ERROR"
     THEN /\ rcv' = [rcv EXCEPT ![c].file =
                       IF @ = "open" THEN "closed" ELSE @]
          /\ ServerExit("exited", toClient)
     ELSE Consumed(c) /\ UNCHANGED <<rcv, srv, conn, toClient>>
  /\ UNCHANGED <<fsize, changes, snd, disk>>

\* Mutant of Complete: _write_file is not set to nullptr after fclose.
Complete_KeepsPointer(c, r, zero) ==
  LET full == [r EXCEPT !.file = "closed", !.done = TRUE] IN
  ~zero /\ FileWritten(c, r) /\ ReplyAndGoOn(c, End("SUCCESS"),
             [full EXCEPT !.status = "INIT", !.size = 0, !.written = 0])

\* The message fills the announced size: fclose, whose result is not looked at,
\* END, the assert on the elapsed time,
\* then the object is ready for another file.  zero: no millisecond has passed
\* since _ticker began.  Which session resets _ticker (firstdata is static) only
\* decides how likely that is, so it is left open.
Complete(c, r, zero) ==
  LET full == [r EXCEPT !.file = "null", !.done = TRUE] IN
  /\ FileWritten(c, r) \/ FileCut(c)
  /\ IF zero
     THEN /\ rcv' = [rcv EXCEPT ![c] = full]
          /\ \/ ServerExit("aborted", Replied(c, End("SUCCESS")))
             \/ conn[c] = "down" /\ ServerExit("exited", toClient)
     ELSE ReplyAndGoOn(c, End("SUCCESS"),
            [full EXCEPT !.status = "INIT", !.size = 0, !.written = 0])

\* Mutants of ProcFileData: the count is shared by all sessions, like firstdata;
\* the count is assigned, not added to.
ProcFileData_Counted(c, bs, insync, before) ==
  LET w == U32(before + Len(bs))
      r == [rcv[c] EXCEPT !.written = w, !.content = @ \o bs, !.synced = insync]
  IN
  /\ rcv[c].file = "open"
  /\ \/ w = rcv[c].size /\ Complete(c, r, FALSE)
     \/ /\ w < rcv[c].size /\ FileWritten(c, r)
        /\ rcv' = [rcv EXCEPT ![c] = r]
        /\ Consumed(c)
        /\ UNCHANGED <<srv, conn, toClient>>
     \/ /\ w > rcv[c].size /\ FileWritten(c, r)
        /\ rcv' = [rcv EXCEPT ![c] = [r EXCEPT !.file = "closed"]]
        /\ ServerExit("exited", Replied(c, End("ERROR")))
  /\ UNCHANGED <<fsize, changes, snd, path>>
ProcFileData_SharedCount(c, bs, insync) ==
  ProcFileData_Counted(c, bs, insync,
    CHOOSE n \in {rcv[d].written : d \in Clients} :
      \A d \in Clients : rcv[d].written <= n)
ProcFileData_Assigns(c, bs, insync) == ProcFileData_Counted(c, bs, insync, 0)

\* procFileData, the bytes of the message being bs.
ProcFileData(c, bs, insync) ==
  LET w == U32(rcv[c].written + Len(bs))
      r == [rcv[c] EXCEPT !.written = w, !.content = @ \o bs, !.synced = insync]
  IN
  /\ \/ /\ rcv[c].file = "null"
        /\ UNCHANGED <<rcv, files>>
        /\ ServerExit("exited", toClient)
     \/ /\ rcv[c].file \notin {"null", "open"}      \* fwrite on a wild pointer
        /\ UNCHANGED <<rcv, files>>
        /\ ServerExit("aborted", toClient)
     \/ /\ rcv[c].file = "open" /\ w = rcv[c].size
        /\ \E zero \in BOOLEAN : Complete(c, r, zero)
     \/ /\ rcv[c].file = "open" /\ w < rcv[c].size /\ FileWritten(c, r)
        /\ rcv' = [rcv EXCEPT ![c] = r]
        /\ Consumed(c)
        /\ UNCHANGED <<srv, conn, toClient>>
     \/ /\ rcv[c].file = "open" /\ w > rcv[c].size /\ FileWritten(c, r)
        /\ rcv' = [rcv EXCEPT ![c] = [r EXCEPT !.file = "closed"]]
        /\ ServerExit("exited", Replied(c, End("ERROR")))
     \/ /\ rcv[c].file = "open" /\ FileCut(c)     \* fwrite failed
        /\ rcv' = [rcv EXCEPT ![c].file = "closed"]
        /\ ServerExit("exited", Replied(c, End("ERROR")))
  /\ UNCHANGED <<fsize, changes, snd, path>>

RecvData(c) ==
  /\ Arrived(c, "DATA") /\ Head(toServer[c]).whole
  /\ LET m == Head(toServer[c]) IN ProcFileData(c, Positions(m.after, m.len), TRUE)

\* The tail of a partial message is taken from the next one (0: not a byte of
\* the file), and the stream no longer starts at a header.
RecvGarbled(c) ==
  /\ Arrived(c, "DATA") /\ ~Head(toServer[c]).whole /\ Len(toServer[c]) > 1
  /\ LET m == Head(toServer[c])
     IN ProcFileData(c, Append(Positions(m.after, m.len - 1), 0), FALSE)

\* Bytes read as a header give a length to wait for or a type to ignore, or a
\* length StickyPacket refuses (more than 256 MB), and onRecv exits.
RecvUnframed(c) ==
  /\ ServerUp /\ ~rcv[c].synced /\ rcv[c].status # "GONE" /\ toServer[c] # <<>>
  /\ \/ Consumed(c) /\ UNCHANGED <<srv, conn, toClient>>
     \/ ServerExit("exited", toClient)
  /\ UNCHANGED <<fsize, changes, snd, rcv, disk>>

\* EOF or an error on the session's socket, after what was received has been
\* dispatched: TcpServer erases the session, FileRecv is destroyed and leaves
\* its file open.  A partial message at the end is never dispatched.
SessionErr(c) ==
  /\ ServerUp /\ conn[c] = "down" /\ rcv[c].status # "GONE"
  /\ \/ toServer[c] = <<>>
     \/ /\ rcv[c].synced /\ Len(toServer[c]) = 1
        /\ Head(toServer[c]).type = "DATA" /\ ~Head(toServer[c]).whole
  /\ rcv' = [rcv EXCEPT ![c].status = "GONE"]
  /\ toServer' = [toServer EXCEPT ![c] = <<>>]
  /\ UNCHANGED <<fsize, changes, snd, srv, conn, toClient, disk>>
-----------------------------------------------------------------------------
(* The environment *)

\* Another program truncates or extends a source file.
Resize(c) == /\ c \in Faulty /\ changes[c] < MaxChanges /\ snd[c].pc \in {"connect", "poll", "loop"}
             /\ changes' = [changes EXCEPT ![c] = @ + 1]
             /\ \E n \in Sizes[c] \ {fsize[c]} : fsize' = [fsize EXCEPT ![c] = n]
             /\ UNCHANGED <<snd, rcv, srv, conn, toServer, toClient, disk>>

ClientKilled(c) == /\ c \in Faulty /\ snd[c].pc \notin {"connect", "exited"}
                   /\ ClientExit(c)
                   /\ UNCHANGED <<fsize, changes, rcv, srv, disk>>

ServerKilled == /\ Faulty # {} /\ ServerUp
                /\ ServerExit("exited", toClient)
                /\ UNCHANGED <<fsize, changes, snd, rcv, disk>>

ConnReset(c) == /\ c \in Faulty /\ conn[c] = "up"
                /\ conn' = [conn EXCEPT ![c] = "down"]
                /\ \E s \in Prefixes(toServer[c]) :
                      toServer' = [toServer EXCEPT ![c] = s]
                /\ \E s \in Prefixes(toClient[c]) :
                      toClient' = [toClient EXCEPT ![c] = s]
                /\ UNCHANGED <<fsize, changes, snd, rcv, srv, disk>>
-----------------------------------------------------------------------------
ClientStep(c) == \/ StartTransf(c) \/ ProcTranRsp(c) \/ ProcTranEndC(c)
                 \/ SendChunk(c) \/ LocalTransEnd(c) \/ ClientErr(c)

SessionStep(c) == \/ ProcTranReq(c) \/ ProcTranEnd(c) \/ RecvData(c)
                  \/ RecvGarbled(c) \/ RecvUnframed(c) \/ SessionErr(c)

Next == \/ \E c \in Clients : \/ ClientStep(c) \/ SessionStep(c)
                              \/ Resize(c) \/ ClientKilled(c) \/ ConnReset(c)
        \/ ServerKilled

Spec == Init /\ [][Next]_vars

\* An epoll thread with something to do goes on; faults need not happen.
Fairness == WF_vars(\E c \in Clients : ClientStep(c) \/ SessionStep(c))
FairSpec == Spec /\ Fairness
-----------------------------------------------------------------------------
(* Properties *)

Messages == [type : {"REQ"}, size : 0..(Word - 1)]
              \cup [type : {"RSP", "END"}, code : Codes]
              \cup [type : {"DATA"}, after : Nat, len : 1..Chunk, whole : BOOLEAN]

Senders == [pc : {"connect", "poll", "loop", "failed", "exited"},
            status : {"INIT", "CONNECTED", "SENDING", "SEND_OVER", "SEND_FAIL"},
            pos : Nat, sent : 0..(Word - 1), goal : 0..(Word - 1),
            short : BOOLEAN, told : BOOLEAN, deaf : BOOLEAN]

Sessions == [status : {"INIT", "CONNECTED", "SENDING", "GONE"},
             file : {"garbage", "open", "null", "closed"},
             size : 0..(Word - 1), written : 0..(Word - 1), content : Seq(Nat),
             done : BOOLEAN, synced : BOOLEAN]

\* The types of the state: the counters kept in uint32_t stay below 2^32.
ProcessesOK ==
          /\ \A c \in Clients : fsize[c] \in Sizes[c]
          /\ changes \in [Clients -> 0..MaxChanges]
          /\ snd \in [Clients -> Senders]
          /\ rcv \in [Clients -> Sessions]
          /\ srv \in {"running", "exited", "aborted"}
          /\ conn \in [Clients -> {"none", "up", "down"}]
          /\ toServer \in [Clients -> Seq(Messages)]
          /\ toClient \in [Clients -> Seq(Messages)]
DiskOK == /\ path \in [Clients -> Names]
          /\ files \in [Names -> [bytes : Seq(Nat), writers : SUBSET Clients,
                                  cut : BOOLEAN]]
TypeOK == ProcessesOK /\ DiskOK

\* Under every fault: no handler touches _write_file before fopen gave it a
\* value or after fclose, although the constructor leaves it uninitialised and
\* procFileData and procTranEnd do not look at _status.
NoWildFile ==
  \A c \in Clients :
    (Arrived(c, "DATA") \/ (Arrived(c, "END") /\ Head(toServer[c]).code = "ERROR"))
      => rcv[c].file \in {"open", "null"}

\* The transfer of c is as the code expects it: the file was not resized, its
\* size fits uint32_t and every send took the whole message.
Expected(c) == changes[c] = 0 /\ fsize[c] < Word /\ ~snd[c].short

\* The position after which the file's bytes in messages i, i+1, .. start.
Edge(c, i) ==
  LET q == toServer[c] IN
  IF i > Len(q) THEN snd[c].pos
  ELSE IF q[i].type = "DATA" THEN q[i].after
       ELSE IF q[i].type = "REQ" THEN 0 ELSE snd[c].pos

\* While the connection holds, what the session gave to fwrite and then the
\* messages under way are, without a gap or an overlap, what the client has read
\* so far, whatever the other sessions do.
NothingLost ==
  \A c \in Clients :
    (Expected(c) /\ conn[c] = "up") =>
      /\ rcv[c].content = Positions(0, Edge(c, 1))
      /\ \A i \in DOMAIN toServer[c] :
           LET m == toServer[c][i] IN
           m.type = "DATA" => m.after + m.len = Edge(c, i + 1)

\* Only the session of c had its file open since it was emptied, and every write
\* and fclose of it succeeded.  Two sessions given one path write over each other,
\* and fclose may lose the end of a file: both are told END(SUCCESS).
OwnFile(c) == LET f == files[path[c]] IN f.writers = {c} /\ ~f.cut

\* When the server declares a file complete, the session has given fwrite the
\* source file, and a file that is its own holds it, until another session opens
\* it: procFileData counts bytes and never compares them.
CompleteIsExact ==
  \A c \in Clients : Expected(c) /\ rcv[c].done =>
    /\ rcv[c].content = Positions(0, fsize[c])
    /\ OwnFile(c) => files[path[c]].bytes = Positions(0, fsize[c])

\* In an expected transfer neither of procFileData's exits for a null file and
\* for too many bytes is taken, and END(SUCCESS), which procTranEnd believes
\* without a look at what was written, comes when the file is complete.
NoFalseAlarm ==
  \A c \in Clients : Expected(c) =>
    /\ Arrived(c, "DATA") =>
         /\ rcv[c].file = "open"
         /\ rcv[c].written + Head(toServer[c]).len <= rcv[c].size
    /\ (Arrived(c, "END") /\ Head(toServer[c]).code = "SUCCESS") => rcv[c].done

\* What a client that trusts the protocol counts on, under every fault of every
\* session: no byte is lost, a file declared complete that is the session's own
\* is the right one, and no check of the receiver ends the process for a transfer
\* that is as expected.
Exact == TypeOK /\ NothingLost /\ CompleteIsExact /\ NoFalseAlarm

\* The sender meant to send END and could not: nobody tells the receiver.
Untold(c) == snd[c].status = "SEND_FAIL" /\ ~snd[c].told

\* An expected transfer ends: the server has the whole file, or the connection
\* or one of the processes has ended, whatever the other clients run into.
TransferEnds ==
  \A c \in Clients :
    conn[c] = "up" ~>
      (rcv[c].done \/ conn[c] = "down" \/ Untold(c) \/ ~Expected(c))

\* A sender that found it had not sent what it meant to send, and said so on a
\* stream that is still in step, ends the transfer on the other side too.
FailureHeard ==
  \A c \in Clients :
    (snd[c].status = "SEND_FAIL" /\ snd[c].told /\ ~snd[c].short) ~> conn[c] = "down"
===============================================================================
