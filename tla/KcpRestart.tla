------------------------------ MODULE KcpRestart ------------------------------
(***************************************************************************)
(* The client of a file transfer over raw sockets ends and is started      *)
(* again, to send the next file.  CreateAKcp makes a control block with    *)
(* the same conversation number, 10086, and the sequence numbers start     *)
(* over; the process of the server, and its control block, live on.        *)
(***************************************************************************)
EXTENDS Kcp

CONSTANT Client

VARIABLE earlier    \* messages the client sent in its earlier life, -1 if none

rvars == <<kcb, net, sent, got, faults, earlier>>

RestartInit == Init /\ earlier = -1

\* The first transfer is over: all was received and acknowledged.
Restart ==
  /\ earlier = -1
  /\ Len(got[Other(Client)]) = Len(sent[Client]) /\ Len(sent[Client]) > 0
  /\ kcb[Client].sndBuf = {} /\ net[Client] = <<>>
  /\ kcb' = [kcb EXCEPT ![Client] = NewKcb]
  /\ earlier' = Len(sent[Client])
  /\ UNCHANGED <<net, sent, got, faults>>

RestartSpec == RestartInit /\ [][(Next /\ UNCHANGED earlier) \/ Restart]_rvars

\* The server goes on to receive other files: what the client sent after its
\* restart, and saw acknowledged, the server has.
NextFileReceived ==
  earlier >= 0 =>
    \A i \in (earlier + 1)..Len(sent[Client]) : \A j \in 1..sent[Client][i] :
      <<i, j>> \in Waiting(Client) \cup Held(Other(Client))
===============================================================================
