----------------------------- MODULE MessageStream -----------------------------
(***************************************************************************)
(* What the receiver of a TCP connection is promised, with no bytes and no *)
(* buffer: the messages the peer sent are handed to the dispatch callback  *)
(* whole, each once, in the order they were sent.                          *)
(***************************************************************************)
EXTENDS Naturals, Sequences

VARIABLES sent,        \* messages the peer sent, in order
          delivered    \* messages handed to the callback, in order

vars == <<sent, delivered>>

Init == sent = <<>> /\ delivered = <<>>

Send == /\ Len(sent') = Len(sent) + 1
        /\ sent = SubSeq(sent', 1, Len(sent))
        /\ UNCHANGED delivered

Deliver == /\ Len(delivered) < Len(sent)
           /\ delivered' = Append(delivered, sent[Len(delivered) + 1])
           /\ UNCHANGED sent

Next == Send \/ Deliver

Spec == Init /\ [][Next]_vars
===============================================================================
