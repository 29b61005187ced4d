---- MODULE MCSendBuffer ----
\* Packets of one byte and of three, and two connections.
EXTENDS SendBuffer
====
