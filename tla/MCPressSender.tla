---- MODULE MCPressSender ----
\* A window of three ticks, a second of eight, a test of two seconds with a
\* report every second or every one and a half (the last one comes late).  A limited
\* test sends two packets in a window, npcap two at a time.
EXTENDS PressSender
MCModes == {"tcp", "udp", "raw", "npcap"}
====
