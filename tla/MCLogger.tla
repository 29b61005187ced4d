---- MODULE MCLogger ----
\* The main thread, its signal handler and one more; slices of a message or more.
EXTENDS Logger
====
