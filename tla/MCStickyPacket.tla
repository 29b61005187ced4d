---------------------------- MODULE MCStickyPacket ----------------------------
(* StickyPacket with small constants. *)
EXTENDS StickyPacket

MCLens == {2, 3, 5, 7}     \* a bare header, short, larger than Cap0, too big
===============================================================================
