------------------------------- MODULE MCHashSlot -------------------------------
(* Keys of braces and two other bytes; besides, all pairs of bytes. *)
EXTENDS HashSlot

MCTagByte == {Open, Close, 97, -61}
MCOthers == { <<b, c>> : b, c \in -128..127 }
===============================================================================
