----------------------------- MODULE MCChannelCache -----------------------------
(* Three threads; two servers, one asked for with and without a password.  *)
EXTENDS ChannelCache

CONSTANTS t1, t2, t3, ch1, ch2, ch3

MCThread  == {t1, t2, t3}
MCChannel == {ch1, ch2, ch3}
MCRequest ==
  { [cluster |-> "c", key |-> "k1", passwd |-> "p"],
    [cluster |-> "c", key |-> "k1", passwd |-> ""],
    [cluster |-> "c", key |-> "k2", passwd |-> ""] }
MCFilePasswd == [c \in {"c"} |-> "file"]
===============================================================================
