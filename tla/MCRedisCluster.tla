---------------------------- MODULE MCRedisCluster ----------------------------
(* A cluster of two ranges: slot 0 with two replicas, slots 1-2 without    *)
(* any; slot 3 is not covered.  System commands have an empty key, whose   *)
(* slot is 0.                                                              *)
EXTENDS RedisCluster

CONSTANTS m0, m1, s0, s1

MCServer == {m0, m1, s0, s1}
MCMap ==
  [b \in {0, 1} |->
     IF b = 0 THEN [end |-> 0, master |-> m0, slaves |-> <<s0, s1>>]
              ELSE [end |-> 2, master |-> m1, slaves |-> <<>>]]

MCCommand == {"get0", "set0", "get2", "set2", "get3", "cluster"}
MCTypeOf == [c \in MCCommand |->
               CASE c \in {"get0", "get2", "get3"} -> "Read"
                 [] c \in {"set0", "set2"}         -> "Write"
                 [] OTHER                          -> "System"]
MCSlotOf == [c \in MCCommand |->
               CASE c \in {"get0", "set0", "cluster"} -> 0
                 [] c \in {"get2", "set2"}            -> 2
                 [] OTHER                             -> 3]

(* Fewer commands, for the run in which sub-calls are sent again. *)
MCRetryCommand == {"set0", "set2", "get2"}
MCRetryTypeOf  == [c \in MCRetryCommand |-> MCTypeOf[c]]
MCRetrySlotOf  == [c \in MCRetryCommand |-> MCSlotOf[c]]

(* A batch of two, for what is read behind it. *)
MCBeyondCommand == {"get0", "set2", "get3"}
MCBeyondTypeOf  == [c \in MCBeyondCommand |-> MCTypeOf[c]]
MCBeyondSlotOf  == [c \in MCBeyondCommand |-> MCSlotOf[c]]
=============================================================================
