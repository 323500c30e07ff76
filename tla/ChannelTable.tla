------------------------------ MODULE ChannelTable ------------------------------
(***************************************************************************)
(* What RedisChannelCache promises (src/detail/redis_channel_cache.h): a   *)
(* table of channels by server address that every thread sees as changing  *)
(* in single steps.  A call takes effect at one instant between its start  *)
(* and its return: it finds the channel of the address, or puts one there  *)
(* that authenticates with the credentials of this call, or finds none,    *)
(* can create none and returns nullptr.  There are no locks here.          *)
(***************************************************************************)
EXTENDS Naturals

CONSTANTS
  Thread,         \* the calling threads
  Request,        \* the arguments of a call: records [cluster, key, passwd]
  Channel,        \* channel objects
  Effective(_)    \* the password a request connects with

VARIABLES
  table,     \* address -> [id, auth]
  call,      \* the request of each thread
  status,    \* "idle", "pending" or "returned", per thread
  result     \* what each thread got: {} for nullptr, or {channel}

vars == <<table, call, status, result>>

Init ==
  /\ table = [key \in {} |-> {}]
  /\ call \in [Thread -> Request]
  /\ status = [t \in Thread |-> "idle"]
  /\ result = [t \in Thread |-> {}]

Start(t, req) ==
  /\ status[t] = "idle"
  /\ status' = [status EXCEPT ![t] = "pending"]
  /\ call' = [call EXCEPT ![t] = req]
  /\ UNCHANGED <<table, result>>

Returns(t, res) ==
  /\ status[t] = "pending"
  /\ status' = [status EXCEPT ![t] = "returned"]
  /\ result' = [result EXCEPT ![t] = res]
  /\ UNCHANGED call

FindChannel(t) ==
  /\ call[t].key \in DOMAIN table
  /\ Returns(t, {table[call[t].key]})
  /\ UNCHANGED table

NewChannel(t) ==
  /\ call[t].key \notin DOMAIN table
  /\ \E id \in Channel :
       LET ch == [id |-> id, auth |-> Effective(call[t])]
       IN  /\ \A key \in DOMAIN table : table[key].id # id
           /\ table' = [key \in DOMAIN table \cup {call[t].key} |->
                          IF key = call[t].key THEN ch ELSE table[key]]
           /\ Returns(t, {ch})

NoChannel(t) ==
  /\ call[t].key \notin DOMAIN table
  /\ Returns(t, {})
  /\ UNCHANGED table

Drop(t) ==
  /\ status[t] = "returned"
  /\ status' = [status EXCEPT ![t] = "idle"]
  /\ result' = [result EXCEPT ![t] = {}]
  /\ UNCHANGED <<table, call>>

Next ==
  \E t \in Thread :
    \/ \E req \in Request : Start(t, req)
    \/ FindChannel(t) \/ NewChannel(t) \/ NoChannel(t) \/ Drop(t)

Spec == Init /\ [][Next]_vars
===============================================================================
