------------------------------- MODULE BatchCall -------------------------------
(***************************************************************************)
(* What RedisCluster promises its caller (src/redis_cluster.h): commands   *)
(* are added to a batch, Execute either throws or returns one reply per    *)
(* command in the order of the batch, and the batch stays until Reset; a   *)
(* single command can be executed past the batch.                          *)
(* Servers, channels, pipelines and positions do not appear.               *)
(***************************************************************************)
EXTENDS Naturals, Sequences

CONSTANTS
  Command,   \* the commands a program may add
  MaxBatch   \* bound on the number of commands in a batch

VARIABLES
  phase,     \* "idle", "busy" or "returned"
  batch,     \* the commands added since the last Reset
  call,      \* the commands of the call under way
  result     \* what the call ended with: <<>>, <<"throw">> or <<"reply", f>>

vars == <<phase, batch, call, result>>

Init == phase = "idle" /\ batch = <<>> /\ call = <<>> /\ result = <<>>

Add(cmd) ==
  /\ phase = "idle" /\ Len(batch) < MaxBatch
  /\ batch' = Append(batch, cmd)
  /\ UNCHANGED <<phase, call, result>>

Reset ==
  /\ phase = "idle"
  /\ batch' = <<>>
  /\ UNCHANGED <<phase, call, result>>

Execute ==
  /\ phase = "idle" /\ batch # <<>>
  /\ phase' = "busy" /\ call' = batch
  /\ UNCHANGED <<batch, result>>

(* One command, whatever the batch holds. *)
ExecuteOne(cmd) ==
  /\ phase = "idle"
  /\ phase' = "busy" /\ call' = <<cmd>>
  /\ UNCHANGED <<batch, result>>

(* An empty batch is refused at once; a call under way may throw any time. *)
Throw ==
  /\ phase = "busy" \/ (phase = "idle" /\ batch = <<>>)
  /\ phase' = "returned" /\ result' = <<"throw">>
  /\ UNCHANGED <<batch, call>>

(* The reply to the i-th command is the reply to the i-th command. *)
Reply ==
  /\ phase = "busy"
  /\ phase' = "returned"
  /\ result' = <<"reply", [i \in 1..Len(call) |-> i]>>
  /\ UNCHANGED <<batch, call>>

Take ==
  /\ phase = "returned"
  /\ phase' = "idle" /\ call' = <<>> /\ result' = <<>>
  /\ UNCHANGED batch

Next ==
  \/ \E cmd \in Command : Add(cmd) \/ ExecuteOne(cmd)
  \/ Reset \/ Execute \/ Throw \/ Reply \/ Take

Spec == Init /\ [][Next]_vars
===============================================================================
