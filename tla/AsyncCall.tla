-------------------------------- MODULE AsyncCall --------------------------------
(***************************************************************************)
(* One asynchronous call: the AsyncData it lives in, the Future its caller *)
(* holds, the completion brpc runs, and the threads that wait              *)
(* (src/redis.cpp, src/redis_cluster.cpp, src/future.cpp,                  *)
(* src/detail/async_data.cpp).                                             *)
(*                                                                         *)
(* The Future owns the AsyncData; the completion has a weak_ptr to it and  *)
(* owns it while it runs.  brpc (external) has plain pointers to the       *)
(* Controller and the RedisResponse inside it, writes them when the RPC    *)
(* ends, runs the completion, and only then destroys the call id that      *)
(* brpc::Join waits for.                                                   *)
(***************************************************************************)
EXTENDS Naturals

CONSTANTS
  Waiter,    \* threads that call Future::Wait or Future::Get
  Callbacks  \* what the user's callback may do, a subset of CallbackKinds

(* No callback, one that returns, one that throws, and one that waits for  *)
(* the Future of its own call.                                             *)
CallbackKinds == {"none", "returns", "throws", "waits"}

ASSUME CallbacksAssumption == Callbacks \subseteq CallbackKinds

VARIABLES
  cb,          \* AsyncData::cb
  rpc,         \* "unsent", "inflight", "ok" or "failed" (cntl.Failed())
  done,        \* where the completion, detail::Callback, is
  future,      \* "none" (not returned yet), "valid", "dropped" or, when it
               \* was dropped before the RPC ended, "dropped_early"
  ex_ptr,      \* AsyncData::ex_ptr is set
  has_finish,  \* AsyncData::has_finish
  runs,        \* how often the user's callback was entered
  touched,     \* brpc wrote to the AsyncData after it was destroyed
  wait,        \* where each waiter is
  op           \* what it called

doneVars == <<rpc, done, ex_ptr, has_finish, runs, touched>>
vars == <<cb, doneVars, future, wait, op>>

(* What Wait and Get end with: normally, with the callback's exception,    *)
(* with the Reply, or with the error of the RPC.                           *)
Ended == {"returned", "callback_error", "reply", "rpc_error"}

(* The completion holds a shared_ptr. *)
Locked == done \in {"locked", "in_callback", "self_join", "store", "stored"}

(* Mutant: the Future holds a weak_ptr too. *)
AliveWhileLocked == future = "none" \/ Locked

(* Somebody owns the AsyncData. *)
Alive == future \in {"none", "valid"} \/ Locked

Init ==
  /\ cb \in Callbacks
  /\ rpc = "unsent" /\ done = "waiting"
  /\ future = "none"
  /\ ex_ptr = FALSE /\ has_finish = FALSE
  /\ runs = 0 /\ touched = FALSE
  /\ wait = [w \in Waiter |-> "idle"]
  /\ op \in [Waiter -> {"Wait", "Get"}]

(* ExecuteAsync: CallMethod starts the RPC ... *)
CallMethod ==
  /\ rpc = "unsent"
  /\ rpc' = "inflight"
  /\ UNCHANGED <<cb, done, ex_ptr, has_finish, runs, touched, future, wait, op>>

(* ... and the Future is returned, with the completion possibly under way. *)
ReturnFuture ==
  /\ rpc # "unsent" /\ future = "none"
  /\ future' = "valid"
  /\ UNCHANGED <<cb, doneVars, wait, op>>

(* The Future is destroyed or assigned to, by a caller no thread of which  *)
(* is inside Wait or Get.                                                  *)
DropFuture ==
  /\ future = "valid"
  /\ \A w \in Waiter : wait[w] = "idle"
  /\ future' = IF rpc = "inflight" THEN "dropped_early" ELSE "dropped"
  /\ UNCHANGED <<cb, doneVars, wait, op>>

(* External: the RPC succeeds, fails or times out; brpc writes the result. *)
RpcEnds ==
  /\ rpc = "inflight"
  /\ rpc' \in {"ok", "failed"}
  /\ touched' = ~Alive
  /\ done' = "called"
  /\ UNCHANGED <<cb, ex_ptr, has_finish, runs, future, wait, op>>

(* detail::Callback: ptr.lock(), and return when the AsyncData is gone. *)
LockWeak ==
  /\ done = "called"
  /\ done' = IF Alive THEN "locked" ELSE "gone"
  /\ UNCHANGED <<cb, rpc, ex_ptr, has_finish, runs, touched, future, wait, op>>

(* Mutants: cntl.Failed() is not looked at; has_finish is stored before    *)
(* the callback is called.                                                 *)
EnterCallbackAnyway ==
  /\ done = "locked"
  /\ \/ cb = "none" /\ done' = "store" /\ runs' = runs
     \/ cb # "none" /\ done' = "in_callback" /\ runs' = runs + 1
  /\ UNCHANGED <<cb, rpc, ex_ptr, has_finish, touched, future, wait, op>>
FinishThenCallback ==
  /\ done = "locked"
  /\ has_finish' = TRUE
  /\ \/ (cb = "none" \/ rpc = "failed") /\ done' = "store" /\ runs' = runs
     \/ cb # "none" /\ rpc = "ok" /\ done' = "in_callback" /\ runs' = runs + 1
  /\ UNCHANGED <<cb, rpc, ex_ptr, touched, future, wait, op>>

(* detail::Callback: no callback, a failed RPC, or the callback is entered. *)
EnterCallback ==
  /\ done = "locked"
  /\ \/ /\ cb = "none"
        /\ done' = "store"
        /\ UNCHANGED <<ex_ptr, runs>>
     \/ /\ cb # "none" /\ rpc = "failed"
        /\ ex_ptr' = TRUE
        /\ done' = "store"
        /\ runs' = runs
     \/ /\ cb # "none" /\ rpc = "ok"
        /\ runs' = runs + 1
        /\ done' = "in_callback"
        /\ ex_ptr' = ex_ptr
  /\ UNCHANGED <<cb, rpc, has_finish, touched, future, wait, op>>

(* Mutant: what the callback throws is not caught and ends the completion. *)
NotCaught ==
  /\ done = "in_callback" /\ cb # "throws"
  /\ done' = IF cb = "waits" THEN "self_join" ELSE "store"
  /\ UNCHANGED <<cb, rpc, ex_ptr, has_finish, runs, touched, future, wait, op>>

(* The callback returns, throws, or calls Wait or Get on its own Future:   *)
(* has_finish is still false, and so it joins its own call.                *)
LeaveCallback ==
  /\ done = "in_callback"
  /\ done' = IF cb = "waits" THEN "self_join" ELSE "store"
  /\ ex_ptr' = (cb = "throws")
  /\ UNCHANGED <<cb, rpc, has_finish, runs, touched, future, wait, op>>

(* detail::Callback: has_finish.store(true, memory_order_release). *)
StoreFinish ==
  /\ done = "store"
  /\ has_finish' = TRUE
  /\ done' = "stored"
  /\ UNCHANGED <<cb, rpc, ex_ptr, runs, touched, future, wait, op>>

(* The completion returns, drops its reference, and brpc destroys the id. *)
CallEnds ==
  /\ done \in {"stored", "gone"}
  /\ done' = "ended"
  /\ UNCHANGED <<cb, rpc, ex_ptr, has_finish, runs, touched, future, wait, op>>

(* A thread calls Wait or Get, perhaps not for the first time. *)
StartWait(w, o) ==
  /\ future = "valid" /\ wait[w] \in {"idle"} \cup Ended
  /\ wait' = [wait EXCEPT ![w] = "check"]
  /\ op' = [op EXCEPT ![w] = o]
  /\ UNCHANGED <<cb, doneVars, future>>

(* Future::Wait: has_finish.load(memory_order_acquire). *)
CheckFinish(w) ==
  /\ wait[w] = "check"
  /\ wait' = [wait EXCEPT ![w] = IF has_finish THEN "finish" ELSE "join"]
  /\ UNCHANGED <<cb, doneVars, future, op>>

(* brpc::Join: returns when the call id is destroyed. *)
Join(w) ==
  /\ wait[w] = "join" /\ done = "ended"
  /\ wait' = [wait EXCEPT ![w] = "finish"]
  /\ UNCHANGED <<cb, doneVars, future, op>>

(* Mutant: ex_ptr is not rethrown. *)
EndingWithoutRethrow(w) ==
  IF op[w] = "Wait" THEN "returned"
  ELSE IF rpc = "failed" THEN "rpc_error" ELSE "reply"

(* What Wait and Get end with once the call is over. *)
Ending(w) ==
  IF cb # "none" /\ ex_ptr THEN "callback_error"
  ELSE IF op[w] = "Wait" THEN "returned"
  ELSE IF rpc = "failed" THEN "rpc_error" ELSE "reply"

(* The end of Wait, and for Get the look at cntl.Failed(). *)
EndWait(w) ==
  /\ wait[w] = "finish"
  /\ wait' = [wait EXCEPT ![w] = Ending(w)]
  /\ UNCHANGED <<cb, doneVars, future, op>>

(* The waiter turns to something else. *)
Leave(w) ==
  /\ wait[w] \in Ended
  /\ wait' = [wait EXCEPT ![w] = "idle"]
  /\ UNCHANGED <<cb, doneVars, future, op>>

Completion ==
  RpcEnds \/ LockWeak \/ EnterCallback \/ LeaveCallback \/ StoreFinish \/ CallEnds

Next ==
  \/ CallMethod \/ ReturnFuture \/ DropFuture
  \/ Completion
  \/ \E w \in Waiter :
       \/ \E o \in {"Wait", "Get"} : StartWait(w, o)
       \/ CheckFinish(w) \/ Join(w) \/ EndWait(w) \/ Leave(w)

Spec == Init /\ [][Next]_vars

(* brpc ends every RPC (its deadline is finite), the completion and the    *)
(* callback run to their ends, and a thread inside Wait keeps running.     *)
FairSpec ==
  /\ Spec
  /\ WF_vars(Completion)
  /\ \A w \in Waiter : WF_vars(CheckFinish(w) \/ Join(w) \/ EndWait(w))

-------------------------------------------------------------------------------
(* Types of the state.                                                     *)
TypeOK ==
  /\ cb \in CallbackKinds
  /\ rpc \in {"unsent", "inflight", "ok", "failed"}
  /\ done \in {"waiting", "called", "locked", "in_callback", "self_join",
               "store", "stored", "gone", "ended"}
  /\ future \in {"none", "valid", "dropped", "dropped_early"}
  /\ ex_ptr \in BOOLEAN /\ has_finish \in BOOLEAN /\ touched \in BOOLEAN
  /\ runs \in {0, 1}
  /\ wait \in [Waiter -> {"idle", "check", "join", "finish"} \cup Ended]
  /\ op \in [Waiter -> {"Wait", "Get"}]

(* Whoever leaves Wait or Get leaves after the callback is over, and as    *)
(* the call went: with a Reply only when the RPC succeeded and the         *)
(* callback, if there is one, ran and returned; with no exception only     *)
(* then, or out of a Wait with no callback set, where only Get or the      *)
(* Controller tells; with an exception only when there was a failure.      *)
EndsAsTheCallDid ==
  \A w \in Waiter :
    /\ wait[w] \in Ended => done \in {"stored", "ended"}
    /\ wait[w] = "reply" \/ (wait[w] = "returned" /\ cb # "none") =>
         rpc = "ok" /\ (cb # "none" => cb = "returns" /\ runs = 1)
    /\ wait[w] = "callback_error" => rpc = "failed" \/ cb = "throws"
    /\ wait[w] = "rpc_error" => rpc = "failed" /\ cb = "none"

(* The callback runs for every successful RPC, once, unless the Future was *)
(* dropped before the completion could lock the AsyncData; then neither    *)
(* the callback nor anybody else learns how the RPC ended.                 *)
CallbackRunsOnce ==
  done = "ended" /\ cb # "none" =>
    \/ rpc = "ok" /\ runs = 1
    \/ rpc = "failed" /\ runs = 0 /\ ex_ptr
    \/ future \in {"dropped", "dropped_early"} /\ runs = 0 /\ ~has_finish

(* brpc writes into the AsyncData of a call that has ended exactly when    *)
(* the Future was dropped while the RPC was in flight: the weak_ptr of the *)
(* completion does not protect brpc, only the callback.                    *)
FreedInFlightIffDroppedEarly ==
  rpc \in {"ok", "failed"} => (touched <=> future = "dropped_early")

(* A callback that waits for its own call blocks every thread that has to  *)
(* join the call, for ever.                                                *)
SelfJoinBlocksEveryWaiter ==
  done = "self_join" =>
    ~has_finish /\ \A w \in Waiter : wait[w] \notin Ended \cup {"finish"}

(* Every Wait and Get ends, unless the callback waits for its own call.    *)
WaitEnds ==
  \A w \in Waiter :
    (wait[w] = "check" /\ cb # "waits") ~> (wait[w] \in Ended)
===============================================================================
