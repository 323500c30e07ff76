----------------------------- MODULE AsyncCallProofs -----------------------------
(***************************************************************************)
(* Proofs about AsyncCall and AsyncCluster, for any number of waiters, any *)
(* callbacks and any number of servers.                                    *)
(*                                                                         *)
(* Where the two differ is who writes to the AsyncData, and when; Core is  *)
(* what does not depend on it.                                             *)
(***************************************************************************)
EXTENDS AsyncCluster, FiniteSetTheorems, TLAPS

Over == {"ok", "failed"}
Dropped == {"dropped", "dropped_early"}

(* Where the completion is says whether the RPC is over, and whether the   *)
(* AsyncData still has an owner.                                           *)
Lifetime ==
  /\ rpc \in Over <=> done # "waiting"
  /\ rpc = "unsent" => future = "none"
  /\ rpc = "inflight" => future # "dropped"
  /\ done = "gone" => future \in Dropped

(* What is stored, by where the completion is.                             *)
Before == done \in {"waiting", "called", "locked", "gone"}
Stored == done \in {"store", "stored"} \/ (done = "ended" /\ has_finish)
Outcome ==
  \/ cb = "none" /\ runs = 0 /\ ~ex_ptr
  \/ cb # "none" /\ rpc = "failed" /\ runs = 0 /\ ex_ptr
  \/ cb = "returns" /\ rpc = "ok" /\ runs = 1 /\ ~ex_ptr
  \/ cb = "throws" /\ rpc = "ok" /\ runs = 1 /\ ex_ptr
Progress ==
  /\ has_finish => done \in {"stored", "ended"}
  /\ done = "stored" => has_finish
  /\ Before => runs = 0 /\ ~ex_ptr
  /\ done \in {"in_callback", "self_join"} =>
       cb # "none" /\ rpc = "ok" /\ runs = 1 /\ ~ex_ptr
  /\ done = "self_join" => cb = "waits"
  /\ Stored => Outcome
  /\ done = "ended" /\ ~has_finish => future \in Dropped /\ runs = 0 /\ ~ex_ptr

(* Who waits holds the Future, and passes only when has_finish is set.     *)
Waiters ==
  \A w \in Waiter :
    /\ wait[w] # "idle" => future = "valid"
    /\ wait[w] \in {"finish"} \cup Ended => has_finish
    /\ wait[w] = "callback_error" => cb # "none" /\ ex_ptr
    /\ wait[w] \in {"returned", "reply", "rpc_error"} => cb = "none" \/ ~ex_ptr
    /\ wait[w] = "reply" => rpc = "ok"
    /\ wait[w] = "rpc_error" => rpc = "failed"

Core == TypeOK /\ Lifetime /\ Progress /\ Waiters

(* The RPC ends and the completion is called, whatever brpc wrote.         *)
RpcOver ==
  /\ rpc = "inflight" /\ rpc' \in Over
  /\ done' = "called"
  /\ UNCHANGED <<cb, ex_ptr, has_finish, runs, future, wait, op>>

(* The steps of AsyncCall and of AsyncCluster.                             *)
CoreNext ==
  \/ CallMethod \/ RpcOver \/ Behind \/ Program
  \/ \E w \in Waiter : Waiting(w)
  \/ UNCHANGED <<cb, rpc, done, ex_ptr, has_finish, runs, future, wait, op>>

USE CallbacksAssumption

LEMMA CoreInit == Init => Core
BY DEF Init, Core, TypeOK, Lifetime, Over, Progress, Stored, Waiters, Ended

LEMMA CoreStep ==
  ASSUME Core, CoreNext, touched' \in BOOLEAN
  PROVE  Core'
<1> USE DEF Core
<1>u. CASE UNCHANGED <<cb, rpc, done, ex_ptr, has_finish, runs, future, wait, op>>
  BY <1>u DEF TypeOK, Lifetime, Progress, Before, Stored, Outcome, Waiters
<1>1. CASE CallMethod
  <2>1. TypeOK'
    BY <1>1 DEF CallMethod, TypeOK
  <2>2. Lifetime'
    BY <1>1 DEF CallMethod, Lifetime, Over
  <2>3. Progress'
    BY <1>1 DEF CallMethod, Progress, Before, Stored, Outcome
  <2>4. Waiters'
    BY <1>1 DEF CallMethod, Waiters
  <2> QED  BY <2>1, <2>2, <2>3, <2>4
<1>2. CASE ReturnFuture
  <2>1. TypeOK'
    BY <1>2 DEF ReturnFuture, doneVars, TypeOK
  <2>2. Lifetime'
    BY <1>2 DEF ReturnFuture, doneVars, Lifetime, Dropped
  <2>3. Progress'
    BY <1>2 DEF ReturnFuture, doneVars, Dropped, Progress, Before, Stored,
                Outcome
  <2>4. Waiters'
    BY <1>2 DEF ReturnFuture, Waiters, Ended
  <2> QED  BY <2>1, <2>2, <2>3, <2>4
<1>3. CASE DropFuture
  <2>1. TypeOK'
    BY <1>3 DEF DropFuture, doneVars, TypeOK
  <2>2. Lifetime'
    BY <1>3 DEF DropFuture, doneVars, Lifetime, Over, Dropped
  <2>3. Progress'
    BY <1>3 DEF DropFuture, doneVars, Dropped, Progress, Before, Stored, Outcome
  <2>4. Waiters'
    BY <1>3 DEF DropFuture, Waiters, Ended
  <2> QED  BY <2>1, <2>2, <2>3, <2>4
<1>4. CASE RpcOver
  <2>1. TypeOK'
    BY <1>4 DEF RpcOver, Over, TypeOK
  <2>2. Lifetime'
    BY <1>4 DEF RpcOver, Alive, Locked, TypeOK, Lifetime, Over
  <2>3. Progress'
    BY <1>4 DEF RpcOver, Lifetime, Over, Progress, Before, Stored
  <2>4. Waiters'
    BY <1>4 DEF RpcOver, Waiters
  <2> QED  BY <2>1, <2>2, <2>3, <2>4
<1>5. CASE LockWeak
  <2>1. TypeOK'
    BY <1>5 DEF LockWeak, TypeOK
  <2>2. Lifetime'
    BY <1>5 DEF LockWeak, Alive, TypeOK, Lifetime, Dropped
  <2>3. Progress'
    BY <1>5 DEF LockWeak, Progress, Before, Stored
  <2>4. Waiters'
    BY <1>5 DEF LockWeak, Waiters
  <2> QED  BY <2>1, <2>2, <2>3, <2>4
<1>6. CASE EnterCallback
  <2>1. TypeOK'
    <3>1. runs = 0
      BY <1>6 DEF EnterCallback, Progress, Before
    <3>2. runs' \in {0, 1}
      BY <1>6, <3>1 DEF EnterCallback
    <3>3. ex_ptr' \in BOOLEAN
      BY <1>6 DEF EnterCallback, TypeOK
    <3> QED  BY <1>6, <3>2, <3>3 DEF EnterCallback, TypeOK
  <2>2. Lifetime'
    BY <1>6 DEF EnterCallback, Lifetime
  <2>3. Progress'
    BY <1>6 DEF EnterCallback, Progress, Before, Stored, Outcome
  <2>4. Waiters'
    BY <1>6 DEF EnterCallback, Progress, Waiters, Ended
  <2> QED  BY <2>1, <2>2, <2>3, <2>4
<1>7. CASE LeaveCallback
  <2>1. TypeOK'
    BY <1>7 DEF LeaveCallback, TypeOK
  <2>2. Lifetime'
    BY <1>7 DEF LeaveCallback, Lifetime
  <2>3. Progress'
    BY <1>7 DEF LeaveCallback, TypeOK, CallbackKinds, Progress, Before, Stored,
                Outcome
  <2>4. Waiters'
    BY <1>7 DEF LeaveCallback, Progress, Waiters, Ended
  <2> QED  BY <2>1, <2>2, <2>3, <2>4
<1>8. CASE StoreFinish
  <2>1. TypeOK'
    BY <1>8 DEF StoreFinish, TypeOK
  <2>2. Lifetime'
    BY <1>8 DEF StoreFinish, Lifetime
  <2>3. Progress'
    BY <1>8 DEF StoreFinish, Progress, Before, Stored, Outcome
  <2>4. Waiters'
    BY <1>8 DEF StoreFinish, Waiters
  <2> QED  BY <2>1, <2>2, <2>3, <2>4
<1>9. CASE CallEnds
  <2>1. TypeOK'
    BY <1>9 DEF CallEnds, TypeOK
  <2>2. Lifetime'
    BY <1>9 DEF CallEnds, Lifetime
  <2>3. Progress'
    BY <1>9 DEF CallEnds, Lifetime, Progress, Before, Stored, Outcome
  <2>4. Waiters'
    BY <1>9 DEF CallEnds, Waiters
  <2> QED  BY <2>1, <2>2, <2>3, <2>4
<1>10. ASSUME NEW w \in Waiter, NEW o \in {"Wait", "Get"}, StartWait(w, o)
       PROVE  Core'
  <2>1. TypeOK'
    BY <1>10 DEF StartWait, doneVars, TypeOK
  <2>2. Lifetime' /\ Progress'
    BY <1>10 DEF StartWait, doneVars, Lifetime, Progress, Before, Stored,
                 Outcome
  <2>3. Waiters'
    BY <1>10 DEF StartWait, doneVars, Waiters, Ended
  <2> QED  BY <2>1, <2>2, <2>3
<1>11. ASSUME NEW w \in Waiter, CheckFinish(w) PROVE Core'
  <2>1. TypeOK'
    BY <1>11 DEF CheckFinish, doneVars, TypeOK
  <2>2. Lifetime' /\ Progress'
    BY <1>11 DEF CheckFinish, doneVars, Lifetime, Progress, Before, Stored,
                 Outcome
  <2>3. Waiters'
    BY <1>11 DEF CheckFinish, doneVars, Waiters, Ended
  <2> QED  BY <2>1, <2>2, <2>3
<1>12. ASSUME NEW w \in Waiter, Join(w) PROVE Core'
  <2>1. TypeOK'
    BY <1>12 DEF Join, doneVars, TypeOK
  <2>2. Lifetime' /\ Progress'
    BY <1>12 DEF Join, doneVars, Lifetime, Progress, Before, Stored, Outcome
  <2>3. Waiters'
    BY <1>12 DEF Join, doneVars, Progress, Waiters, Dropped
  <2> QED  BY <2>1, <2>2, <2>3
<1>13. ASSUME NEW w \in Waiter, EndWait(w) PROVE Core'
  <2>1. TypeOK'
    BY <1>13 DEF EndWait, Ending, doneVars, TypeOK, Ended
  <2>2. Lifetime' /\ Progress'
    BY <1>13 DEF EndWait, doneVars, Lifetime, Progress, Before, Stored, Outcome
  <2>3. Waiters'
    BY <1>13 DEF EndWait, Ending, doneVars, Lifetime, Progress, Waiters, Over
  <2> QED  BY <2>1, <2>2, <2>3
<1>14. ASSUME NEW w \in Waiter, Leave(w) PROVE Core'
  <2>1. TypeOK'
    BY <1>14 DEF Leave, doneVars, TypeOK
  <2>2. Lifetime' /\ Progress'
    BY <1>14 DEF Leave, doneVars, Lifetime, Progress, Before, Stored, Outcome
  <2>3. Waiters'
    BY <1>14 DEF Leave, doneVars, Waiters
  <2> QED  BY <2>1, <2>2, <2>3
<1> QED
  BY <1>u, <1>1, <1>2, <1>3, <1>4, <1>5, <1>6, <1>7, <1>8, <1>9, <1>10, <1>11,
     <1>12, <1>13, <1>14 DEF CoreNext, Behind, Program, Waiting

-------------------------------------------------------------------------------
(* One server. *)

(* brpc writes when the RPC ends, and then only.                           *)
Touched ==
  /\ rpc \notin Over => ~touched
  /\ rpc \in Over => (touched <=> future = "dropped_early")

Inv == Core /\ Touched

LEMMA InvInit == Init => Inv
BY CoreInit DEF Init, Inv, Touched, Over

LEMMA InvNext == Inv /\ [Next]_vars => Inv'
<1> SUFFICES ASSUME Inv, [Next]_vars PROVE Inv'
  OBVIOUS
<1>0. Core /\ Touched /\ TypeOK /\ Lifetime
  BY DEF Inv, Core
<1>1. CASE RpcEnds
  <2>1. RpcOver /\ touched' = ~Alive
    BY <1>1 DEF RpcEnds, RpcOver, Over
  <2>2. ~Locked /\ future \in {"none", "valid", "dropped_early"}
    BY <1>0, <2>1 DEF RpcOver, Over, Lifetime, Locked, TypeOK
  <2>3. Touched'
    BY <2>1, <2>2 DEF Touched, RpcOver, Alive
  <2> QED  BY <1>0, <2>1, <2>3, CoreStep DEF Inv, CoreNext
<1>2. CASE DropFuture
  <2>1. touched' = touched /\ rpc' = rpc /\ Touched'
    BY <1>0, <1>2 DEF DropFuture, doneVars, Touched, Lifetime, Over
  <2>2. CoreNext
    BY <1>2 DEF CoreNext, Program
  <2> QED  BY <1>0, <2>1, <2>2, CoreStep DEF Inv, TypeOK
<1>3. CASE CallMethod \/ ReturnFuture
  <2>1. touched' = touched /\ Touched'
    BY <1>0, <1>3
    DEF CallMethod, ReturnFuture, doneVars, Touched, Lifetime, Over
  <2>2. CoreNext
    BY <1>3 DEF CoreNext, Program
  <2> QED  BY <1>0, <2>1, <2>2, CoreStep DEF Inv, TypeOK
<1>4. ASSUME UNCHANGED <<touched, rpc, future>>, CoreNext PROVE Inv'
  <2>1. Touched'
    BY <1>0, <1>4 DEF Touched
  <2> QED  BY <1>0, <1>4, <2>1, CoreStep DEF Inv, TypeOK
<1>5. CASE LockWeak \/ EnterCallback \/ LeaveCallback \/ StoreFinish \/ CallEnds
  <2>1. UNCHANGED <<touched, rpc, future>>
    BY <1>5 DEF LockWeak, EnterCallback, LeaveCallback, StoreFinish, CallEnds
  <2> QED  BY <1>4, <1>5, <2>1 DEF CoreNext, Behind
<1>6. ASSUME NEW w \in Waiter,
             \/ \E o \in {"Wait", "Get"} : StartWait(w, o)
             \/ CheckFinish(w) \/ Join(w) \/ EndWait(w) \/ Leave(w)
      PROVE  Inv'
  <2>1. UNCHANGED <<touched, rpc, future>>
    BY <1>6 DEF StartWait, CheckFinish, Join, EndWait, Leave, doneVars
  <2>2. CoreNext
    BY <1>6 DEF CoreNext, Program, Waiting
  <2> QED  BY <1>4, <2>1, <2>2
<1>7. CASE UNCHANGED vars
  BY <1>4, <1>7 DEF vars, doneVars, CoreNext
<1> QED
  BY <1>1, <1>2, <1>3, <1>5, <1>6, <1>7 DEF Next, Completion

LEMMA Invariance == Spec => []Inv
<1>1. Init => Inv
  BY InvInit
<1>2. Inv /\ [Next]_vars => Inv'
  BY InvNext
<1> QED  BY <1>1, <1>2, PTL DEF Spec

(* Whoever leaves Wait or Get leaves as the call went, for any number of   *)
(* waiters, whichever thread checks or joins first (Future::Wait and Get,  *)
(* detail::Callback).                                                      *)
THEOREM EndsAsCalled == Spec => []EndsAsTheCallDid
<1>1. Inv => EndsAsTheCallDid
  BY DEF Inv, Core, Progress, Stored, Outcome, Waiters, Ended, EndsAsTheCallDid
<1> QED  BY <1>1, Invariance, PTL

(* A callback that waits for its own call finds has_finish unset, and so   *)
(* does every thread that waits with it: all of them join a call that      *)
(* cannot end (detail::Callback, Future::Wait).                            *)
THEOREM SelfJoinBlocks == Spec => []SelfJoinBlocksEveryWaiter
<1>1. Inv => SelfJoinBlocksEveryWaiter
  BY DEF Inv, Core, Progress, Waiters, SelfJoinBlocksEveryWaiter
<1> QED  BY <1>1, Invariance, PTL

(* The callback runs once for a successful RPC and never for a failed one, *)
(* unless the Future was dropped before the completion (detail::Callback). *)
THEOREM RunsOnce == Spec => []CallbackRunsOnce
<1>1. Inv => CallbackRunsOnce
  BY DEF Inv, Core, Progress, Dropped, Stored, Outcome, CallbackRunsOnce
<1> QED  BY <1>1, Invariance, PTL

(* brpc writes into freed memory exactly when the Future was dropped while *)
(* the RPC was in flight (ExecuteAsync hands brpc plain pointers).         *)
THEOREM FreedInFlight == Spec => []FreedInFlightIffDroppedEarly
<1>1. Inv => FreedInFlightIffDroppedEarly
  BY DEF Inv, Touched, Over, FreedInFlightIffDroppedEarly
<1> QED  BY <1>1, Invariance, PTL

-------------------------------------------------------------------------------
(* Several servers. *)

(* Servers write while the call is under way.                              *)
ClusterTouched ==
  /\ touched => future = "dropped_early"
  /\ rpc \in Over => (touched <=> future = "dropped_early")

(* The call is over when all sub-calls are, and succeeded when they did.   *)
SubCallsInv ==
  /\ sub \in [Groups -> {"unsent", "sent", "ok", "failed"}]
  /\ \A k \in Groups : (sub[k] = "unsent" <=> rpc = "unsent")
  /\ rpc \in Over => \A k \in Groups : sub[k] # "sent"
  /\ rpc = "ok" => \A k \in Groups : sub[k] = "ok"

ClusterInv == Core /\ ClusterTouched /\ SubCallsInv

LEMMA ClusterInvInit == ClusterInit => ClusterInv
BY CoreInit DEF ClusterInit, Init, ClusterInv, ClusterTouched, SubCallsInv, Over

(* One failure is enough to fail the call.                                 *)
LEMMA FailLimitReached ==
  (Cardinality(Failed) >= FailLimit) <=> Failed # {}
<1>1. IsFiniteSet(Failed)
  BY GroupsAssumption, FS_Subset DEF Failed
<1>2. Cardinality(Failed) \in Nat /\ (Cardinality(Failed) = 0 <=> Failed = {})
  BY <1>1, FS_CardinalityType, FS_EmptySet
<1> QED  BY <1>2 DEF FailLimit

LEMMA ClusterInvNext == ClusterInv /\ [ClusterNext]_clusterVars => ClusterInv'
<1> SUFFICES ASSUME ClusterInv, [ClusterNext]_clusterVars PROVE ClusterInv'
  OBVIOUS
<1>0. Core /\ TypeOK /\ Lifetime /\ ClusterTouched /\ SubCallsInv
  BY DEF ClusterInv, Core
<1>1. CASE ExecuteAsync
  <2>1. /\ CallMethod /\ sub' = [k \in Groups |-> "sent"] /\ future' = future
        /\ touched' = touched /\ rpc' = "inflight"
    BY <1>1 DEF ExecuteAsync, CallMethod
  <2>2. ClusterTouched'
    BY <1>0, <2>1 DEF ClusterTouched, Over
  <2>3. SubCallsInv'
    BY <2>1 DEF SubCallsInv, Over
  <2> QED  BY <1>0, <2>1, <2>2, <2>3, CoreStep DEF ClusterInv, CoreNext, TypeOK
<1>2. ASSUME NEW k \in Groups, SubCallAnswers(k) \/ SubCallFails(k)
      PROVE  ClusterInv'
  <2>1. /\ sub[k] = "sent" /\ sub' \in {[sub EXCEPT ![k] = "ok"],
                                       [sub EXCEPT ![k] = "failed"]}
        /\ touched' \in {touched, touched \/ ~Alive}
        /\ UNCHANGED <<cb, rpc, done, ex_ptr, has_finish, runs, future, wait, op>>
    BY <1>2 DEF SubCallAnswers, SubCallFails, vars, doneVars
  <2>2. rpc = "inflight" /\ done = "waiting"
    BY <1>0, <2>1 DEF SubCallsInv, Lifetime, TypeOK, Over
  <2>3. ~Alive => future = "dropped_early"
    BY <1>0, <2>2 DEF Alive, Locked, Lifetime, TypeOK
  <2>4. ClusterTouched' /\ touched' \in BOOLEAN
    BY <1>0, <2>1, <2>2, <2>3 DEF ClusterTouched, TypeOK, Over
  <2>5. SubCallsInv'
    BY <1>0, <2>1, <2>2 DEF SubCallsInv, Over
  <2> QED  BY <1>0, <2>1, <2>4, <2>5, CoreStep DEF ClusterInv, CoreNext
<1>3. CASE CallCompletes
  <2>1. /\ RpcOver /\ touched' = (touched \/ ~Alive) /\ sub' = sub
        /\ \A k \in Groups : sub[k] # "sent"
        /\ rpc = "inflight" /\ future' = future
        /\ rpc' = IF Failed # {} THEN "failed" ELSE "ok"
    BY <1>3, FailLimitReached DEF CallCompletes, RpcOver, Over
  <2>2. Alive <=> future # "dropped_early"
    BY <1>0, <2>1 DEF Alive, Locked, Lifetime, Over, TypeOK
  <2>3. ClusterTouched' /\ touched' \in BOOLEAN
    BY <1>0, <2>1, <2>2 DEF ClusterTouched, TypeOK
  <2>4. SubCallsInv'
    BY <1>0, <2>1 DEF SubCallsInv, Failed, Over
  <2> QED  BY <1>0, <2>1, <2>3, <2>4, CoreStep DEF ClusterInv, CoreNext
<1>a. ASSUME UNCHANGED <<touched, rpc, sub>>, CoreNext, ClusterTouched'
      PROVE  ClusterInv'
  <2>1. SubCallsInv'
    BY <1>0, <1>a DEF SubCallsInv
  <2> QED  BY <1>0, <1>a, <2>1, CoreStep DEF ClusterInv, TypeOK
<1>4. ASSUME UNCHANGED <<touched, rpc, sub, future>>, CoreNext PROVE ClusterInv'
  <2>1. ClusterTouched'
    BY <1>0, <1>4 DEF ClusterTouched
  <2> QED  BY <1>4, <1>a, <2>1
<1>5. CASE Behind /\ UNCHANGED sub
  <2>1. UNCHANGED <<touched, rpc, future>>
    BY <1>5 DEF Behind, LockWeak, EnterCallback, LeaveCallback, StoreFinish,
                CallEnds
  <2> QED  BY <1>4, <1>5, <2>1 DEF CoreNext
<1>6. CASE Program /\ UNCHANGED sub
  <2>1. CASE ReturnFuture
    <3>1. UNCHANGED <<touched, rpc>> /\ ClusterTouched'
      BY <1>0, <2>1 DEF ReturnFuture, doneVars, ClusterTouched
    <3> QED  BY <1>6, <1>a, <3>1 DEF CoreNext
  <2>2. CASE DropFuture
    <3>1. UNCHANGED <<touched, rpc>> /\ ClusterTouched'
      BY <1>0, <2>2 DEF DropFuture, doneVars, ClusterTouched, Over
    <3> QED  BY <1>6, <1>a, <3>1 DEF CoreNext
  <2>3. ASSUME NEW w \in Waiter,
               (\E o \in {"Wait", "Get"} : StartWait(w, o)) \/ Leave(w)
        PROVE  ClusterInv'
    <3>1. UNCHANGED <<touched, rpc, future>>
      BY <2>3 DEF StartWait, Leave, doneVars
    <3> QED  BY <1>4, <1>6, <3>1 DEF CoreNext
  <2> QED  BY <1>6, <2>1, <2>2, <2>3 DEF Program
<1>7. ASSUME NEW w \in Waiter, Waiting(w), UNCHANGED sub PROVE ClusterInv'
  <2>1. UNCHANGED <<touched, rpc, future>>
    BY <1>7 DEF Waiting, CheckFinish, Join, EndWait, doneVars
  <2> QED  BY <1>4, <1>7, <2>1 DEF CoreNext
<1>8. CASE UNCHANGED clusterVars
  BY <1>4, <1>8 DEF clusterVars, vars, doneVars, CoreNext
<1> QED
  BY <1>1, <1>2, <1>3, <1>5, <1>6, <1>7, <1>8 DEF ClusterNext, SubCalls

LEMMA ClusterInvariance == ClusterSpec => []ClusterInv
BY ClusterInvInit, ClusterInvNext, PTL DEF ClusterSpec

(* The sub-calls start with the call, and nothing is written to freed      *)
(* memory unless the Future was dropped early (RedisCluster::ExecuteAsync). *)
THEOREM ClusterTypes == ClusterSpec => []ClusterTypeOK
<1>1. ClusterInv => ClusterTypeOK
  BY DEF ClusterInv, Core, ClusterTouched, SubCallsInv, ClusterTypeOK
<1> QED  BY <1>1, ClusterInvariance, PTL

(* Whoever is handed the Reply, callback or waiter, has the replies of all *)
(* servers, however many there are (fail_limit = 1 in ExecuteAsync), and   *)
(* nobody writes into it any more.                                         *)
THEOREM ReplyComplete == ClusterSpec => []ReplyIsComplete
<1>1. ClusterInv => ReplyIsComplete
  BY DEF ClusterInv, Core, Lifetime, Progress, Waiters, SubCallsInv, Over,
         ReplyIsComplete
<1> QED  BY <1>1, ClusterInvariance, PTL

(* A call over several servers takes no step that a call of one server     *)
(* could not take; that it also comes to its end is left to TLC.           *)
LEMMA OneCallInit == ClusterInit => Promise!Init
BY DEF ClusterInit, Init, Promise!Init

LEMMA OneCallNext ==
  ASSUME ClusterInv, [ClusterNext]_clusterVars
  PROVE  [Promise!Next]_(Promise!vars)
<1> SUFFICES Promise!Next \/ UNCHANGED Promise!vars
  OBVIOUS
<1> DEFINE T == touched /\ rpc # "inflight"
<1>0. Core /\ TypeOK /\ Lifetime /\ ClusterTouched /\ SubCallsInv
  BY DEF ClusterInv, Core
<1>1. CASE ExecuteAsync
  <2>1. ~T /\ ~T'
    BY <1>0, <1>1 DEF ExecuteAsync, CallMethod, ClusterTouched, Lifetime
  <2>2. Promise!CallMethod
    BY <1>1, <2>1 DEF ExecuteAsync, CallMethod, Promise!CallMethod
  <2> QED  BY <2>2 DEF Promise!Next
<1>2. ASSUME NEW k \in Groups, SubCallAnswers(k) \/ SubCallFails(k)
      PROVE  UNCHANGED Promise!vars
  <2>1. /\ sub[k] = "sent"
        /\ UNCHANGED <<cb, rpc, done, ex_ptr, has_finish, runs, future, wait, op>>
    BY <1>2 DEF SubCallAnswers, SubCallFails, vars, doneVars
  <2>2. rpc = "inflight"
    BY <1>0, <2>1 DEF SubCallsInv, TypeOK, Over
  <2> QED  BY <2>1, <2>2 DEF Promise!vars, Promise!doneVars
<1>3. CASE CallCompletes
  <2>1. touched => ~Alive
    BY <1>0, <1>3 DEF CallCompletes, ClusterTouched, Alive, Locked, Lifetime,
                      TypeOK, Over
  <2>2. rpc' \in {"ok", "failed"} /\ touched' = ~Alive
    BY <1>3, <2>1 DEF CallCompletes, Alive, Locked
  <2>3. T' = ~Alive
    BY <2>2
  <2>4. Promise!RpcEnds
    BY <1>3, <2>2, <2>3
    DEF CallCompletes, Promise!RpcEnds, Promise!Alive, Promise!Locked, Alive,
        Locked
  <2> QED  BY <2>4 DEF Promise!Next, Promise!Completion
<1>4. CASE Behind
  <2>1. \/ Promise!LockWeak \/ Promise!EnterCallback \/ Promise!LeaveCallback
        \/ Promise!StoreFinish \/ Promise!CallEnds
    BY <1>4
    DEF Behind, LockWeak, EnterCallback, LeaveCallback, StoreFinish, CallEnds,
        Alive, Locked,
        Promise!LockWeak, Promise!EnterCallback, Promise!LeaveCallback,
        Promise!StoreFinish, Promise!CallEnds, Promise!Alive, Promise!Locked
  <2> QED  BY <2>1 DEF Promise!Next, Promise!Completion
<1>5. CASE ReturnFuture \/ DropFuture
  <2>1. Promise!ReturnFuture \/ Promise!DropFuture
    BY <1>5 DEF ReturnFuture, DropFuture, doneVars, Promise!ReturnFuture,
                Promise!DropFuture, Promise!doneVars
  <2> QED  BY <2>1 DEF Promise!Next
<1>6. ASSUME NEW w \in Waiter, NEW o \in {"Wait", "Get"}, StartWait(w, o)
      PROVE  Promise!StartWait(w, o)
  BY <1>6 DEF StartWait, Ended, doneVars, Promise!StartWait, Promise!Ended,
              Promise!doneVars
<1>7. ASSUME NEW w \in Waiter, Leave(w) \/ Waiting(w)
      PROVE  \/ Promise!CheckFinish(w) \/ Promise!Join(w)
             \/ Promise!EndWait(w) \/ Promise!Leave(w)
  BY <1>7
  DEF Leave, Waiting, CheckFinish, Join, EndWait, Ending, Ended, doneVars,
      Promise!Leave, Promise!CheckFinish, Promise!Join, Promise!EndWait,
      Promise!Ending, Promise!Ended, Promise!doneVars
<1>8. CASE UNCHANGED clusterVars
  BY <1>8 DEF clusterVars, vars, doneVars, Promise!vars, Promise!doneVars
<1> QED
  BY <1>1, <1>2, <1>3, <1>4, <1>5, <1>6, <1>7, <1>8
  DEF ClusterNext, SubCalls, Program, Promise!Next

THEOREM LooksLikeOneCall == ClusterSpec => Promise!Spec
<1>1. ClusterInv /\ [ClusterNext]_clusterVars => [Promise!Next]_(Promise!vars)
  BY OneCallNext
<1> QED  BY <1>1, OneCallInit, ClusterInvariance, PTL DEF ClusterSpec, Promise!Spec
===============================================================================
