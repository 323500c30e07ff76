------------------------------ MODULE AsyncCluster ------------------------------
(***************************************************************************)
(* RedisCluster::ExecuteAsync of a batch that needs several servers        *)
(* (src/redis_cluster.cpp): one ParallelChannel call whose sub-calls write *)
(* their responses into the Reply of one AsyncData, in any order, and      *)
(* whose completion brpc runs when the last of them has ended.             *)
(*                                                                         *)
(* The Future, the completion and the waiters are those of AsyncCall.      *)
(***************************************************************************)
EXTENDS AsyncCall, FiniteSets

CONSTANT Groups   \* the Mapper: one group per server

ASSUME GroupsAssumption == IsFiniteSet(Groups) /\ Groups # {}

VARIABLE sub   \* brpc: each sub-call is "unsent", "sent", "ok" or "failed"

clusterVars == <<vars, sub>>

(* Mutant: without opts.fail_limit a call fails when all sub-calls do. *)
AllMustFail == Cardinality(Groups)

(* opts.fail_limit: the call fails as soon as this many sub-calls fail. *)
FailLimit == 1

Failed == {k \in Groups : sub[k] = "failed"}

ClusterInit == Init /\ sub = [k \in Groups |-> "unsent"]

(* ExecuteAsync: every sub-call is issued by pchan.CallMethod.  The        *)
(* ParallelChannel, a local variable, is gone when the Future is returned. *)
ExecuteAsync ==
  /\ CallMethod
  /\ sub' = [k \in Groups |-> "sent"]

(* External: a server answers, and its replies are written into the        *)
(* response that CallMapper::Map named, in the AsyncData.                  *)
SubCallAnswers(k) ==
  /\ sub[k] = "sent"
  /\ sub' = [sub EXCEPT ![k] = "ok"]
  /\ touched' = (touched \/ ~Alive)
  /\ UNCHANGED <<cb, rpc, done, ex_ptr, has_finish, runs, future, wait, op>>

(* External: a sub-call fails by itself, or is cancelled because the fail  *)
(* limit or the deadline of the call was reached.                          *)
SubCallFails(k) ==
  /\ sub[k] = "sent"
  /\ sub' = [sub EXCEPT ![k] = "failed"]
  /\ UNCHANGED vars

(* Mutant: the call ends with the first failure, before the other          *)
(* sub-calls have ended.                                                   *)
EndsAtFirstFailure ==
  /\ rpc = "inflight"
  /\ \/ \A k \in Groups : sub[k] # "sent"
     \/ Failed # {}
  /\ rpc' = IF Cardinality(Failed) >= FailLimit THEN "failed" ELSE "ok"
  /\ touched' = (touched \/ ~Alive)
  /\ done' = "called"
  /\ UNCHANGED <<cb, ex_ptr, has_finish, runs, future, wait, op, sub>>

(* External: after the last sub-call brpc writes the Controller and runs   *)
(* the completion.  The responses are there already: Merge does nothing.   *)
CallCompletes ==
  /\ rpc = "inflight" /\ \A k \in Groups : sub[k] # "sent"
  /\ rpc' = IF Cardinality(Failed) >= FailLimit THEN "failed" ELSE "ok"
  /\ touched' = (touched \/ ~Alive)
  /\ done' = "called"
  /\ UNCHANGED <<cb, ex_ptr, has_finish, runs, future, wait, op, sub>>

SubCalls == CallCompletes \/ \E k \in Groups : SubCallAnswers(k) \/ SubCallFails(k)

(* What AsyncCall does behind the RPC. *)
Behind == LockWeak \/ EnterCallback \/ LeaveCallback \/ StoreFinish \/ CallEnds

Waiting(w) == CheckFinish(w) \/ Join(w) \/ EndWait(w)

Program ==
  \/ ReturnFuture \/ DropFuture
  \/ \E w \in Waiter : \E o \in {"Wait", "Get"} : StartWait(w, o)
  \/ \E w \in Waiter : Leave(w)

ClusterNext ==
  \/ ExecuteAsync
  \/ SubCalls
  \/ (Behind \/ Program \/ \E w \in Waiter : Waiting(w)) /\ UNCHANGED sub

(* brpc ends every sub-call: its retries and its deadline are finite.      *)
ClusterSpec ==
  /\ ClusterInit /\ [][ClusterNext]_clusterVars
  /\ WF_clusterVars(SubCalls)
  /\ WF_clusterVars(Behind /\ UNCHANGED sub)
  /\ \A w \in Waiter : WF_clusterVars(Waiting(w) /\ UNCHANGED sub)

-------------------------------------------------------------------------------
(* Types; the sub-calls start with the call; and brpc writes to freed      *)
(* memory only when the Future was dropped early.                          *)
ClusterTypeOK ==
  /\ TypeOK
  /\ sub \in [Groups -> {"unsent", "sent", "ok", "failed"}]
  /\ \A k \in Groups : (sub[k] = "unsent" <=> rpc = "unsent")
  /\ touched => future = "dropped_early"

(* Once the completion was started no server writes into the Reply any     *)
(* more, and whoever is handed it, the callback or a waiter, has the       *)
(* replies of all servers: the failure of one fails the call.              *)
ReplyIsComplete ==
  /\ done # "waiting" => \A k \in Groups : sub[k] # "sent"
  /\ done = "in_callback" \/ (\E w \in Waiter : wait[w] = "reply") =>
       \A k \in Groups : sub[k] = "ok"

(* To the program a call over several servers is one call: sub-calls that  *)
(* end in any order, fail, or write into a Reply that was dropped early,   *)
(* look like one RPC that ends once; and every Wait ends as it does there. *)
Promise == INSTANCE AsyncCall WITH touched <- touched /\ rpc # "inflight"
ImplementsAsyncCall == Promise!FairSpec
===============================================================================
