--------------------------- MODULE RedisClusterProofs ---------------------------
(***************************************************************************)
(* Proofs about RedisCluster, for every set of commands and servers, every *)
(* slot map, every length of a batch, every bound and every schedule of    *)
(* the sub-calls.                                                          *)
(*                                                                         *)
(* Three invariants, each on the one before: TypeInv (types, and what a    *)
(* phase has not touched yet) with Owned (who deletes the CallMapper);     *)
(* ReplyInv (how groups, requests and positions fit together); and CallInv *)
(* (who answered, and what the servers applied).  From them, what a batch  *)
(* comes to: every command reads its own reply, an index beyond the batch  *)
(* reads none, one command in an uncovered slot stops the whole batch, the *)
(* last write of a slot stays, only a read behind a System command is      *)
(* redirected, and the caller sees no more than BatchCall promises.        *)
(***************************************************************************)
EXTENDS RedisCluster, SequenceTheorems, FiniteSetTheorems, TLAPS

(* What the call has not touched yet in each phase.                        *)
Unbuilt == order = <<>> /\ reqs = <<>> /\ resps = <<>> /\ replyMap = <<>>
           /\ added = 0
Unsent  == sub = <<>> /\ tries = <<>> /\ late = {}

PhaseInv ==
  /\ pc = "idle" => NoCall
  /\ pc \in {"route", "single"} => Unbuilt
  /\ pc \in {"route", "single", "build", "channels", "send"} => Unsent
  /\ pc \in {"idle", "route", "single", "build", "channels", "send", "wait"}
       => outcome = "none"
  /\ pc = "wait" => DOMAIN sub = 1..Len(order)
  /\ DOMAIN tries = DOMAIN sub
  /\ \A k \in DOMAIN sub : sub[k] = "sent" => tries[k] > 0
  /\ \A s \in Target : Len(mapping[s]) < next

TypeInv == TypeOK /\ PhaseInv

-------------------------------------------------------------------------------
(* Lemmas on the operators. *)

LEMMA SlotsOfCommands ==
  /\ \A cmd \in Command : SlotOf[cmd] \in Used
  /\ Used \subseteq Int
BY CommandAssumption DEF Used, Range

LEMMA OffsetType ==
  ASSUME NEW indexes PROVE OffsetFor(indexes) \in {0, 1}
BY DEF OffsetFor

(* A function on 1..n is a sequence. *)
LEMMA FunctionIsSeq ==
  ASSUME NEW n \in Nat, NEW S, NEW f \in [1..n -> S]
  PROVE  f \in Seq(S) /\ Len(f) = n
OBVIOUS

(* The request of a group is READONLY, if any, then the group. *)
LEMMA RequestType ==
  ASSUME NEW n \in Nat, NEW indexes \in Seq(1..n)
  PROVE  /\ RequestFor(indexes) \in Seq(0..n)
         /\ Len(RequestFor(indexes)) = OffsetFor(indexes) + Len(indexes)
<1> DEFINE off == OffsetFor(indexes)
           m   == off + Len(indexes)
<1>1. off \in {0, 1} /\ Len(indexes) \in Nat /\ m \in Nat
  BY OffsetType
<1> HIDE DEF off
<1>2. [q \in 1..m |-> IF q <= off THEN 0 ELSE indexes[q - off]]
        \in [1..m -> 0..n]
  BY <1>1
<1>3. RequestFor(indexes)
        = [q \in 1..m |-> IF q <= off THEN 0 ELSE indexes[q - off]]
  BY DEF RequestFor, off
<1> QED  BY <1>1, <1>2, <1>3, FunctionIsSeq DEF off

LEMMA WholeBatchType ==
  ASSUME commands \in Seq(Command)
  PROVE  /\ WholeBatch \in Seq(1..Len(commands))
         /\ Len(WholeBatch) = Len(commands)
BY FunctionIsSeq DEF WholeBatch, Batch

(* One reply per request sent. *)
LEMMA AnswersType ==
  ASSUME NEW n \in Nat, NEW s, NEW req \in Seq(0..n), NEW sticky \in BOOLEAN
  PROVE  /\ Answers(s, req, sticky) \in Seq([pos : 0..n, served : BOOLEAN])
         /\ Len(Answers(s, req, sticky)) = Len(req)
         /\ \A q \in 1..Len(req) : Answers(s, req, sticky)[q].pos = req[q]
<1> DEFINE sv(q) == req[q] = 0
                 \/ Serves(s, req[q], sticky \/ ReadonlyBefore(req, q))
           f == [q \in 1..Len(req) |-> [pos |-> req[q], served |-> sv(q)]]
           T == [pos : 0..n, served : BOOLEAN]
<1>0. Answers(s, req, sticky) = f
  BY DEF Answers
<1>1. \A q : sv(q) \in BOOLEAN
  OBVIOUS
<1> HIDE DEF sv
<1>2. Len(req) \in Nat /\ \A q \in 1..Len(req) : req[q] \in 0..n
  OBVIOUS
<1>3. \A q \in 1..Len(req) :
        [pos |-> req[q], served |-> sv(q)] \in T
  BY <1>1, <1>2
<1>4. f \in [1..Len(req) -> T]
  BY <1>3
<1> HIDE DEF f, T
<1>5. f \in Seq(T) /\ Len(f) = Len(req)
  BY <1>2, <1>4, FunctionIsSeq
<1>6. \A q \in 1..Len(req) : f[q].pos = req[q]
  BY DEF f
<1> QED  BY <1>0, <1>5, <1>6 DEF T

(* What a prefix of a request leaves in the store are positions. *)
LEMMA AppliedType ==
  ASSUME NEW s, NEW n \in Nat, NEW req \in Seq(0..n), NEW m \in 0..Len(req),
         store \in [Used -> 0..n]
  PROVE  Applied(s, req, m) \in [Used -> 0..n]
<1>1. ASSUME NEW slot \in Used, LastApplied(s, req, m, slot) # {}
      PROVE  req[CHOOSE q \in LastApplied(s, req, m, slot) : TRUE] \in 0..n
  <2>1. LastApplied(s, req, m, slot) \subseteq 1..m
    BY DEF LastApplied
  <2>2. (CHOOSE q \in LastApplied(s, req, m, slot) : TRUE) \in 1..m
    BY <1>1, <2>1
  <2> QED  BY <2>2
<1> QED  BY <1>1 DEF Applied

-------------------------------------------------------------------------------
(* Type correctness. *)

LEMMA TypeInit == Init => TypeInv
<1> SUFFICES ASSUME Init PROVE TypeInv
  OBVIOUS
<1>1. /\ commands = <<>> /\ Len(commands) = 0 /\ commands \in Seq(Command)
      /\ pending \in Seq(Command) /\ pc = "idle" /\ NoCall
  BY DEF Init, NoCall
<1>2. TypeOK
  BY <1>1 DEF NoCall, TypeOK, Batch
<1>3. PhaseInv
  BY <1>1 DEF PhaseInv, NoCall, Unbuilt, Unsent
<1> QED  BY <1>2, <1>3 DEF TypeInv

(* The batch may change while no call is under way. *)
LEMMA KeepCall ==
  ASSUME TypeInv, pending' \in Seq(Command),
         UNCHANGED <<pc, callVars, netVars, outcome>>
  PROVE  TypeInv'
<1>1. TypeOK /\ PhaseInv
  BY DEF TypeInv
<1>2. TypeOK'
  BY <1>1 DEF callVars, netVars, TypeOK, Batch
<1>3. PhaseInv'
  BY <1>1 DEF callVars, netVars, PhaseInv, NoCall, Unbuilt, Unsent
<1> QED  BY <1>2, <1>3 DEF TypeInv

(* A call starts from the clean state of the idle object. *)
LEMMA StartCall ==
  ASSUME NoCall, commands' \in Seq(Command), pending' \in Seq(Command),
         UNCHANGED <<unrouted, netVars>>,
         \/ pc' = "route" /\ outcome' = outcome
         \/ pc' = "returned" /\ outcome' = "invalid_argument"
  PROVE  TypeInv'
<1> DEFINE n == Len(commands')
<1>1. n \in Nat
  OBVIOUS
<1>2. /\ next' = 1 /\ mapping' = [s \in Target |-> <<>>]
      /\ order' = <<>> /\ reqs' = <<>> /\ resps' = <<>> /\ replyMap' = <<>>
      /\ added' = 0 /\ owners' = {}
      /\ sub' = <<>> /\ tries' = <<>> /\ late' = {}
      /\ store' = [slot \in Used |-> 0]
      /\ outcome' \in {"none", "invalid_argument"}
      /\ pc' = "route" => outcome' = "none"
      /\ pc' \in {"route", "returned"}
  BY DEF NoCall, unrouted, netVars
<1> HIDE DEF n
<1>3. /\ next' \in 1..(n + 1)
      /\ store' \in [Used -> 0..n]
  BY <1>1, <1>2
<1>4. TypeOK'
  BY <1>2, <1>3 DEF TypeOK, Batch, n
<1>5. PhaseInv'
  BY <1>2 DEF PhaseInv, Unbuilt, Unsent
<1> QED  BY <1>4, <1>5 DEF TypeInv

(* What a sub-call under way works on. *)
LEMMA SubCallType ==
  ASSUME TypeOK, NEW k \in DOMAIN sub
  PROVE  /\ k \in 1..Len(order) /\ Len(commands) \in Nat
         /\ reqs[k] \in Seq(0..Len(commands)) /\ Len(reqs[k]) \in Nat
         /\ store \in [Used -> 0..Len(commands)]
<1>1. /\ DOMAIN sub \in {1..Len(order), {}} /\ Len(reqs) = Len(order)
      /\ store \in [Used -> 0..Len(commands)]
  BY DEF TypeOK
<1>2. reqs \in Seq(Seq(0..Len(commands)))
  BY DEF TypeOK
<1>3. commands \in Seq(Command)
  BY DEF TypeOK
<1>4. k \in 1..Len(order) /\ Len(commands) \in Nat
  BY <1>1, <1>3
<1>5. reqs[k] \in Seq(0..Len(commands))
  BY <1>1, <1>2, <1>4
<1> QED  BY <1>1, <1>4, <1>5

LEMMA TypeNext == TypeInv /\ [Next]_vars => TypeInv'
<1> SUFFICES ASSUME TypeInv, [Next]_vars PROVE TypeInv'
  OBVIOUS
<1> TypeOK /\ PhaseInv
  BY DEF TypeInv
<1>u. CASE UNCHANGED vars
  <2>1. TypeOK'
    BY <1>u DEF vars, callVars, netVars, TypeOK, Batch
  <2>2. PhaseInv'
    BY <1>u DEF vars, callVars, netVars, PhaseInv, NoCall, Unbuilt, Unsent
  <2> QED  BY <2>1, <2>2 DEF TypeInv
<1>1. ASSUME NEW cmd \in Command, Add(cmd) PROVE TypeInv'
  <2>1. pending' \in Seq(Command)
    BY <1>1 DEF Add, TypeOK
  <2>2. UNCHANGED <<pc, callVars, netVars, outcome>>
    BY <1>1 DEF Add
  <2> QED  BY <2>1, <2>2, KeepCall
<1>2. CASE Reset
  <2>1. pending' \in Seq(Command)
    BY <1>2 DEF Reset
  <2>2. UNCHANGED <<pc, callVars, netVars, outcome>>
    BY <1>2 DEF Reset
  <2> QED  BY <2>1, <2>2, KeepCall
<1>3. CASE Execute
  <2>1. commands' \in Seq(Command) /\ pc = "idle" /\ NoCall
        /\ pending' \in Seq(Command)
    BY <1>3 DEF Execute, TypeOK, PhaseInv
  <2>2. CASE pc' = "returned" /\ outcome' = "invalid_argument"
    BY <1>3, <2>1, <2>2, StartCall DEF Execute
  <2>3. CASE pc' = "route" /\ outcome' = outcome
    BY <1>3, <2>1, <2>3, StartCall DEF Execute
  <2> QED  BY <1>3, <2>2, <2>3 DEF Execute
<1>3b. ASSUME NEW cmd \in Command, ExecuteOne(cmd) PROVE TypeInv'
  <2>1. commands' \in Seq(Command) /\ pc = "idle" /\ NoCall
        /\ pending' \in Seq(Command)
    BY <1>3b DEF ExecuteOne, TypeOK, PhaseInv
  <2> QED  BY <1>3b, <2>1, StartCall DEF ExecuteOne
<1>4. CASE Take
  <2>1. NoCall' /\ pc' = "idle" /\ pending' \in Seq(Command)
    BY <1>4 DEF Take, NoCall, TypeOK
  <2>2. TypeOK'
    BY <2>1 DEF NoCall, TypeOK, Batch
  <2>3. PhaseInv'
    BY <2>1 DEF PhaseInv, NoCall, Unbuilt, Unsent
  <2> QED  BY <2>2, <2>3 DEF TypeInv
<1>5. CASE RouteCommand
  <2>1. PICK s \in GetServer(commands[next]) :
          mapping' = [mapping EXCEPT ![s] = Append(@, next)]
    BY <1>5 DEF RouteCommand, PushBack
  <2>2. next \in Batch /\ next' = next + 1 /\ next' \in 1..(Len(commands) + 1)
    <3>1. next \in 1..(Len(commands) + 1) /\ Len(commands) \in Nat
      BY DEF TypeOK
    <3>2. next <= Len(commands) /\ next' = next + 1
      BY <1>5 DEF RouteCommand
    <3> QED  BY <3>1, <3>2 DEF Batch
  <2>3. mapping' \in [Target -> Seq(Batch)]
    <3>1. mapping \in [Target -> Seq(Batch)]
      BY DEF TypeOK
    <3>2. CASE s \in Target
      <4>1. Append(mapping[s], next) \in Seq(Batch)
        BY <2>2, <3>1, <3>2
      <4> QED  BY <2>1, <3>1, <4>1
    <3>3. CASE s \notin Target
      BY <2>1, <3>1, <3>3
    <3> QED  BY <3>2, <3>3
  <2>4. \A t \in Target : Len(mapping'[t]) < next'
    <3> SUFFICES ASSUME NEW t \in Target PROVE Len(mapping'[t]) < next'
      OBVIOUS
    <3>1. mapping[t] \in Seq(Batch) /\ Len(mapping[t]) < next
      BY DEF TypeOK, PhaseInv
    <3>2. mapping'[t] = mapping[t] \/ mapping'[t] = Append(mapping[t], next)
      BY <2>1 DEF TypeOK
    <3> QED  BY <3>1, <3>2, <2>2 DEF Batch
  <2>5. TypeOK'
    BY <1>5, <2>2, <2>3 DEF RouteCommand, TypeOK, netVars, Batch
  <2>6. PhaseInv'
    BY <1>5, <2>4 DEF RouteCommand, PhaseInv, Unbuilt, Unsent, netVars
  <2> QED  BY <2>5, <2>6 DEF TypeInv
<1>6. CASE Routed
  <2>1. TypeOK'
    BY <1>6 DEF Routed, TypeOK, callVars, netVars, Batch
  <2>2. PhaseInv'
    BY <1>6 DEF Routed, PhaseInv, Unbuilt, Unsent, callVars, netVars
  <2> QED  BY <2>1, <2>2 DEF TypeInv
<1>7. ASSUME NEW s \in Target, SingleChannel(s) PROVE TypeInv'
  <2>1. order = <<>> /\ reqs = <<>> /\ resps = <<>> /\ replyMap = <<>>
        /\ added = 0 /\ Unsent /\ Len(commands) \in Nat
        /\ WholeBatch \in Seq(1..Len(commands))
    BY <1>7, WholeBatchType DEF SingleChannel, TypeOK, PhaseInv, Unbuilt
  <2>2. RequestFor(WholeBatch) \in Seq(0..Len(commands))
    BY <2>1, RequestType
  <2>3. NewResponse(OffsetFor(WholeBatch))
          \in [resp : Seq([pos : 0..Len(commands), served : BOOLEAN]),
               offset : {0, 1}]
    BY OffsetType DEF NewResponse
  <2>4. CASE /\ CanConnect(s)
             /\ order' = <<s>>
             /\ reqs' = <<BuildExecutor.req>>
             /\ resps' = <<NewResponse(BuildExecutor.offset)>>
             /\ pc' = "send" /\ outcome' = outcome
    <3>1. order' \in Seq(Target) /\ Len(order') = 1
      BY <2>4
    <3>2. reqs' \in Seq(Seq(0..Len(commands))) /\ Len(reqs') = 1
      BY <2>4, <2>2 DEF BuildExecutor
    <3>3. /\ resps' \in Seq([resp : Seq([pos : 0..Len(commands), served : BOOLEAN]),
                             offset : {0, 1}])
          /\ Len(resps') = 1
      BY <2>4, <2>3 DEF BuildExecutor
    <3>4. TypeOK'
      BY <1>7, <2>1, <2>4, <3>1, <3>2, <3>3
      DEF SingleChannel, TypeOK, Unsent, netVars, Batch
    <3>5. PhaseInv'
      BY <1>7, <2>1, <2>4 DEF SingleChannel, PhaseInv, Unsent, netVars
    <3> QED  BY <3>4, <3>5 DEF TypeInv
  <2>5. CASE Refuse /\ UNCHANGED <<order, reqs, resps>>
    <3>1. TypeOK'
      BY <1>7, <2>5 DEF SingleChannel, TypeOK, netVars, Batch, Refuse
    <3>2. PhaseInv'
      BY <1>7, <2>5 DEF SingleChannel, PhaseInv, netVars, Refuse
    <3> QED  BY <3>1, <3>2 DEF TypeInv
  <2> QED  BY <1>7, <2>4, <2>5 DEF SingleChannel
<1>8. ASSUME NEW s \in Target, BuildRequestResponse(s) PROVE TypeInv'
  <2> DEFINE n == Len(commands)
             R == [resp : Seq([pos : 0..n, served : BOOLEAN]), offset : {0, 1}]
  <2>1. mapping[s] \in Seq(1..n) /\ n \in Nat /\ Len(mapping[s]) \in 0..n
    BY DEF TypeOK, PhaseInv, Batch
  <2>2. RequestFor(mapping[s]) \in Seq(0..n)
    BY <2>1, RequestType
  <2>3. NewResponse(OffsetFor(mapping[s])) \in R
    BY OffsetType DEF NewResponse
  <2>4. /\ UNCHANGED <<pending, commands>> /\ pc' = "build" /\ pc = "build"
        /\ order' = Append(order, s)
        /\ reqs' = Append(reqs, RequestFor(mapping[s]))
        /\ resps' = Append(resps, NewResponse(OffsetFor(mapping[s])))
        /\ replyMap' = AddToMapping(mapping[s], Len(resps) + 1)
        /\ UNCHANGED <<next, mapping, added, owners, sub, tries, late, store,
                       outcome>>
    BY <1>8 DEF BuildRequestResponse, netVars
  <2>5. order' \in Seq(Target) /\ Len(order') = Len(order) + 1
    BY <2>4 DEF TypeOK
  <2>6. reqs' \in Seq(Seq(0..n)) /\ Len(reqs') = Len(order')
    <3>1. reqs \in Seq(Seq(0..n)) /\ Len(reqs) = Len(order)
      BY DEF TypeOK
    <3> QED  BY <2>2, <2>4, <2>5, <3>1
  <2>7. resps' \in Seq(R) /\ Len(resps') = Len(order')
    <3>1. resps \in Seq(R) /\ Len(resps) = Len(order)
      BY DEF TypeOK
    <3> HIDE DEF R
    <3> QED  BY <2>3, <2>4, <2>5, <3>1
  <2>8. /\ DOMAIN replyMap' \subseteq 1..n
        /\ replyMap' \in [DOMAIN replyMap' -> (1..Len(order')) \X (1..n)]
    <3>1. DOMAIN replyMap' = DOMAIN replyMap \cup Range(mapping[s])
      BY <2>4 DEF AddToMapping
    <3>2. Range(mapping[s]) \subseteq 1..n
      BY <2>1 DEF Range
    <3>3. ASSUME NEW i \in Range(mapping[s])
          PROVE  replyMap'[i] \in (1..Len(order')) \X (1..n)
      <4> DEFINE q == CHOOSE q \in DOMAIN mapping[s] : mapping[s][q] = i
      <4>1. q \in DOMAIN mapping[s]
        BY <3>3 DEF Range
      <4>2. q \in 1..n
        BY <4>1, <2>1
      <4>3. replyMap'[i] = <<Len(resps) + 1, q>>
        BY <2>4, <3>3 DEF AddToMapping
      <4> HIDE DEF q
      <4>4. Len(resps) + 1 \in 1..Len(order')
        BY <2>5 DEF TypeOK
      <4> QED  BY <4>2, <4>3, <4>4
    <3>4. ASSUME NEW i \in DOMAIN replyMap, i \notin Range(mapping[s])
          PROVE  replyMap'[i] \in (1..Len(order')) \X (1..n)
      <4>1. replyMap'[i] = replyMap[i]
        BY <2>4, <3>4 DEF AddToMapping
      <4>2. replyMap[i] \in (1..Len(order)) \X (1..n)
        BY DEF TypeOK, Batch
      <4> QED  BY <4>1, <4>2, <2>5 DEF TypeOK
    <3>5. DOMAIN replyMap \subseteq 1..n
      BY DEF TypeOK, Batch
    <3>6. replyMap' = [i \in DOMAIN replyMap' |-> replyMap'[i]]
      BY <2>4 DEF AddToMapping
    <3> QED  BY <3>1, <3>2, <3>3, <3>4, <3>5, <3>6
  <2>9. TypeOK'
    <3>1. sub = <<>> /\ tries = <<>> /\ late = {} /\ added \in 0..Len(order')
      BY <2>4, <2>5 DEF PhaseInv, Unsent, TypeOK
    <3> HIDE DEF R
    <3>2. /\ resps' \in Seq([resp : Seq([pos : 0..n, served : BOOLEAN]),
                             offset : {0, 1}])
      BY <2>7 DEF R
    <3> QED  BY <2>4, <2>5, <2>6, <2>7, <2>8, <3>1, <3>2 DEF TypeOK, Batch
  <2>10. PhaseInv'
    BY <2>4 DEF PhaseInv, Unsent
  <2> QED  BY <2>9, <2>10 DEF TypeInv
<1>9. CASE StartPChan
  <2>1. TypeOK'
    BY <1>9 DEF StartPChan, TypeOK, netVars, Batch
  <2>2. PhaseInv'
    BY <1>9 DEF StartPChan, PhaseInv, Unsent, netVars
  <2> QED  BY <2>1, <2>2 DEF TypeInv
<1>10. CASE AddChannel
  <2>1. /\ added' \in 0..Len(order) /\ owners' \subseteq {"unique_ptr", "pchan"}
        /\ pc' \in {"channels", "returned"}
        /\ outcome' \in {"none", "runtime_error"}
        /\ UNCHANGED <<pending, commands, next, mapping, order, reqs, resps, replyMap,
                       sub, tries, late, store>>
    <3>1. /\ added \in 0..Len(order) /\ Len(order) \in Nat
          /\ owners \subseteq {"unique_ptr", "pchan"}
          /\ pc = "channels" /\ outcome = "none"
      BY <1>10 DEF TypeOK, PhaseInv, AddChannel
    <3>2. CASE Refuse /\ UNCHANGED <<added, owners>>
      BY <1>10, <3>1, <3>2 DEF AddChannel, netVars, Refuse
    <3>3. CASE /\ added' = added + 1
               /\ owners' = owners \cup {"pchan"}
               /\ UNCHANGED <<pc, outcome>>
      <4>1. added < Len(order)
        BY <1>10 DEF AddChannel
      <4>2. added' \in 0..Len(order)
        BY <3>1, <3>3, <4>1
      <4>3. owners' \subseteq {"unique_ptr", "pchan"}
        BY <3>1, <3>3
      <4> QED  BY <1>10, <3>1, <3>3, <4>2, <4>3 DEF AddChannel, netVars
    <3> QED  BY <1>10, <3>2, <3>3 DEF AddChannel
  <2>3. TypeOK'
    BY <2>1 DEF TypeOK, Batch
  <2>2. PhaseInv'
    BY <1>10 DEF AddChannel, PhaseInv, Unsent, netVars, Refuse
  <2> QED  BY <2>2, <2>3 DEF TypeInv
<1>11. CASE ReleaseMapper
  <2>1. TypeOK'
    BY <1>11 DEF ReleaseMapper, TypeOK, netVars, Batch
  <2>2. PhaseInv'
    BY <1>11 DEF ReleaseMapper, PhaseInv, Unsent, netVars
  <2> QED  BY <2>1, <2>2 DEF TypeInv
<1>12. CASE CallMethod
  <2>1. DOMAIN order = 1..Len(order)
    BY DEF TypeOK
  <2>2. /\ sub' \in [1..Len(order) -> {"sent", "ok", "failed"}]
        /\ tries' \in [1..Len(order) -> 0..MaxTries]
        /\ \A k \in 1..Len(order) : tries'[k] > 0
    BY <1>12, <2>1, BoundAssumption DEF CallMethod
  <2>3. DOMAIN sub' = 1..Len(order) /\ DOMAIN tries' = 1..Len(order)
    BY <2>2
  <2>4. late' = {} /\ pc' = "wait" /\ outcome = "none" /\ pc = "send"
    BY <1>12 DEF CallMethod, PhaseInv, Unsent
  <2>5. TypeOK'
    BY <1>12, <2>2, <2>3, <2>4 DEF CallMethod, TypeOK, callVars, Batch
  <2>6. PhaseInv'
    BY <1>12, <2>2, <2>3, <2>4 DEF CallMethod, PhaseInv, callVars
  <2> QED  BY <2>5, <2>6 DEF TypeInv
<1>13. ASSUME NEW k \in DOMAIN sub, SubCallAnswers(k) PROVE TypeInv'
  <2> DEFINE n == Len(commands)
             A == [pos : 0..n, served : BOOLEAN]
             R == [resp : Seq(A), offset : {0, 1}]
  <2>1. k \in 1..Len(order) /\ n \in Nat /\ reqs[k] \in Seq(0..n)
        /\ Len(reqs[k]) \in Nat /\ store \in [Used -> 0..n]
    BY <1>13, SubCallType
  <2>2. PICK sticky \in BOOLEAN :
          resps' = [resps EXCEPT ![k].resp = Answers(order[k], reqs[k], sticky)]
    BY <1>13 DEF SubCallAnswers
  <2>3. Answers(order[k], reqs[k], sticky) \in Seq(A)
    BY <2>1, AnswersType
  <2>4. resps \in Seq(R) /\ Len(resps) = Len(order)
    BY DEF TypeOK
  <2>5. resps' \in Seq(R) /\ Len(resps') = Len(order)
    <3> HIDE DEF A
    <3> HIDE DEF R
    <3>1. resps[k] \in R
      BY <2>1, <2>4
    <3> USE DEF R
    <3>2. [resps[k] EXCEPT !.resp = Answers(order[k], reqs[k], sticky)] \in R
      BY <2>3, <3>1
    <3>3. resps' = [resps EXCEPT ![k] =
            [resps[k] EXCEPT !.resp = Answers(order[k], reqs[k], sticky)]]
      BY <2>2
    <3> HIDE DEF R
    <3> QED  BY <2>1, <2>4, <3>2, <3>3
  <2>6. store' \in [Used -> 0..n]
    <3>1. store' = Applied(order[k], reqs[k], Len(reqs[k]))
      BY <1>13 DEF SubCallAnswers
    <3>2. Len(reqs[k]) \in 0..Len(reqs[k])
      BY <2>1
    <3> QED  BY <2>1, <3>1, <3>2, AppliedType
  <2>7. /\ pc = "wait" /\ pc' = "wait" /\ sub' = [sub EXCEPT ![k] = "ok"]
        /\ UNCHANGED <<pending, commands, next, mapping, order, reqs, replyMap, added,
                       owners, tries, late, outcome>>
    BY <1>13 DEF SubCallAnswers
  <2>8. sub' \in [DOMAIN sub -> {"sent", "ok", "failed"}] /\ DOMAIN sub' = DOMAIN sub
    BY <2>7 DEF TypeOK
  <2>9. TypeOK'
    <3>1. resps' \in Seq([resp : Seq([pos : 0..n, served : BOOLEAN]),
                          offset : {0, 1}])
      BY <2>5
    <3> HIDE DEF R, A
    <3> QED  BY <2>5, <2>6, <2>7, <2>8, <3>1 DEF TypeOK, Batch
  <2>10. PhaseInv'
    BY <2>7, <2>8 DEF PhaseInv, TypeOK
  <2> QED  BY <2>9, <2>10 DEF TypeInv
<1>14. ASSUME NEW k \in DOMAIN sub, SubCallBreaks(k) PROVE TypeInv'
  <2> DEFINE n == Len(commands)
  <2>1. k \in 1..Len(order) /\ n \in Nat /\ reqs[k] \in Seq(0..n)
        /\ Len(reqs[k]) \in Nat /\ store \in [Used -> 0..n]
        /\ tries[k] \in 1..MaxTries
    <3>1. k \in 1..Len(order) /\ n \in Nat /\ reqs[k] \in Seq(0..n)
          /\ Len(reqs[k]) \in Nat /\ store \in [Used -> 0..n]
      BY <1>14, SubCallType
    <3>2. tries \in [DOMAIN sub -> 0..MaxTries] /\ tries[k] > 0
      BY <1>14 DEF TypeOK, PhaseInv, SubCallBreaks
    <3> QED  BY <3>1, <3>2
  <2>2. /\ store' \in [Used -> 0..n]
        /\ \A l \in late' : l \in (DOMAIN sub) \X (0..Len(reqs[l[1]]))
    <3>1. PICK m \in 0..Len(reqs[k]) :
            \/ store' = Applied(order[k], reqs[k], m) /\ late' = late
            \/ store' = store /\ late' = late \cup {<<k, m>>}
      BY <1>14 DEF SubCallBreaks
    <3>2. Applied(order[k], reqs[k], m) \in [Used -> 0..n]
      BY <2>1, AppliedType
    <3>3. \A l \in late : l \in (DOMAIN sub) \X (0..Len(reqs[l[1]]))
      BY DEF TypeOK
    <3>4. <<k, m>> \in (DOMAIN sub) \X (0..Len(reqs[<<k, m>>[1]]))
      BY <1>14, <3>1
    <3> QED  BY <2>1, <3>1, <3>2, <3>3, <3>4
  <2>3. /\ pc = "wait" /\ pc' = "wait"
        /\ tries' = [tries EXCEPT ![k] = @ - 1]
        /\ sub' = [sub EXCEPT ![k] = IF tries[k] = 1 THEN "failed" ELSE "sent"]
        /\ UNCHANGED <<pending, commands, next, mapping, order, reqs, resps, replyMap,
                       added, owners, outcome>>
    BY <1>14 DEF SubCallBreaks, callVars
  <2>4. /\ sub' \in [DOMAIN sub -> {"sent", "ok", "failed"}]
        /\ DOMAIN sub' = DOMAIN sub
        /\ tries' \in [DOMAIN sub -> 0..MaxTries] /\ DOMAIN tries' = DOMAIN sub
    <3>1. tries \in [DOMAIN sub -> 0..MaxTries]
          /\ sub \in [DOMAIN sub -> {"sent", "ok", "failed"}]
      BY DEF TypeOK
    <3> QED  BY <2>1, <2>3, <3>1, BoundAssumption
  <2>5. \A j \in DOMAIN sub' : sub'[j] = "sent" => tries'[j] > 0
    <3> SUFFICES ASSUME NEW j \in DOMAIN sub, sub'[j] = "sent" PROVE tries'[j] > 0
      BY <2>4
    <3>1. tries \in [DOMAIN sub -> 0..MaxTries]
          /\ (sub[j] = "sent" => tries[j] > 0)
      BY DEF TypeOK, PhaseInv
    <3>2. CASE j = k
      BY <1>14, <2>1, <2>3, <3>1, <3>2
    <3>3. CASE j # k
      BY <2>3, <3>1, <3>3
    <3> QED  BY <3>2, <3>3
  <2>6. TypeOK'
    BY <2>2, <2>3, <2>4 DEF TypeOK, Batch
  <2>7. PhaseInv'
    BY <2>3, <2>4, <2>5 DEF PhaseInv, TypeOK
  <2> QED  BY <2>6, <2>7 DEF TypeInv
<1>15. ASSUME NEW k \in DOMAIN sub, SubCallCancelled(k) PROVE TypeInv'
  <2> DEFINE n == Len(commands)
  <2>1. k \in 1..Len(order) /\ n \in Nat /\ reqs[k] \in Seq(0..n)
        /\ Len(reqs[k]) \in Nat /\ store \in [Used -> 0..n]
    BY <1>15, SubCallType
  <2>2. store' \in [Used -> 0..n]
    <3>1. PICK m \in 0..Len(reqs[k]) : store' = Applied(order[k], reqs[k], m)
      BY <1>15 DEF SubCallCancelled
    <3> QED  BY <2>1, <3>1, AppliedType
  <2>3. /\ pc = "wait" /\ pc' = "wait" /\ sub' = [sub EXCEPT ![k] = "failed"]
        /\ UNCHANGED <<pending, commands, next, mapping, order, reqs, resps, replyMap,
                       added, owners, tries, late, outcome>>
    BY <1>15 DEF SubCallCancelled, callVars
  <2>4. sub' \in [DOMAIN sub -> {"sent", "ok", "failed"}] /\ DOMAIN sub' = DOMAIN sub
    BY <2>3 DEF TypeOK
  <2>5. TypeOK'
    BY <2>2, <2>3, <2>4 DEF TypeOK, Batch
  <2>6. PhaseInv'
    BY <2>3, <2>4 DEF PhaseInv, TypeOK
  <2> QED  BY <2>5, <2>6 DEF TypeInv
<1>16. CASE Finish
  <2>1. TypeOK'
    BY <1>16 DEF Finish, TypeOK, callVars, netVars, Batch
  <2>2. PhaseInv'
    BY <1>16 DEF Finish, PhaseInv, callVars, netVars
  <2> QED  BY <2>1, <2>2 DEF TypeInv
<1>17. ASSUME NEW l \in late, LatePrefixRuns(l) PROVE TypeInv'
  <2>1. /\ l[1] \in 1..Len(order) /\ l[2] \in 0..Len(reqs[l[1]])
        /\ Len(commands) \in Nat /\ reqs[l[1]] \in Seq(0..Len(commands))
        /\ store \in [Used -> 0..Len(commands)]
    <3>1. l \in (DOMAIN sub) \X (0..Len(reqs[l[1]]))
      BY <1>17 DEF TypeOK
    <3>2. l[1] \in DOMAIN sub /\ l[2] \in 0..Len(reqs[l[1]])
      BY <3>1
    <3>3. l[1] \in 1..Len(order)
      BY <3>2 DEF TypeOK
    <3>4. /\ reqs \in Seq(Seq(0..Len(commands))) /\ Len(reqs) = Len(order)
          /\ commands \in Seq(Command) /\ store \in [Used -> 0..Len(commands)]
      BY DEF TypeOK
    <3>5. reqs[l[1]] \in Seq(0..Len(commands))
      BY <3>3, <3>4
    <3> QED  BY <3>2, <3>3, <3>4, <3>5
  <2>2. store' \in [Used -> 0..Len(commands)]
    <3>1. store' = Applied(order[l[1]], reqs[l[1]], l[2])
      BY <1>17 DEF LatePrefixRuns
    <3> QED  BY <2>1, <3>1, AppliedType
  <2>3. late' = late \ {l} /\ UNCHANGED <<pc, pending, commands, next, mapping, order,
          reqs, resps, replyMap, added, owners, sub, tries, outcome>>
    BY <1>17 DEF LatePrefixRuns, callVars
  <2>4. TypeOK'
    BY <2>2, <2>3 DEF TypeOK, Batch
  <2>5. PhaseInv'
    BY <1>17, <2>3 DEF PhaseInv, Unsent, TypeOK, NoCall
  <2> QED  BY <2>4, <2>5 DEF TypeInv
<1> QED
  BY <1>u, <1>1, <1>2, <1>3, <1>3b, <1>4, <1>5, <1>6, <1>7, <1>8, <1>9, <1>10, <1>11,
     <1>12, <1>13, <1>14, <1>15, <1>16, <1>17 DEF Next, Call

(* The state stays well typed: positions stay inside the batch and every   *)
(* sub-call inside its budget of tries.                                    *)
THEOREM TypeCorrect == Spec => []TypeOK
<1>1. TypeInv => TypeOK
  BY DEF TypeInv
<1> QED  BY <1>1, TypeInit, TypeNext, PTL DEF Spec

-------------------------------------------------------------------------------
(* Who owns the CallMapper: the unique_ptr until it is released, and the   *)
(* ParallelChannel as soon as it has a channel.                            *)
WhileAdding == owners = {"unique_ptr"} \cup (IF added > 0 THEN {"pchan"} ELSE {})
Owned ==
  /\ pc = "build" => added = 0
  /\ pc = "channels" => WhileAdding
  /\ pc \in {"send", "wait", "returned"} /\ Len(order) > 1 =>
       \/ added = Len(order) /\ owners = {"pchan"}
       \/ added < Len(order) /\ WhileAdding

LEMMA OwnedNext == TypeInv /\ Owned /\ [Next]_vars => Owned'
<1> SUFFICES ASSUME TypeInv, Owned, [Next]_vars PROVE Owned'
  OBVIOUS
<1>0. TypeOK /\ PhaseInv
  BY DEF TypeInv
<1>1. ASSUME UNCHANGED <<order, added, owners>>,
             \/ pc' = pc
             \/ pc \in {"send", "wait"} /\ pc' \in {"wait", "returned"}
             \/ pc' \in {"idle", "route"}
      PROVE  Owned'
  BY <1>1 DEF Owned, WhileAdding
<1>2. CASE UNCHANGED vars
  BY <1>1, <1>2 DEF vars, callVars
<1>3. CASE \/ Reset \/ RouteCommand \/ CallMethod \/ Finish
           \/ \E cmd \in Command : Add(cmd) \/ ExecuteOne(cmd)
           \/ \E k \in DOMAIN sub :
                SubCallAnswers(k) \/ SubCallBreaks(k) \/ SubCallCancelled(k)
           \/ \E l \in late : LatePrefixRuns(l)
  BY <1>1, <1>3 DEF Reset, RouteCommand, CallMethod, Finish, Add, ExecuteOne,
       SubCallAnswers, SubCallBreaks, SubCallCancelled, LatePrefixRuns,
       callVars, unrouted
<1>4. CASE Execute
  <2>1. order' = <<>> /\ pc' \in {"route", "returned"}
    BY <1>0, <1>4 DEF Execute, unrouted, PhaseInv, NoCall
  <2> QED  BY <2>1 DEF Owned
<1>5. CASE Take
  BY <1>5 DEF Take, Owned
<1>6. CASE Routed
  <2>1. added' = 0 /\ pc' \in {"single", "build"}
    BY <1>0, <1>6 DEF Routed, PhaseInv, Unbuilt, callVars
  <2> QED  BY <2>1 DEF Owned
<1>7. ASSUME NEW s \in Target, SingleChannel(s) PROVE Owned'
  <2>1. order' = <<>> \/ order' = <<s>>
    BY <1>0, <1>7 DEF SingleChannel, PhaseInv, Unbuilt
  <2>2. ~(Len(<<>>) > 1) /\ ~(Len(<<s>>) > 1)
    OBVIOUS
  <2>3. ~(Len(order) > 1)'
    BY <2>1, <2>2, Zenon
  <2>4. pc' \in {"returned", "send"}
    BY <1>7 DEF SingleChannel, Refuse
  <2> QED  BY <2>3, <2>4 DEF Owned
<1>8. ASSUME NEW s \in Target, BuildRequestResponse(s) PROVE Owned'
  BY <1>8 DEF BuildRequestResponse, Owned
<1>9. CASE StartPChan
  BY <1>9 DEF StartPChan, Owned, WhileAdding
<1>10. CASE AddChannel
  <2>1. /\ added \in Nat /\ added < Len(order) /\ WhileAdding /\ order' = order
        /\ \/ pc' = "returned" /\ UNCHANGED <<added, owners>>
           \/ /\ pc' = "channels" /\ added' = added + 1
              /\ owners' = owners \cup {"pchan"}
    BY <1>0, <1>10 DEF AddChannel, Refuse, Owned, TypeOK
  <2>2. WhileAdding'
    BY <2>1 DEF WhileAdding
  <2> QED  BY <2>1, <2>2 DEF Owned
<1>11. CASE ReleaseMapper
  <2>1. /\ pc' = "send" /\ added' = Len(order') /\ WhileAdding
        /\ added' = added /\ owners' = owners \ {"unique_ptr"}
    BY <1>11 DEF ReleaseMapper, Owned
  <2>2. added \in Nat
    BY <1>0 DEF TypeOK
  <2>3. Len(order') > 1 => added > 0
    BY <2>1, <2>2
  <2> QED  BY <2>1, <2>3 DEF Owned, WhileAdding
<1> QED
  BY <1>2, <1>3, <1>4, <1>5, <1>6, <1>7, <1>8, <1>9, <1>10, <1>11 DEF Next, Call

(* Somebody always deletes the CallMapper, and two owners do exactly when  *)
(* a channel was refused behind one that was added                         *)
(* (RedisCluster::BuildPChan).                                             *)
THEOREM MapperDeleted == Spec => []MapperDeletedTwiceOnlyOnPartialBuild
<1>1. Init => Owned
  BY DEF Init, NoCall, Owned
<1>2. TypeInv /\ Owned => MapperDeletedTwiceOnlyOnPartialBuild
  <2> SUFFICES ASSUME TypeInv, Owned, Len(order) > 1,
                      pc \in {"send", "wait", "returned"}
               PROVE  /\ owners # {}
                      /\ owners = {"unique_ptr", "pchan"}
                           <=> added \in 1..(Len(order) - 1)
    BY DEF MapperDeletedTwiceOnlyOnPartialBuild
  <2>1. Len(order) \in Nat /\ added \in Nat
    BY DEF TypeInv, TypeOK
  <2>2. CASE added = Len(order) /\ owners = {"pchan"}
    BY <2>1, <2>2
  <2>3. CASE added < Len(order) /\ WhileAdding
    BY <2>1, <2>3 DEF WhileAdding
  <2> QED  BY <2>2, <2>3 DEF Owned
<1> QED  BY <1>1, <1>2, TypeInit, TypeNext, OwnedNext, PTL DEF Spec

-------------------------------------------------------------------------------
(* How groups, requests and positions fit together.                        *)

(* OffsetFor, RequestFor and WholeBatch with the commands as a parameter. *)
OffsetOf(cmds, indexes) ==
  IF ~UseMaster /\ TypeOf[cmds[indexes[1]]] = "Read" THEN 1 ELSE 0
RequestOf(cmds, indexes) ==
  [q \in 1..(OffsetOf(cmds, indexes) + Len(indexes)) |->
     IF q <= OffsetOf(cmds, indexes) THEN 0
     ELSE indexes[q - OffsetOf(cmds, indexes)]]
Whole(cmds) == [i \in 1..Len(cmds) |-> i]

-------------------------------------------------------------------------------
(* The invariant. *)

(* The Mapper is a partition of the commands routed so far, and holds each *)
(* command at a server that GetServer may choose for it.                   *)
InGroup(i, s) == \E p \in DOMAIN mapping[s] : mapping[s][p] = i
Grouping ==
  /\ \A s \in Target : \A p \in DOMAIN mapping[s] : mapping[s][p] < next
  /\ \A i \in 1..(next - 1) : \E s \in Target : InGroup(i, s)
  /\ \A s, t \in Target : \A p \in DOMAIN mapping[s], q \in DOMAIN mapping[t] :
       mapping[s][p] = mapping[t][q] => s = t /\ p = q
  /\ \A s \in Target : \A p \in DOMAIN mapping[s] :
       s \in GetServer(commands[mapping[s][p]])

(* What is built for the only server, and for the servers of order. *)
OneServer ==
  /\ Len(order) = 1 /\ replyMap = <<>>
  /\ reqs[1] = RequestOf(commands, Whole(commands))
  /\ resps[1].offset = OffsetOf(commands, Whole(commands))
SeveralServers ==
  /\ \A j, k \in 1..Len(order) : order[j] = order[k] => j = k
  /\ \A k \in 1..Len(order) :
       /\ reqs[k] = RequestOf(commands, mapping[order[k]])
       /\ resps[k].offset = OffsetOf(commands, mapping[order[k]])
       /\ \A p \in DOMAIN mapping[order[k]] :
            /\ mapping[order[k]][p] \in DOMAIN replyMap
            /\ replyMap[mapping[order[k]][p]] = <<k, p>>

(* Every group has a request. *)
AllBuilt ==
  \A s \in Target : mapping[s] # <<>> => \E k \in 1..Len(order) : order[k] = s

(* What holds when sub-calls have been or will be sent. *)
Sendable ==
  /\ OneServer \/ (SeveralServers /\ AllBuilt)
  /\ mapping[NoServer] = <<>>

Staging ==
  /\ pc \notin {"idle", "route"} => next = Len(commands) + 1
  /\ pc # "idle" /\ outcome # "invalid_argument" => commands # <<>>
  /\ pc \in {"build", "channels"} => SeveralServers
  /\ pc = "build" => added = 0
  /\ pc = "channels" => AllBuilt /\ \A k \in 1..added : order[k] # NoServer
  /\ pc \in {"send", "wait"} => Sendable
  /\ sub # <<>> => Sendable
  /\ sub = <<>> => \A slot \in Used : store[slot] = 0

(* The replies of a sub-call that succeeded are those to its request. *)
Answered ==
  \A k \in DOMAIN sub : sub[k] = "ok" =>
    /\ Len(resps[k].resp) = Len(reqs[k])
    /\ \A q \in 1..Len(reqs[k]) : resps[k].resp[q].pos = reqs[k][q]

(* A call succeeds only when all its sub-calls did. *)
Succeeded ==
  outcome = "ok" =>
    /\ Sendable /\ commands # <<>> /\ next = Len(commands) + 1
    /\ DOMAIN sub = 1..Len(order) /\ \A k \in DOMAIN sub : sub[k] = "ok"

ReplyInv == Grouping /\ Staging /\ Answered /\ Succeeded

-------------------------------------------------------------------------------
(* Lemmas on the operators. *)

LEMMA Parameterised ==
  /\ \A indexes : OffsetFor(indexes) = OffsetOf(commands, indexes)
  /\ \A indexes : RequestFor(indexes) = RequestOf(commands, indexes)
  /\ WholeBatch = Whole(commands)
<1>1. ASSUME NEW indexes PROVE OffsetFor(indexes) = OffsetOf(commands, indexes)
  BY DEF OffsetFor, OffsetOf, IsType
<1>2. ASSUME NEW indexes PROVE RequestFor(indexes) = RequestOf(commands, indexes)
  BY <1>1 DEF RequestFor, RequestOf
<1>3. WholeBatch = Whole(commands)
  BY DEF WholeBatch, Whole, Batch
<1> QED  BY <1>1, <1>2, <1>3

(* The p-th command of a group is the p-th behind the offset. *)
LEMMA RequestOfGroup ==
  ASSUME NEW cmds, NEW S, NEW indexes \in Seq(S)
  PROVE  /\ OffsetOf(cmds, indexes) \in {0, 1}
         /\ Len(RequestOf(cmds, indexes))
              = OffsetOf(cmds, indexes) + Len(indexes)
         /\ \A p \in 1..Len(indexes) :
              RequestOf(cmds, indexes)[p + OffsetOf(cmds, indexes)] = indexes[p]
<1> DEFINE off == OffsetOf(cmds, indexes)
           n   == off + Len(indexes)
           f   == [q \in 1..n |-> IF q <= off THEN 0 ELSE indexes[q - off]]
<1>1. off \in {0, 1} /\ Len(indexes) \in Nat /\ n \in Nat
  BY DEF OffsetOf
<1>2. RequestOf(cmds, indexes) = f
  BY DEF RequestOf
<1> HIDE DEF off
<1>3. Len(f) = n
  <2>1. f \in [1..n -> {f[q] : q \in 1..n}]
    OBVIOUS
  <2> HIDE DEF f
  <2> QED  BY <1>1, <2>1, FunctionIsSeq
<1>4. ASSUME NEW p \in 1..Len(indexes) PROVE f[p + off] = indexes[p]
  <2>1. p + off \in 1..n /\ ~(p + off <= off) /\ (p + off) - off = p
    BY <1>1
  <2> QED  BY <2>1
<1> HIDE DEF f
<1> QED  BY <1>1, <1>2, <1>3, <1>4 DEF off

(* GetServer chooses an address, the default one for an uncovered slot. *)
LEMMA ServersOfCommand ==
  ASSUME NEW cmd \in Command
  PROVE  /\ GetServer(cmd) \subseteq Target
         /\ Find(Map, SlotOf[cmd]) = {} => GetServer(cmd) = {NoServer}
<1> DEFINE slot == SlotOf[cmd]
<1>1. \A b \in DOMAIN Map : Map[b] \in SlotRecord
  BY MapAssumption DEF IsSlotMap
<1>2. Find(Map, slot) \subseteq SlotRecord
  BY <1>1 DEF Find
<1>3. FindWrite(Map, slot) \in Target
  BY <1>2 DEF FindWrite, Target, SlotRecord
<1>4. FindRead(Map, slot, 0) \subseteq Target
  <2>1. CASE Find(Map, slot) = {}
    BY <2>1 DEF FindRead, Target
  <2>2. CASE Find(Map, slot) # {}
    <3> DEFINE sl == CHOOSE x \in Find(Map, slot) : TRUE
    <3>1. sl \in SlotRecord
      BY <1>2, <2>2
    <3>2. sl.master \in Target /\ sl.slaves \in Seq(Target)
      BY <3>1 DEF SlotRecord, Target
    <3>3. Range(sl.slaves) \subseteq Target
      BY <3>2 DEF Range
    <3>4. FindRead(Map, slot, 0) \subseteq {sl.master} \cup Range(sl.slaves)
      BY <2>2 DEF FindRead
    <3> QED  BY <3>2, <3>3, <3>4
  <2> QED  BY <2>1, <2>2
<1>5. Find(Map, slot) = {} => /\ FindWrite(Map, slot) = NoServer
                              /\ FindRead(Map, slot, 0) = {NoServer}
  BY DEF FindWrite, FindRead
<1> QED  BY <1>3, <1>4, <1>5 DEF GetServer

-------------------------------------------------------------------------------
(* What the actions leave alone. *)

LEMMA GroupingFrame ==
  ASSUME Grouping, UNCHANGED <<commands, next, mapping>>
  PROVE  Grouping'
BY DEF Grouping, InGroup

LEMMA SendableFrame ==
  ASSUME TypeOK, UNCHANGED <<commands, mapping, order, reqs, replyMap>>,
         \A k \in 1..Len(order) : resps'[k].offset = resps[k].offset
  PROVE  /\ SeveralServers => SeveralServers'
         /\ AllBuilt => AllBuilt'
         /\ Sendable => Sendable'
<1>1. SeveralServers => SeveralServers'
  BY DEF SeveralServers
<1>2. AllBuilt => AllBuilt'
  BY DEF AllBuilt
<1>3. OneServer => OneServer'
  BY DEF OneServer
<1> QED  BY <1>1, <1>2, <1>3 DEF Sendable

(* Steps before anything is sent cannot disturb what was answered. *)
LEMMA UnsentFrame ==
  ASSUME TypeInv, UNCHANGED <<sub, store>>,
         pc \in {"idle", "route", "single", "build", "channels", "send"},
         outcome' # "ok"
  PROVE  /\ sub = <<>> /\ sub' = <<>> /\ Answered' /\ Succeeded'
         /\ Staging => \A slot \in Used : store'[slot] = 0
<1>1. sub = <<>> /\ sub' = <<>>
  BY DEF TypeInv, PhaseInv, NoCall, Unsent
<1>2. Answered'
  BY <1>1 DEF Answered
<1>3. Succeeded'
  BY DEF Succeeded
<1>4. Staging => \A slot \in Used : store'[slot] = 0
  BY <1>1 DEF Staging
<1> QED  BY <1>1, <1>2, <1>3, <1>4

LEMMA ReplyInit == Init => ReplyInv
<1> SUFFICES ASSUME Init PROVE ReplyInv
  OBVIOUS
<1>1. /\ next = 1 /\ mapping = [s \in Target |-> <<>>] /\ sub = <<>>
      /\ store = [slot \in Used |-> 0] /\ outcome = "none" /\ pc = "idle"
  BY DEF Init, NoCall
<1>2. Grouping
  BY <1>1 DEF Grouping, InGroup
<1>3. Staging
  BY <1>1 DEF Staging
<1> QED  BY <1>1, <1>2, <1>3 DEF ReplyInv, Answered, Succeeded

(* A call starts, or the caller is done, in a clean state. *)
LEMMA CleanReplyInv ==
  ASSUME next' = 1, mapping' = [s \in Target |-> <<>>], sub' = <<>>,
         store' = [slot \in Used |-> 0], outcome' # "ok",
         \/ pc' = "idle"
         \/ pc' = "route" /\ commands' # <<>>
         \/ pc' = "returned" /\ commands' = <<>> /\ outcome' = "invalid_argument"
  PROVE  ReplyInv'
<1>1. Grouping'
  BY DEF Grouping, InGroup
<1>2. Staging'
  BY DEF Staging
<1> QED  BY <1>1, <1>2 DEF ReplyInv, Answered, Succeeded

-------------------------------------------------------------------------------
(* Routing one command keeps the groups a partition. *)
LEMMA RouteGrouping ==
  ASSUME TypeInv, ReplyInv, RouteCommand
  PROVE  Grouping'
<1>1. /\ next \in Batch /\ next' = next + 1 /\ commands' = commands
      /\ mapping \in [Target -> Seq(Batch)] /\ commands[next] \in Command
      /\ next \in Nat
  <2>1. next \in 1..(Len(commands) + 1) /\ commands \in Seq(Command)
    BY DEF TypeInv, TypeOK
  <2>2. next <= Len(commands) /\ next' = next + 1 /\ commands' = commands
    BY DEF RouteCommand
  <2> QED  BY <2>1, <2>2 DEF TypeInv, TypeOK, Batch
<1>2. PICK t \in GetServer(commands[next]) :
        mapping' = [mapping EXCEPT ![t] = Append(@, next)]
  BY DEF RouteCommand, PushBack
<1>3. t \in Target
  BY <1>1, <1>2, ServersOfCommand
<1> DEFINE g == mapping[t]
<1>4. /\ g \in Seq(Batch) /\ mapping'[t] = Append(g, next)
      /\ \A s \in Target \ {t} : mapping'[s] = mapping[s]
  BY <1>1, <1>2, <1>3
<1>5. /\ DOMAIN mapping'[t] = DOMAIN g \cup {Len(g) + 1}
      /\ mapping'[t][Len(g) + 1] = next
      /\ \A p \in DOMAIN g : mapping'[t][p] = g[p]
      /\ Len(g) + 1 \notin DOMAIN g
  BY <1>1, <1>4
<1> HIDE DEF g
<1>6. \A s \in Target : \A p \in DOMAIN mapping'[s] :
        \/ s = t /\ p = Len(g) + 1 /\ mapping'[s][p] = next
        \/ p \in DOMAIN mapping[s] /\ mapping'[s][p] = mapping[s][p]
  BY <1>4, <1>5 DEF g
<1>7. \A s \in Target : \A p \in DOMAIN mapping[s] :
        p \in DOMAIN mapping'[s] /\ mapping'[s][p] = mapping[s][p]
  BY <1>4, <1>5 DEF g
<1>8. /\ \A s \in Target : \A p \in DOMAIN mapping[s] :
           mapping[s][p] < next /\ mapping[s][p] \in Nat
      /\ \A i \in 1..(next - 1) : \E s \in Target : InGroup(i, s)
      /\ \A s, u \in Target : \A p \in DOMAIN mapping[s], q \in DOMAIN mapping[u] :
           mapping[s][p] = mapping[u][q] => s = u /\ p = q
      /\ \A s \in Target : \A p \in DOMAIN mapping[s] :
           s \in GetServer(commands[mapping[s][p]])
  BY <1>1 DEF ReplyInv, Grouping, Batch
<1>9. \A s \in Target : \A p \in DOMAIN mapping'[s] : mapping'[s][p] < next'
  <2> SUFFICES ASSUME NEW s \in Target, NEW p \in DOMAIN mapping'[s]
               PROVE  mapping'[s][p] < next'
    OBVIOUS
  <2>1. CASE mapping'[s][p] = next
    BY <2>1, <1>1
  <2>2. CASE p \in DOMAIN mapping[s] /\ mapping'[s][p] = mapping[s][p]
    <3>1. mapping[s][p] < next /\ mapping[s][p] \in Nat
      BY <2>2, <1>8
    <3> QED  BY <3>1, <2>2, <1>1
  <2> QED  BY <2>1, <2>2, <1>6
<1>10. \A i \in 1..(next' - 1) : \E s \in Target : InGroup(i, s)'
  <2> SUFFICES ASSUME NEW i \in 1..next PROVE \E s \in Target : InGroup(i, s)'
    BY <1>1
  <2>1. CASE i = next
    BY <2>1, <1>3, <1>5 DEF InGroup
  <2>2. CASE i # next
    <3>1. PICK s \in Target : InGroup(i, s)
      BY <2>2, <1>1, <1>8
    <3> QED  BY <3>1, <1>7 DEF InGroup
  <2> QED  BY <2>1, <2>2
<1>11. \A s, u \in Target :
         \A p \in DOMAIN mapping'[s], q \in DOMAIN mapping'[u] :
           mapping'[s][p] = mapping'[u][q] => s = u /\ p = q
  <2> SUFFICES ASSUME NEW s \in Target, NEW u \in Target,
                      NEW p \in DOMAIN mapping'[s], NEW q \in DOMAIN mapping'[u],
                      mapping'[s][p] = mapping'[u][q]
               PROVE  s = u /\ p = q
    OBVIOUS
  <2>1. CASE p \in DOMAIN mapping[s] /\ mapping'[s][p] = mapping[s][p]
    <3>1. mapping'[u][q] # next
      BY <2>1, <1>1, <1>8
    <3>2. q \in DOMAIN mapping[u] /\ mapping'[u][q] = mapping[u][q]
      BY <3>1, <1>6
    <3>3. mapping[s][p] = mapping[u][q]
      BY <2>1, <3>2
    <3> QED  BY <2>1, <3>2, <3>3, <1>8
  <2>2. CASE s = t /\ p = Len(g) + 1 /\ mapping'[s][p] = next
    <3>1. ~(q \in DOMAIN mapping[u] /\ mapping'[u][q] = mapping[u][q])
      BY <2>2, <1>1, <1>8
    <3> QED  BY <2>2, <3>1, <1>6
  <2> QED  BY <2>1, <2>2, <1>6
<1>12. \A s \in Target : \A p \in DOMAIN mapping'[s] :
         s \in GetServer(commands'[mapping'[s][p]])
  BY <1>1, <1>2, <1>6, <1>8
<1> QED  BY <1>9, <1>10, <1>11, <1>12 DEF Grouping

(* The request of one more server is built. *)
LEMMA BuildSeveral ==
  ASSUME TypeInv, ReplyInv, NEW s \in Target, BuildRequestResponse(s)
  PROVE  SeveralServers'
<1> DEFINE n == Len(order)
           g == mapping[s]
<1>1. /\ commands' = commands /\ mapping' = mapping /\ order' = Append(order, s)
      /\ reqs' = Append(reqs, RequestOf(commands, g))
      /\ resps' = Append(resps, NewResponse(OffsetOf(commands, g)))
      /\ replyMap' = AddToMapping(g, Len(resps) + 1)
      /\ s \notin Range(order) /\ pc = "build"
  BY Parameterised DEF BuildRequestResponse
<1>2. /\ order \in Seq(Target) /\ Len(order) \in Nat
      /\ Len(reqs) = n /\ Len(resps) = n
      /\ g \in Seq(Batch)
  BY DEF TypeInv, TypeOK
<1>2a. reqs \in Seq(Seq(0..Len(commands)))
  BY DEF TypeInv, TypeOK
<1>2b. resps \in Seq([resp : Seq([pos : 0..Len(commands), served : BOOLEAN]),
                      offset : {0, 1}])
  BY DEF TypeInv, TypeOK
<1>3. SeveralServers
  BY <1>1 DEF ReplyInv, Staging
<1>4. /\ Len(order') = n + 1 /\ order'[n + 1] = s
      /\ \A k \in 1..n : order'[k] = order[k] /\ order[k] # s
  BY <1>1, <1>2 DEF Range
<1>5. /\ reqs'[n + 1] = RequestOf(commands, g)
      /\ \A k \in 1..n : reqs'[k] = reqs[k]
  BY <1>1, <1>2, <1>2a
<1>6. /\ resps'[n + 1].offset = OffsetOf(commands, g)
      /\ \A k \in 1..n : resps'[k] = resps[k]
  BY <1>1, <1>2, <1>2b DEF NewResponse
<1>7. ASSUME NEW p \in DOMAIN g
      PROVE  g[p] \in DOMAIN replyMap' /\ replyMap'[g[p]] = <<n + 1, p>>
  <2>1. g[p] \in Range(g)
    BY DEF Range
  <2>2. replyMap'[g[p]] = <<n + 1, CHOOSE q \in DOMAIN g : g[q] = g[p]>>
        /\ g[p] \in DOMAIN replyMap'
    BY <1>1, <1>2, <2>1 DEF AddToMapping
  <2>3. \A q \in DOMAIN g : g[q] = g[p] => q = p
    BY DEF ReplyInv, Grouping
  <2>4. (CHOOSE q \in DOMAIN g : g[q] = g[p]) = p
    BY <2>3
  <2> QED  BY <2>2, <2>4
<1>8. ASSUME NEW k \in 1..n, NEW p \in DOMAIN mapping[order[k]]
      PROVE  /\ mapping[order[k]][p] \in DOMAIN replyMap'
             /\ replyMap'[mapping[order[k]][p]] = <<k, p>>
  <2> DEFINE i == mapping[order[k]][p]
  <2>1. i \in DOMAIN replyMap /\ replyMap[i] = <<k, p>>
    BY <1>3 DEF SeveralServers
  <2>2. order[k] \in Target /\ order[k] # s
    BY <1>2, <1>4
  <2>3. i \notin Range(g)
    BY <2>2 DEF ReplyInv, Grouping, Range
  <2> QED  BY <1>1, <2>1, <2>3 DEF AddToMapping
<1> HIDE DEF n, g
<1>9. \A j, k \in 1..Len(order') : order'[j] = order'[k] => j = k
  <2>1. \A j, k \in 1..n : order[j] = order[k] => j = k
    BY <1>3 DEF SeveralServers, n
  <2>2. n \in Nat
    BY <1>2 DEF n
  <2> QED  BY <1>4, <2>1, <2>2
<1>10. ASSUME NEW k \in 1..Len(order')
       PROVE  /\ reqs'[k] = RequestOf(commands', mapping'[order'[k]])
              /\ resps'[k].offset = OffsetOf(commands', mapping'[order'[k]])
              /\ \A p \in DOMAIN mapping'[order'[k]] :
                   /\ mapping'[order'[k]][p] \in DOMAIN replyMap'
                   /\ replyMap'[mapping'[order'[k]][p]] = <<k, p>>
  <2>1. k \in 1..n \/ k = n + 1
    BY <1>2, <1>4 DEF n
  <2>2. CASE k \in 1..n
    <3>1. order'[k] = order[k] /\ reqs'[k] = reqs[k] /\ resps'[k] = resps[k]
      BY <2>2, <1>4, <1>5, <1>6
    <3>2. /\ reqs[k] = RequestOf(commands, mapping[order[k]])
          /\ resps[k].offset = OffsetOf(commands, mapping[order[k]])
      BY <2>2, <1>3 DEF SeveralServers, n
    <3> QED  BY <2>2, <3>1, <3>2, <1>1, <1>8
  <2>3. CASE k = n + 1
    BY <2>3, <1>1, <1>4, <1>5, <1>6, <1>7 DEF g
  <2> QED  BY <2>1, <2>2, <2>3
<1> QED  BY <1>9, <1>10 DEF SeveralServers

(* The replies of one server arrive. *)
LEMMA AnswersKept ==
  ASSUME TypeInv, ReplyInv, NEW k \in DOMAIN sub, SubCallAnswers(k)
  PROVE  /\ Answered'
         /\ \A j \in 1..Len(order) : resps'[j].offset = resps[j].offset
<1>1. /\ k \in 1..Len(order) /\ reqs[k] \in Seq(0..Len(commands))
      /\ Len(commands) \in Nat
  BY SubCallType DEF TypeInv
<1>2. PICK sticky \in BOOLEAN :
        resps' = [resps EXCEPT ![k].resp = Answers(order[k], reqs[k], sticky)]
  BY DEF SubCallAnswers
<1> DEFINE A == Answers(order[k], reqs[k], sticky)
           R == [resp : Seq([pos : 0..Len(commands), served : BOOLEAN]),
                 offset : {0, 1}]
<1> HIDE DEF A, R
<1>3. Len(A) = Len(reqs[k]) /\ \A q \in 1..Len(reqs[k]) : A[q].pos = reqs[k][q]
  <2>1. Len(A) = Len(reqs[k])
    <3> DEFINE f(q) == [pos |-> reqs[k][q],
                        served |-> reqs[k][q] = 0
                           \/ Serves(order[k], reqs[k][q],
                                     sticky \/ ReadonlyBefore(reqs[k], q))]
    <3>1. A = [q \in 1..Len(reqs[k]) |-> f(q)]
      BY DEF A, Answers
    <3> HIDE DEF f
    <3>2. A \in [1..Len(reqs[k]) -> {f(q) : q \in 1..Len(reqs[k])}]
      BY <3>1
    <3> QED  BY <1>1, <3>2, FunctionIsSeq
  <2>2. \A q \in 1..Len(reqs[k]) : A[q].pos = reqs[k][q]
    BY DEF A, Answers
  <2> QED  BY <2>1, <2>2
<1>4. resps \in Seq(R) /\ Len(resps) = Len(order)
  BY DEF TypeInv, TypeOK, R
<1>5. /\ \A j \in 1..Len(order) : j # k => resps'[j] = resps[j]
      /\ resps'[k].resp = A /\ resps'[k].offset = resps[k].offset
  <2>1. resps[k] \in R
    BY <1>1, <1>4
  <2>2. resps' = [resps EXCEPT ![k] = [resps[k] EXCEPT !.resp = A]]
    BY <1>2 DEF A
  <2>3. resps'[k] = [resps[k] EXCEPT !.resp = A]
        /\ \A j \in 1..Len(order) : j # k => resps'[j] = resps[j]
    BY <1>1, <1>4, <2>2
  <2>4. resps[k] = [resp |-> resps[k].resp, offset |-> resps[k].offset]
    BY <2>1 DEF R
  <2> QED  BY <2>3, <2>4
<1>6. /\ sub' = [sub EXCEPT ![k] = "ok"] /\ reqs' = reqs
  BY DEF SubCallAnswers
<1>7. DOMAIN sub \in {1..Len(order), {}}
  BY DEF TypeInv, TypeOK
<1>8. ASSUME NEW j \in DOMAIN sub', sub'[j] = "ok"
      PROVE  /\ Len(resps'[j].resp) = Len(reqs'[j])
             /\ \A q \in 1..Len(reqs'[j]) : resps'[j].resp[q].pos = reqs'[j][q]
  <2>1. CASE j = k
    BY <2>1, <1>3, <1>5, <1>6
  <2>2. CASE j # k
    <3>1. j \in 1..Len(order) /\ j \in DOMAIN sub /\ sub[j] = "ok"
      BY <2>2, <1>6, <1>7, <1>8
    <3>2. resps'[j] = resps[j] /\ reqs'[j] = reqs[j]
      BY <2>2, <3>1, <1>5, <1>6
    <3> QED  BY <3>1, <3>2 DEF ReplyInv, Answered
  <2> QED  BY <2>1, <2>2
<1> QED  BY <1>5, <1>8 DEF Answered

-------------------------------------------------------------------------------
(* A step of brpc or of a server, which leaves what was built alone.        *)
LEMMA NetStep ==
  ASSUME TypeInv, ReplyInv, pc' = pc, outcome' = outcome, sub' # <<>>,
         sub # <<>>, pc \in {"wait", "returned"}, outcome # "ok",
         UNCHANGED <<commands, next, mapping, order, reqs, replyMap>>,
         \A k \in 1..Len(order) : resps'[k].offset = resps[k].offset,
         Answered'
  PROVE  ReplyInv'
<1>1. TypeOK /\ Grouping /\ Staging /\ Sendable
  BY DEF TypeInv, ReplyInv, Staging
<1>2. Grouping'
  BY <1>1, GroupingFrame
<1>3. Sendable'
  BY <1>1, SendableFrame
<1>4. Staging'
  BY <1>1, <1>3 DEF Staging
<1>5. Succeeded'
  BY DEF Succeeded
<1> QED  BY <1>2, <1>4, <1>5 DEF ReplyInv

LEMMA ReplyNext == TypeInv /\ ReplyInv /\ [Next]_vars => ReplyInv'
<1> SUFFICES ASSUME TypeInv, ReplyInv, [Next]_vars PROVE ReplyInv'
  OBVIOUS
<1>0. /\ TypeOK /\ PhaseInv
      /\ Grouping /\ Staging /\ Answered /\ Succeeded
  BY DEF TypeInv, ReplyInv
<1>a. (* Steps that leave what was built alone, outside a network step. *)
      ASSUME UNCHANGED <<commands, next, mapping, order, reqs, resps, replyMap>>
      PROVE  /\ Grouping'
             /\ SeveralServers => SeveralServers'
             /\ AllBuilt => AllBuilt'
             /\ Sendable => Sendable'
  BY <1>0, <1>a, GroupingFrame, SendableFrame
<1>b. ASSUME UNCHANGED <<pc, callVars, netVars, outcome>> PROVE ReplyInv'
  <2>1. /\ UNCHANGED <<pc, outcome, sub, store, commands, next, mapping, order,
                       reqs, resps, replyMap, added>>
    BY <1>b DEF callVars, netVars
  <2>2. Staging'
    BY <2>1, <1>a, <1>0 DEF Staging
  <2>3. Answered' /\ Succeeded'
    BY <2>1, <1>a, <1>0 DEF Answered, Succeeded
  <2> QED  BY <2>1, <2>2, <2>3, <1>a DEF ReplyInv
<1>u. CASE UNCHANGED vars
  BY <1>u, <1>b DEF vars
<1>1. ASSUME NEW cmd \in Command, Add(cmd) PROVE ReplyInv'
  BY <1>1, <1>b DEF Add
<1>2. CASE Reset
  BY <1>2, <1>b DEF Reset
<1>3. CASE Execute
  <2>1. NoCall
    BY <1>0, <1>3 DEF Execute, PhaseInv
  <2>2. /\ next' = 1 /\ mapping' = [s \in Target |-> <<>>] /\ sub' = <<>>
        /\ store' = [slot \in Used |-> 0] /\ outcome = "none"
        /\ commands = <<>>
    BY <1>3, <2>1 DEF Execute, unrouted, netVars, NoCall
  <2> QED  BY <1>3, <2>2, CleanReplyInv DEF Execute
<1>4. ASSUME NEW cmd \in Command, ExecuteOne(cmd) PROVE ReplyInv'
  <2>1. NoCall
    BY <1>0, <1>4 DEF ExecuteOne, PhaseInv
  <2>2. /\ next' = 1 /\ mapping' = [s \in Target |-> <<>>] /\ sub' = <<>>
        /\ store' = [slot \in Used |-> 0] /\ outcome' = "none"
        /\ commands' # <<>> /\ pc' = "route"
    BY <1>4, <2>1 DEF ExecuteOne, unrouted, netVars, NoCall
  <2> QED  BY <2>2, CleanReplyInv
<1>5. CASE Take
  BY <1>5, CleanReplyInv DEF Take
<1>6. CASE RouteCommand
  <2>1. Grouping'
    BY <1>6, RouteGrouping
  <2>2. /\ pc = "route" /\ pc' = "route" /\ outcome = "none" /\ outcome' = "none"
        /\ UNCHANGED <<commands, sub, store>>
    BY <1>0, <1>6 DEF RouteCommand, PhaseInv, netVars
  <2>3. /\ sub = <<>> /\ sub' = <<>> /\ Answered' /\ Succeeded'
        /\ \A slot \in Used : store'[slot] = 0
    BY <1>0, <2>2, UnsentFrame
  <2>4. Staging'
    BY <1>0, <2>2, <2>3 DEF Staging
  <2> QED  BY <2>1, <2>3, <2>4 DEF ReplyInv
<1>7. CASE Routed
  <2>1. /\ pc = "route" /\ pc' \in {"single", "build"} /\ outcome = "none"
        /\ outcome' = "none" /\ Unbuilt /\ next > Len(commands)
        /\ UNCHANGED <<commands, next, mapping, order, reqs, resps, replyMap,
                       added, sub, store>>
    BY <1>0, <1>7 DEF Routed, PhaseInv, callVars, netVars
  <2>2. next = Len(commands) + 1
    <3>1. next \in 1..(Len(commands) + 1) /\ commands \in Seq(Command)
      BY <1>0 DEF TypeOK
    <3> QED  BY <2>1, <3>1
  <2>3. SeveralServers /\ added' = 0
    BY <2>1 DEF Unbuilt, SeveralServers
  <2>4. /\ sub = <<>> /\ sub' = <<>> /\ Answered' /\ Succeeded'
        /\ \A slot \in Used : store'[slot] = 0
    BY <1>0, <2>1, UnsentFrame
  <2>5. Staging'
    BY <1>0, <1>a, <2>1, <2>2, <2>3, <2>4 DEF Staging
  <2> QED  BY <1>a, <2>1, <2>4, <2>5 DEF ReplyInv
<1>8. ASSUME NEW s \in Target, SingleChannel(s) PROVE ReplyInv'
  <2>1. /\ pc = "single" /\ pc' \in {"returned", "send"} /\ outcome = "none"
        /\ outcome' \in {"none", "runtime_error"} /\ Unbuilt
        /\ UNCHANGED <<commands, next, mapping, replyMap, sub, store>>
    BY <1>0, <1>8 DEF SingleChannel, Refuse, PhaseInv, netVars
  <2>2. /\ sub = <<>> /\ sub' = <<>> /\ Answered' /\ Succeeded'
        /\ \A slot \in Used : store'[slot] = 0
    BY <1>0, <2>1, UnsentFrame
  <2>3. pc' = "send" => Sendable'
    <3> SUFFICES ASSUME pc' = "send" PROVE Sendable'
      OBVIOUS
    <3>1. /\ CanConnect(s) /\ order' = <<s>>
          /\ reqs' = <<RequestOf(commands, Whole(commands))>>
          /\ resps' = <<NewResponse(OffsetOf(commands, Whole(commands)))>>
      BY <1>8, Parameterised DEF SingleChannel, Refuse, BuildExecutor
    <3>2. OneServer'
      BY <2>1, <3>1 DEF OneServer, NewResponse, Unbuilt
    <3>3. Groups = {s} /\ s # NoServer
      BY <1>8, <3>1 DEF SingleChannel, CanConnect
    <3>4. mapping[NoServer] = <<>>
      BY <3>3 DEF Groups, Target
    <3> QED  BY <2>1, <3>2, <3>4 DEF Sendable
  <2>4. Staging'
    BY <1>0, <2>1, <2>2, <2>3 DEF Staging
  <2>5. Grouping'
    BY <1>0, <2>1, GroupingFrame
  <2> QED  BY <2>2, <2>4, <2>5 DEF ReplyInv
<1>9. ASSUME NEW s \in Target, BuildRequestResponse(s) PROVE ReplyInv'
  <2>1. /\ pc = "build" /\ pc' = "build" /\ outcome = "none" /\ outcome' = "none"
        /\ UNCHANGED <<commands, next, mapping, added, sub, store>>
    BY <1>0, <1>9 DEF BuildRequestResponse, PhaseInv, netVars
  <2>2. /\ sub = <<>> /\ sub' = <<>> /\ Answered' /\ Succeeded'
        /\ \A slot \in Used : store'[slot] = 0
    BY <1>0, <2>1, UnsentFrame
  <2>3. SeveralServers'
    BY <1>9, BuildSeveral
  <2>4. Staging'
    BY <1>0, <2>1, <2>2, <2>3 DEF Staging
  <2>5. Grouping'
    BY <1>0, <2>1, GroupingFrame
  <2> QED  BY <2>2, <2>4, <2>5 DEF ReplyInv
<1>10. CASE StartPChan
  <2>1. /\ pc = "build" /\ pc' = "channels" /\ outcome = "none" /\ added = 0
        /\ outcome' = "none" /\ Groups = Range(order) /\ added' = added
        /\ UNCHANGED <<commands, next, mapping, order, reqs, resps, replyMap,
                       sub, store>>
    <3>1. added = 0
      BY <1>0, <1>10 DEF StartPChan, Staging
    <3> QED  BY <1>0, <1>10, <3>1 DEF StartPChan, PhaseInv, netVars
  <2>2. /\ sub = <<>> /\ sub' = <<>> /\ Answered' /\ Succeeded'
        /\ \A slot \in Used : store'[slot] = 0
    BY <1>0, <2>1, UnsentFrame
  <2>3. AllBuilt
    BY <2>1 DEF AllBuilt, Groups, Range
  <2>4. Staging'
    BY <1>0, <1>a, <2>1, <2>2, <2>3 DEF Staging
  <2> QED  BY <1>a, <2>1, <2>2, <2>4 DEF ReplyInv
<1>11. CASE AddChannel
  <2>1. /\ pc = "channels" /\ outcome = "none"
        /\ UNCHANGED <<commands, next, mapping, order, reqs, resps, replyMap,
                       sub, store>>
    BY <1>0, <1>11 DEF AddChannel, PhaseInv, netVars
  <2>2. \/ pc' = "returned" /\ outcome' = "runtime_error"
        \/ /\ pc' = "channels" /\ outcome' = "none" /\ added' = added + 1
           /\ order[added + 1] # NoServer
    BY <1>11, <2>1 DEF AddChannel, Refuse, CanConnect
  <2>3. /\ sub = <<>> /\ sub' = <<>> /\ Answered' /\ Succeeded'
        /\ \A slot \in Used : store'[slot] = 0
    BY <1>0, <2>1, <2>2, UnsentFrame
  <2>4. pc' = "channels" => \A k \in 1..added' : order'[k] # NoServer
    <3> SUFFICES ASSUME pc' = "channels", NEW k \in 1..added'
                 PROVE  order'[k] # NoServer
      OBVIOUS
    <3>1. added \in Nat /\ added' = added + 1 /\ order[added + 1] # NoServer
          /\ order' = order
      BY <1>0, <2>1, <2>2 DEF TypeOK
    <3>2. k \in 1..added \/ k = added + 1
      BY <3>1
    <3> QED  BY <1>0, <2>1, <3>1, <3>2 DEF Staging
  <2>5. Staging'
    BY <1>0, <1>a, <2>1, <2>2, <2>3, <2>4 DEF Staging
  <2> QED  BY <1>a, <2>1, <2>3, <2>5 DEF ReplyInv
<1>12. CASE ReleaseMapper
  <2>1. /\ pc = "channels" /\ pc' = "send" /\ outcome = "none" /\ outcome' = "none"
        /\ added = Len(order)
        /\ UNCHANGED <<commands, next, mapping, order, reqs, resps, replyMap,
                       sub, store>>
    BY <1>0, <1>12 DEF ReleaseMapper, PhaseInv, netVars
  <2>2. /\ sub = <<>> /\ sub' = <<>> /\ Answered' /\ Succeeded'
        /\ \A slot \in Used : store'[slot] = 0
    BY <1>0, <2>1, UnsentFrame
  <2>3. Sendable
    <3>1. SeveralServers /\ AllBuilt /\ \A k \in 1..Len(order) : order[k] # NoServer
      BY <1>0, <2>1 DEF Staging
    <3>2. mapping[NoServer] = <<>>
      BY <3>1 DEF AllBuilt, Target
    <3> QED  BY <3>1, <3>2 DEF Sendable
  <2>4. Staging'
    BY <1>0, <1>a, <2>1, <2>2, <2>3 DEF Staging
  <2> QED  BY <1>a, <2>1, <2>2, <2>4 DEF ReplyInv
<1>13. CASE CallMethod
  <2>1. /\ pc = "send" /\ pc' = "wait" /\ outcome = "none" /\ outcome' = "none"
        /\ sub' = [k \in DOMAIN order |-> "sent"] /\ sub = <<>>
        /\ UNCHANGED <<commands, next, mapping, order, reqs, resps, replyMap,
                       store>>
    BY <1>0, <1>13 DEF CallMethod, PhaseInv, callVars, Unsent
  <2>2. Answered' /\ Succeeded'
    BY <2>1 DEF Answered, Succeeded
  <2>3. Staging'
    BY <1>0, <1>a, <2>1 DEF Staging
  <2> QED  BY <1>a, <2>1, <2>2, <2>3 DEF ReplyInv
<1>14. ASSUME NEW k \in DOMAIN sub, SubCallAnswers(k) PROVE ReplyInv'
  <2>1. /\ pc = "wait" /\ pc' = pc /\ outcome = "none" /\ outcome' = outcome
        /\ sub' = [sub EXCEPT ![k] = "ok"]
        /\ UNCHANGED <<commands, next, mapping, order, reqs, replyMap>>
    BY <1>0, <1>14 DEF SubCallAnswers, PhaseInv
  <2>2. sub # <<>> /\ sub' # <<>>
    BY <1>14, <2>1
  <2>3. Answered' /\ \A j \in 1..Len(order) : resps'[j].offset = resps[j].offset
    BY <1>14, AnswersKept
  <2> QED  BY <2>1, <2>2, <2>3, NetStep
<1>15. ASSUME NEW k \in DOMAIN sub, SubCallBreaks(k) \/ SubCallCancelled(k)
       PROVE  ReplyInv'
  <2>1. /\ pc = "wait" /\ pc' = pc /\ outcome = "none" /\ outcome' = outcome
        /\ DOMAIN sub' = DOMAIN sub
        /\ \A j \in DOMAIN sub : sub'[j] = "ok" => sub[j] = "ok"
        /\ UNCHANGED <<commands, next, mapping, order, reqs, resps, replyMap>>
    BY <1>0, <1>15 DEF SubCallBreaks, SubCallCancelled, PhaseInv, callVars
  <2>2. sub # <<>> /\ sub' # <<>>
    BY <1>15, <2>1
  <2>3. Answered'
    BY <1>0, <2>1 DEF Answered
  <2> QED  BY <2>1, <2>2, <2>3, NetStep
<1>16. CASE Finish
  <2>1. /\ pc = "wait" /\ pc' = "returned" /\ outcome = "none"
        /\ UNCHANGED <<commands, next, mapping, order, reqs, resps, replyMap,
                       sub, store>>
    BY <1>0, <1>16 DEF Finish, PhaseInv, callVars, netVars
  <2>2. outcome' \in {"runtime_error", "ok"}
    BY <1>16 DEF Finish
  <2>3. Answered'
    BY <1>0, <2>1 DEF Answered
  <2>4. ASSUME outcome' = "ok" PROVE \A k \in DOMAIN sub : sub[k] = "ok"
    <3> DEFINE failed == {k \in DOMAIN sub : sub[k] = "failed"}
    <3>1. DOMAIN sub = 1..Len(order) /\ Len(order) \in Nat
      BY <1>0, <2>1 DEF PhaseInv, TypeOK
    <3>2. IsFiniteSet(failed)
      <4>1. IsFiniteSet(1..Len(order))
      BY <3>1, FS_Interval
    <4> QED  BY <3>1, <4>1, FS_Subset
    <3>3. ~(Cardinality(failed) >= 1)
      BY <1>16, <2>4 DEF Finish, FailLimit
    <3>4. Cardinality(failed) \in Nat
      BY <3>2, FS_CardinalityType
    <3>5. failed = {}
      BY <3>2, <3>3, <3>4, FS_EmptySet
    <3>6. \A k \in DOMAIN sub : sub[k] \in {"sent", "ok", "failed"}
      BY <1>0 DEF TypeOK
    <3>7. \A k \in DOMAIN sub : sub[k] # "sent"
      BY <1>16 DEF Finish
    <3> QED  BY <3>5, <3>6, <3>7
  <2>5. Succeeded'
    BY <1>0, <1>a, <2>1, <2>4 DEF Succeeded, Staging, PhaseInv
  <2>6. Staging'
    BY <1>0, <1>a, <2>1, <2>2 DEF Staging
  <2> QED  BY <1>a, <2>1, <2>3, <2>5, <2>6 DEF ReplyInv
<1>17. ASSUME NEW l \in late, LatePrefixRuns(l) PROVE ReplyInv'
  <2>1. /\ UNCHANGED <<pc, outcome, sub, commands, next, mapping, order, reqs,
                       resps, replyMap>>
    BY <1>17 DEF LatePrefixRuns, callVars
  <2>2. sub # <<>>
    BY <1>0, <1>17 DEF TypeOK
  <2>3. pc \in {"wait", "returned"}
    BY <1>0, <2>2 DEF PhaseInv, Unsent, NoCall, TypeOK
  <2>4. Answered' /\ Succeeded'
    BY <1>0, <1>a, <2>1 DEF Answered, Succeeded
  <2>5. Staging'
    BY <1>0, <1>a, <2>1, <2>2, <2>3 DEF Staging
  <2> QED  BY <1>a, <2>1, <2>4, <2>5 DEF ReplyInv
<1> QED
  BY <1>u, <1>1, <1>2, <1>3, <1>4, <1>5, <1>6, <1>7, <1>8, <1>9, <1>10, <1>11,
     <1>12, <1>13, <1>14, <1>15, <1>16, <1>17 DEF Next, Call

-------------------------------------------------------------------------------
(* What a successful call has read. *)
LEMMA RepliesRead ==
  ASSUME TypeInv, ReplyInv, outcome = "ok"
  PROVE  /\ \A i \in Batch : { r.pos : r \in GetRedisReply(i) } = {i}
         /\ \A i \in Nat : i > Len(commands) => GetRedisReply(i) = {}
<1>0. TypeOK /\ Sendable /\ commands # <<>> /\ next = Len(commands) + 1
      /\ DOMAIN sub = 1..Len(order) /\ \A k \in DOMAIN sub : sub[k] = "ok"
  BY DEF TypeInv, ReplyInv, Succeeded
<1>1. \A k \in 1..Len(order) :
        /\ Len(resps[k].resp) = Len(reqs[k])
        /\ \A q \in 1..Len(reqs[k]) : resps[k].resp[q].pos = reqs[k][q]
  BY <1>0 DEF ReplyInv, Answered
<1>2. commands \in Seq(Command) /\ Len(commands) \in Nat \ {0}
  BY <1>0 DEF TypeOK
<1>3. CASE OneServer
  <2> DEFINE off == OffsetOf(commands, Whole(commands))
             req == RequestOf(commands, Whole(commands))
  <2>1. Len(order) = 1 /\ replyMap = <<>> /\ reqs[1] = req
        /\ resps[1].offset = off
    BY <1>3 DEF OneServer
  <2>2. /\ Whole(commands) \in Seq(Batch) /\ Len(Whole(commands)) = Len(commands)
        /\ \A i \in Batch : Whole(commands)[i] = i
    BY <1>2, FunctionIsSeq DEF Whole, Batch
  <2>3. /\ off \in {0, 1} /\ Len(req) = off + Len(commands)
        /\ \A i \in Batch : req[i + off] = i
    BY <2>2, RequestOfGroup DEF Batch
  <2>4. /\ Len(resps[1].resp) = Len(req)
        /\ \A q \in 1..Len(req) : resps[1].resp[q].pos = req[q]
    BY <1>1, <2>1
  <2> HIDE DEF off, req
  <2>5. \A i : GetRedisReply(i) = IF i + off > Len(req) THEN {}
                                  ELSE {resps[1].resp[i + off]}
    <3> TAKE i
    <3>1. DOMAIN replyMap = {}
      BY <2>1
    <3>2. GetRedisReply(i) = IF i + off > Len(resps[1].resp) THEN {}
                             ELSE {resps[1].resp[i + off]}
      BY <2>1, <3>1 DEF GetRedisReply
    <3> QED  BY <2>4, <3>2
  <2>6. ASSUME NEW i \in Batch PROVE { r.pos : r \in GetRedisReply(i) } = {i}
    <3>1. i + off \in 1..Len(req) /\ ~(i + off > Len(req))
      BY <1>2, <2>3 DEF Batch
    <3>2. GetRedisReply(i) = {resps[1].resp[i + off]}
      BY <2>5, <3>1
    <3> QED  BY <2>3, <2>4, <3>1, <3>2
  <2>7. ASSUME NEW i \in Nat, i > Len(commands) PROVE GetRedisReply(i) = {}
    BY <1>2, <2>3, <2>5, <2>7
  <2> QED  BY <2>6, <2>7
<1>4. CASE SeveralServers /\ AllBuilt
  <2>1. ASSUME NEW i \in Batch
        PROVE  /\ i \in DOMAIN replyMap
               /\ { r.pos : r \in GetRedisReply(i) } = {i}
    <3>1. PICK s \in Target : InGroup(i, s)
      <4>1. i \in 1..(next - 1)
        BY <1>0, <1>2 DEF Batch
      <4> QED  BY <4>1 DEF ReplyInv, Grouping
    <3>2. PICK p \in DOMAIN mapping[s] : mapping[s][p] = i
      BY <3>1 DEF InGroup
    <3>3. mapping[s] \in Seq(Batch) /\ p \in 1..Len(mapping[s])
      BY <1>0, <3>2 DEF TypeOK
    <3>4. PICK k \in 1..Len(order) : order[k] = s
      <4>1. mapping[s] # <<>>
        BY <3>3
      <4> QED  BY <1>4, <4>1 DEF AllBuilt
    <3> DEFINE off == OffsetOf(commands, mapping[s])
               req == RequestOf(commands, mapping[s])
    <3>5. /\ i \in DOMAIN replyMap /\ replyMap[i] = <<k, p>>
          /\ reqs[k] = req /\ resps[k].offset = off
      BY <1>4, <3>2, <3>4 DEF SeveralServers
    <3>6. /\ off \in {0, 1} /\ Len(req) = off + Len(mapping[s])
          /\ req[p + off] = i
      BY <3>2, <3>3, RequestOfGroup
    <3>7. /\ Len(resps[k].resp) = Len(req)
          /\ \A q \in 1..Len(req) : resps[k].resp[q].pos = req[q]
      BY <1>1, <3>5
    <3> HIDE DEF off, req
    <3>8. p + off \in 1..Len(req) /\ ~(p + off > Len(req))
      BY <3>3, <3>6
    <3>9. GetRedisReply(i) = {resps[k].resp[p + off]}
      BY <3>5, <3>7, <3>8 DEF GetRedisReply
    <3> QED  BY <3>5, <3>6, <3>7, <3>8, <3>9
  <2>2. ASSUME NEW i \in Nat, i > Len(commands) PROVE GetRedisReply(i) = {}
    <3>1. DOMAIN replyMap \subseteq 1..Len(commands)
      BY <1>0 DEF TypeOK, Batch
    <3>2. i \notin DOMAIN replyMap
      BY <1>2, <2>2, <3>1
    <3>3. DOMAIN replyMap # {}
      BY <1>2, <2>1 DEF Batch
    <3> QED  BY <3>2, <3>3 DEF GetRedisReply
  <2> QED  BY <2>1, <2>2
<1> QED  BY <1>0, <1>3, <1>4 DEF Sendable

(* While a command of an uncovered slot is in the batch nothing is sent. *)
LEMMA UncoveredStaysHome ==
  ASSUME TypeInv, ReplyInv
  PROVE  UncoveredSlotBlocksBatch
<1> SUFFICES ASSUME NEW i \in Batch, Find(Map, SlotOf[commands[i]]) = {}
             PROVE  /\ outcome # "ok"
                    /\ sub = <<>> /\ \A slot \in Used : store[slot] = 0
  BY DEF UncoveredSlotBlocksBatch
<1>1. TypeOK /\ Grouping /\ Staging
  BY DEF TypeInv, ReplyInv
<1>2. commands \in Seq(Command) /\ commands[i] \in Command
  BY <1>1 DEF TypeOK, Batch
<1>3. ASSUME next = Len(commands) + 1 PROVE mapping[NoServer] # <<>>
  <2>1. i \in 1..(next - 1)
    BY <1>2, <1>3 DEF Batch
  <2>2. PICK s \in Target : InGroup(i, s)
    BY <1>1, <2>1 DEF Grouping
  <2>3. PICK p \in DOMAIN mapping[s] : mapping[s][p] = i
    BY <2>2 DEF InGroup
  <2>4. s \in GetServer(commands[i])
    BY <1>1, <2>3 DEF Grouping
  <2>5. s = NoServer
    BY <1>2, <2>4, ServersOfCommand
  <2> QED  BY <2>3, <2>5
<1>4. sub = <<>>
  <2> SUFFICES ASSUME sub # <<>> PROVE FALSE
    OBVIOUS
  <2>1. mapping[NoServer] = <<>>
    BY <1>1 DEF Staging, Sendable
  <2>2. pc \notin {"idle", "route"}
    BY DEF TypeInv, PhaseInv, NoCall, Unsent
  <2> QED  BY <1>1, <1>3, <2>1, <2>2 DEF Staging
<1>5. outcome # "ok"
  BY <1>3 DEF ReplyInv, Succeeded, Sendable
<1> QED  BY <1>1, <1>4, <1>5 DEF Staging

-------------------------------------------------------------------------------
(* The invariant holds throughout.                                         *)
THEOREM Invariance == Spec => [](TypeInv /\ ReplyInv)
<1>1. Init => TypeInv /\ ReplyInv
  BY TypeInit, ReplyInit
<1>2. (TypeInv /\ ReplyInv) /\ [Next]_vars => (TypeInv /\ ReplyInv)'
  BY TypeNext, ReplyNext
<1> QED  BY <1>1, <1>2, PTL DEF Spec

(* A call that returns a Reply gives every command of the batch its own    *)
(* reply (Reply::AddResponse and Reply::GetRedisReply undo BuildMapper and *)
(* the READONLY in front of a group).                                      *)
THEOREM RepliesMatch == Spec => []ReplyMatchesCommand
<1>1. TypeInv /\ ReplyInv => ReplyMatchesCommand
  BY RepliesRead DEF ReplyMatchesCommand
<1> QED  BY <1>1, Invariance, PTL

(* An index beyond the batch reads no reply, in particular not the extra   *)
(* one that a READONLY in front of the group brings.                       *)
THEOREM NothingBeyond == Spec => []NoReplyBeyondBatch
<1>1. ASSUME TypeInv, ReplyInv PROVE NoReplyBeyondBatch
  <2>1. Len(commands) \in Nat /\ MaxBatch \in Nat
    BY <1>1, BoundAssumption DEF TypeInv, TypeOK
  <2>2. \A i \in (Len(commands) + 1)..(Len(commands) + MaxBatch + 1) :
          i \in Nat /\ i > Len(commands)
    BY <2>1
  <2> QED  BY <1>1, <2>2, RepliesRead DEF NoReplyBeyondBatch
<1> QED  BY <1>1, Invariance, PTL

(* One command whose slot no range covers keeps the whole batch from every *)
(* server, and the call throws.                                            *)
THEOREM UncoveredBlocks == Spec => []UncoveredSlotBlocksBatch
<1>1. TypeInv /\ ReplyInv => UncoveredSlotBlocksBatch
  BY UncoveredStaysHome
<1> QED  BY <1>1, Invariance, PTL

-------------------------------------------------------------------------------
(* Who answered, and what is left in the store.  The invariant CallInv     *)
(* stands on ReplyInv.                                                     *)

(* Each group is in the order of the batch.                                *)
Sorted ==
  \A s \in Target : \A p, q \in DOMAIN mapping[s] :
    p < q => mapping[s][p] < mapping[s][q]

(* Every group has a sub-call, also when there is only one.                *)
Covered ==
  pc \in {"send", "wait"} \/ sub # <<>> \/ outcome = "ok" =>
    AllBuilt /\ commands # <<>>

(* A sub-call that succeeded holds what its server answers to its request. *)
Served ==
  \A k \in DOMAIN sub : sub[k] = "ok" =>
    \E sticky \in BOOLEAN : resps[k].resp = Answers(order[k], reqs[k], sticky)

(* The store holds writes of the batch; only what is sent again leaves a   *)
(* prefix behind; and behind an answered sub-call an older write is the    *)
(* last one only when that sub-call was sent again.                        *)
IsWrite(i, slot) == IsType(i, "Write") /\ SlotOf[commands[i]] = slot
LastWrite(i, slot) ==
  IsWrite(i, slot) /\ \A j \in (i + 1)..Len(commands) : ~IsWrite(j, slot)
Stored ==
  /\ \A slot \in Used : store[slot] # 0 => IsWrite(store[slot], slot)
  /\ \A l \in late : tries[l[1]] < MaxTries
  /\ \A k \in DOMAIN sub : sub[k] = "ok" =>
       \A i \in Batch : \A slot \in Used :
         InGroup(i, order[k]) /\ LastWrite(i, slot) =>
           store[slot] = i \/ (store[slot] # 0 /\ tries[k] < MaxTries)

CallInv == Sorted /\ Covered /\ Served /\ Stored

-------------------------------------------------------------------------------
(* Lemmas on the operators. *)

(* The request of a sorted group: the group, sorted, behind the READONLY.  *)
Behind(R, g) ==
  /\ \A q \in 1..Len(R) : R[q] # 0 => \E p \in DOMAIN g : R[q] = g[p]
  /\ \A p \in DOMAIN g : \E q \in 1..Len(R) : R[q] = g[p]
  /\ \A p, q \in 1..Len(R) : p < q /\ R[q] # 0 => R[p] < R[q]

LEMMA RequestElements ==
  ASSUME NEW cmds, NEW n \in Nat, NEW g \in Seq(1..n),
         \A p, q \in DOMAIN g : p < q => g[p] < g[q]
  PROVE  /\ Behind(RequestOf(cmds, g), g)
         /\ OffsetOf(cmds, g) = 1 => RequestOf(cmds, g)[1] = 0
<1> DEFINE R == RequestOf(cmds, g)
           off == OffsetOf(cmds, g)
<1>1. off \in {0, 1} /\ Len(R) = off + Len(g) /\ Len(g) \in Nat
  BY RequestOfGroup
<1>2. \A q \in 1..Len(R) : R[q] = IF q <= off THEN 0 ELSE g[q - off]
  <2>1. R = [q \in 1..(off + Len(g)) |-> IF q <= off THEN 0 ELSE g[q - off]]
    BY DEF RequestOf
  <2> HIDE DEF R, off
  <2> QED  BY <1>1, <2>1
<1>2a. off = 1 => R[1] = 0
  <2>1. R = [q \in 1..(off + Len(g)) |-> IF q <= off THEN 0 ELSE g[q - off]]
    BY DEF RequestOf
  <2> HIDE DEF R, off
  <2> QED  BY <1>1, <2>1
<1> HIDE DEF R, off
<1>3. \A q \in 1..Len(R) : R[q] # 0 => q - off \in DOMAIN g /\ R[q] = g[q - off]
  BY <1>1, <1>2
<1>4. \A p \in DOMAIN g : p + off \in 1..Len(R) /\ R[p + off] = g[p]
  <2> TAKE p \in DOMAIN g
  <2>1. p \in 1..Len(g) /\ p + off \in 1..Len(R) /\ ~(p + off <= off)
        /\ (p + off) - off = p
    BY <1>1
  <2> QED  BY <1>2, <2>1
<1>5. ASSUME NEW p \in 1..Len(R), NEW q \in 1..Len(R), p < q, R[q] # 0
      PROVE  R[p] < R[q]
  <2>1. q - off \in DOMAIN g /\ R[q] = g[q - off] /\ g[q - off] \in 1..n
    BY <1>3, <1>5
  <2>2. CASE p <= off
    BY <1>2, <2>1, <2>2
  <2>3. CASE ~(p <= off)
    <3>1. R[p] = g[p - off]
      BY <1>2, <2>3
    <3>2. p - off \in DOMAIN g /\ p - off < q - off
      BY <1>1, <1>5, <2>3
    <3> QED  BY <2>1, <3>1, <3>2
  <2> QED  BY <2>2, <2>3
<1>6. /\ \A q \in 1..Len(R) : R[q] # 0 => \E p \in DOMAIN g : R[q] = g[p]
      /\ \A p \in DOMAIN g : \E q \in 1..Len(R) : R[q] = g[p]
  BY <1>3, <1>4
<1> QED  BY <1>2a, <1>5, <1>6 DEF Behind, R, off

(* What every sub-call carries, whether there is one server or several.    *)
Carries(k) ==
  /\ \A q \in 1..Len(reqs[k]) : reqs[k][q] # 0 =>
       reqs[k][q] \in Batch /\ InGroup(reqs[k][q], order[k])
  /\ \A i \in Batch : InGroup(i, order[k]) =>
       \E q \in 1..Len(reqs[k]) : reqs[k][q] = i
  /\ \A p, q \in 1..Len(reqs[k]) :
       p < q /\ reqs[k][q] # 0 => reqs[k][p] < reqs[k][q]
  /\ ~UseMaster /\ IsType(mapping[order[k]][1], "Read") => reqs[k][1] = 0
  /\ \A j \in 1..Len(order) : order[j] = order[k] => j = k

LEMMA Pipelines ==
  ASSUME TypeInv, ReplyInv, Sorted, AllBuilt, Sendable, commands # <<>>,
         next = Len(commands) + 1, NEW k \in 1..Len(order)
  PROVE  Carries(k) /\ order[k] \in Target
<1> DEFINE n == Len(commands)
<1>1. /\ n \in Nat \ {0} /\ Batch = 1..n /\ order \in Seq(Target)
      /\ Len(order) \in Nat /\ mapping \in [Target -> Seq(1..n)]
  BY DEF TypeInv, TypeOK, Batch
<1>2. order[k] \in Target /\ mapping[order[k]] \in Seq(1..n)
  BY <1>1
<1>3. CASE SeveralServers
  <2> DEFINE g == mapping[order[k]]
  <2>1. reqs[k] = RequestOf(commands, g)
        /\ \A j \in 1..Len(order) : order[j] = order[k] => j = k
    BY <1>3 DEF SeveralServers
  <2>2. \A p, q \in DOMAIN g : p < q => g[p] < g[q]
    BY <1>2 DEF Sorted
  <2>3. /\ Behind(reqs[k], g)
        /\ OffsetOf(commands, g) = 1 => reqs[k][1] = 0
    <3> HIDE DEF g, n
    <3> QED  BY <1>1, <1>2, <2>1, <2>2, RequestElements DEF g
  <2>4. \A p \in DOMAIN g : g[p] \in Batch
    BY <1>1, <1>2
  <2>5. ~UseMaster /\ IsType(g[1], "Read") => OffsetOf(commands, g) = 1
    BY DEF OffsetOf, IsType
  <2> QED  BY <1>2, <2>1, <2>3, <2>4, <2>5 DEF Carries, Behind, InGroup
<1>4. CASE OneServer
  <2> DEFINE g == Whole(commands)
  <2>1. reqs[k] = RequestOf(commands, g) /\ k = 1 /\ Len(order) = 1
    BY <1>4 DEF OneServer
  <2>2. g \in Seq(1..n) /\ DOMAIN g = 1..n /\ \A i \in 1..n : g[i] = i
    BY <1>1, FunctionIsSeq DEF Whole
  <2> HIDE DEF g
  <2>3. /\ Behind(reqs[k], g)
        /\ OffsetOf(commands, g) = 1 => reqs[k][1] = 0
    <3>1. \A p, q \in DOMAIN g : p < q => g[p] < g[q]
      BY <2>2
    <3> HIDE DEF n
    <3> QED  BY <1>1, <2>1, <2>2, <3>1, RequestElements
  <2>4. \A i \in Batch : InGroup(i, order[k])
    <3> TAKE i \in Batch
    <3>1. i \in 1..(next - 1)
      BY <1>1
    <3>2. PICK s \in Target : InGroup(i, s)
      BY <3>1 DEF ReplyInv, Grouping
    <3>3. mapping[s] # <<>>
      BY <1>1, <3>2 DEF InGroup
    <3>4. s = order[k]
      BY <2>1, <3>3 DEF AllBuilt
    <3> QED  BY <3>2, <3>4
  <2>5. mapping[order[k]][1] = 1
    <3>0. 1 \in Batch
      BY <1>1
    <3>1. PICK p \in DOMAIN mapping[order[k]] : mapping[order[k]][p] = 1
      BY <3>0, <2>4 DEF InGroup
    <3>2. p \in Nat /\ p >= 1 /\ 1 \in DOMAIN mapping[order[k]]
          /\ mapping[order[k]][1] \in 1..n
      BY <1>2, <3>1
    <3>3. 1 < p => mapping[order[k]][1] < 1
      BY <1>2, <3>1, <3>2 DEF Sorted
    <3> QED  BY <3>1, <3>2, <3>3
  <2>6. ~UseMaster /\ IsType(mapping[order[k]][1], "Read")
          => OffsetOf(commands, g) = 1
    <3>1. g[1] = 1
      BY <1>1, <2>2
    <3> QED  BY <2>5, <3>1 DEF OffsetOf, IsType
  <2>7. \A p \in DOMAIN g : g[p] \in Batch /\ g[p] = p
    BY <1>1, <2>2
  <2>8. \A i \in Batch : i \in DOMAIN g /\ g[i] = i
    BY <1>1, <2>2
  <2>9. \A q \in 1..Len(reqs[k]) : reqs[k][q] # 0 =>
          reqs[k][q] \in Batch /\ InGroup(reqs[k][q], order[k])
    BY <2>3, <2>4, <2>7 DEF Behind
  <2>10. \A i \in Batch : InGroup(i, order[k]) =>
           \E q \in 1..Len(reqs[k]) : reqs[k][q] = i
    BY <2>3, <2>8 DEF Behind
  <2>11. \A j \in 1..Len(order) : order[j] = order[k] => j = k
    BY <2>1
  <2> QED  BY <1>2, <2>3, <2>6, <2>9, <2>10, <2>11 DEF Carries, Behind
<1> QED  BY <1>3, <1>4 DEF Sendable

(* Only the master of its slot applies a write, and all writes to a slot   *)
(* are in the group of that master.                                        *)
LEMMA WritesAtMaster ==
  ASSUME TypeInv, ReplyInv, NEW s \in Target, NEW i \in Batch, InGroup(i, s),
         IsType(i, "Write")
  PROVE  s = FindWrite(Map, SlotOf[commands[i]])
<1>1. s \in GetServer(commands[i])
  BY DEF InGroup, ReplyInv, Grouping
<1> QED  BY <1>1 DEF GetServer, IsType

(* What a prefix of a pipeline leaves in a slot: nothing new, or a write   *)
(* of its own group; the whole pipeline leaves the last one.               *)
LEMMA AppliedWrites ==
  ASSUME TypeInv, ReplyInv, NEW k \in 1..Len(order), Carries(k),
         order[k] \in Target, NEW n \in 0..Len(reqs[k]), Len(reqs[k]) \in Nat,
         NEW slot \in Used
  PROVE  LET st == Applied(order[k], reqs[k], n)[slot]
         IN  /\ \/ st = store[slot]
                \/ st \in Batch /\ IsWrite(st, slot) /\ InGroup(st, order[k])
             /\ n = Len(reqs[k]) => \A i \in Batch :
                  InGroup(i, order[k]) /\ LastWrite(i, slot) => st = i
<1> DEFINE req == reqs[k]
           s   == order[k]
           A   == LastApplied(s, req, n, slot)
           W(q) == /\ req[q] # 0
                   /\ IsType(req[q], "Write")
                   /\ SlotOf[commands[req[q]]] = slot
                   /\ Serves(s, req[q], FALSE)
           st  == Applied(s, req, n)[slot]
<1>1. A = {q \in 1..n : W(q) /\ \A p \in (q + 1)..n : ~W(p)}
  BY DEF LastApplied
<1>2. st = IF A = {} THEN store[slot] ELSE req[CHOOSE q \in A : TRUE]
  BY DEF Applied
<1>3. 1..n \subseteq 1..Len(req) /\ n \in Nat
  OBVIOUS
<1>4. \A q \in 1..n : W(q) => req[q] \in Batch /\ IsWrite(req[q], slot)
                              /\ InGroup(req[q], s)
  BY <1>3 DEF Carries, IsWrite
<1>5. \A i \in Batch : IsWrite(i, slot) /\ InGroup(i, s) => Serves(s, i, FALSE)
  BY WritesAtMaster DEF IsWrite, Serves
<1>6. A # {} => (CHOOSE q \in A : TRUE) \in A
  OBVIOUS
<1> HIDE DEF A, W, st
<1>7. \/ st = store[slot]
      \/ st \in Batch /\ IsWrite(st, slot) /\ InGroup(st, s)
  BY <1>1, <1>2, <1>4, <1>6
<1>8. ASSUME n = Len(req), NEW i \in Batch, InGroup(i, s), LastWrite(i, slot)
      PROVE  st = i
  <2>0. Len(commands) \in Nat /\ Batch = 1..Len(commands)
    BY DEF Batch, TypeInv, TypeOK
  <2>1. PICK q \in 1..Len(req) : req[q] = i
    BY <1>8 DEF Carries
  <2>2. W(q)
    <3>1. IsWrite(i, slot) /\ Serves(s, i, FALSE)
      BY <1>5, <1>8 DEF LastWrite
    <3>2. i # 0
      BY <2>0
    <3> QED  BY <2>1, <3>1, <3>2 DEF W, IsWrite
  <2>3. ASSUME NEW p \in 1..n, W(p), q < p PROVE FALSE
    <3>1. req[p] \in Batch /\ IsWrite(req[p], slot) /\ req[p] # 0
      BY <1>4, <2>3 DEF W
    <3>2. req[q] < req[p]
      BY <1>8, <2>1, <2>3, <3>1 DEF Carries
    <3>3. req[p] \in (i + 1)..Len(commands)
      BY <2>0, <2>1, <3>1, <3>2
    <3> QED  BY <1>8, <3>1, <3>3 DEF LastWrite
  <2>4. q \in A
    <3>1. \A p \in (q + 1)..n : ~W(p)
      BY <1>3, <2>3
    <3> QED  BY <1>1, <1>8, <2>1, <2>2, <3>1
  <2>5. \A p \in A : p = q
    <3> TAKE p \in A
    <3>1. p \in 1..n /\ W(p) /\ \A r \in (p + 1)..n : ~W(r)
      BY <1>1
    <3>2. ~(q < p)
      BY <2>3, <3>1
    <3>3. ~(p < q)
      <4>1. p < q => q \in (p + 1)..n
        BY <1>3, <1>8, <2>1, <3>1
      <4> QED  BY <2>2, <3>1, <4>1
    <3> QED  BY <1>3, <2>1, <3>1, <3>2, <3>3
  <2> QED  BY <1>2, <1>6, <2>1, <2>4, <2>5
<1> QED  BY <1>7, <1>8 DEF st

-------------------------------------------------------------------------------
(* What the actions leave alone. *)
LEMMA SortedFrame ==
  ASSUME Sorted, mapping' = mapping PROVE Sorted'
BY DEF Sorted

LEMMA ServedFrame ==
  ASSUME Served, UNCHANGED <<commands, order, reqs, resps>>,
         DOMAIN sub' = DOMAIN sub,
         \A k \in DOMAIN sub : sub'[k] = "ok" => sub[k] = "ok"
  PROVE  Served'
BY DEF Served, Answers, Serves, IsType

LEMMA StoredFrame ==
  ASSUME Stored, UNCHANGED <<commands, mapping, order, store, sub, tries, late>>
  PROVE  Stored'
BY DEF Stored, InGroup, IsWrite, LastWrite, IsType, Batch

(* Before anything is sent there is nothing to say of servers.             *)
LEMMA UnsentCallInv ==
  ASSUME Sorted', sub' = <<>>, late' = {}, outcome' # "ok",
         \A slot \in Used : store'[slot] = 0,
         pc' \in {"send", "wait"} => AllBuilt' /\ commands' # <<>>
  PROVE  CallInv'
<1>1. Covered'
  BY DEF Covered
<1>2. Served' /\ Stored'
  BY DEF Served, Stored
<1> QED  BY <1>1, <1>2 DEF CallInv

(* What holds of every sub-call once they are issued.                      *)
LEMMA Issued ==
  ASSUME TypeInv, ReplyInv, CallInv, NEW k \in DOMAIN sub
  PROVE  /\ k \in 1..Len(order) /\ order[k] \in Target /\ Carries(k)
         /\ Len(reqs[k]) \in Nat
         /\ tries[k] \in 0..MaxTries
<1>1. sub # <<>> /\ TypeOK /\ PhaseInv /\ Staging
  BY DEF TypeInv, ReplyInv
<1>2. k \in 1..Len(order)
  BY <1>1 DEF TypeOK
<1>3. pc \notin {"idle", "route"}
  BY <1>1 DEF PhaseInv, NoCall, Unsent
<1>4. next = Len(commands) + 1 /\ Sendable /\ AllBuilt /\ commands # <<>>
      /\ Sorted
  BY <1>1, <1>3 DEF Staging, CallInv, Covered
<1>5. Len(reqs[k]) \in Nat
  BY <1>1, <1>2 DEF TypeOK
<1>6. tries[k] \in 0..MaxTries
  BY <1>1 DEF TypeOK
<1> QED  BY <1>2, <1>4, <1>5, <1>6, Pipelines

(* A step of the store: n requests of sub-call k ran, or none.             *)
LEMMA StoredStep ==
  ASSUME TypeInv, ReplyInv, CallInv,
         NEW k \in DOMAIN sub, NEW n \in 0..Len(reqs[k]),
         store' \in {store, Applied(order[k], reqs[k], n)},
         UNCHANGED <<commands, mapping, order>>,
         DOMAIN sub' = DOMAIN sub,
         \A j \in DOMAIN sub : j # k => sub'[j] = sub[j] /\ tries'[j] = tries[j],
         tries'[k] \in {tries[k], tries[k] - 1},
         \A l \in late' : l \in late \/ (l[1] = k /\ tries'[k] = tries[k] - 1),
         sub'[k] = "ok" =>
           \/ n = Len(reqs[k]) /\ store' = Applied(order[k], reqs[k], n)
           \/ sub[k] = "ok" /\ tries'[k] < MaxTries
  PROVE  Stored'
<1>1. /\ k \in 1..Len(order) /\ order[k] \in Target /\ Carries(k)
      /\ Len(reqs[k]) \in Nat
  BY Issued
<1>2. Stored /\ \A j \in DOMAIN sub : tries[j] \in 0..MaxTries
  BY Issued DEF CallInv
<1>3. ASSUME NEW slot \in Used
      PROVE  \/ store'[slot] = store[slot]
             \/ /\ store'[slot] \in Batch /\ store'[slot] # 0
                /\ IsWrite(store'[slot], slot)
                /\ InGroup(store'[slot], order[k])
  <2>1. CASE store' = store
    BY <2>1
  <2>2. CASE store' = Applied(order[k], reqs[k], n)
    <3>1. 0 \notin Batch
      BY DEF Batch
    <3> QED  BY <1>1, <2>2, <3>1, AppliedWrites
  <2> QED  BY <2>1, <2>2
<1>4. /\ \A i, slot : IsWrite(i, slot)' <=> IsWrite(i, slot)
      /\ \A i, slot : LastWrite(i, slot)' <=> LastWrite(i, slot)
      /\ \A i, s : InGroup(i, s)' <=> InGroup(i, s)
      /\ Batch' = Batch
  BY DEF IsWrite, LastWrite, IsType, InGroup, Batch
<1>5. \A slot \in Used : store'[slot] # 0 => IsWrite(store'[slot], slot)
  BY <1>2, <1>3 DEF Stored
<1>6. ASSUME NEW l \in late' PROVE tries'[l[1]] < MaxTries
  <2>1. CASE l \in late
    <3>1. l[1] \in DOMAIN sub /\ tries[l[1]] < MaxTries
      BY <1>2, <2>1 DEF Stored, TypeInv, TypeOK
    <3>2. tries[l[1]] \in 0..MaxTries
          /\ tries'[l[1]] \in {tries[l[1]], tries[l[1]] - 1}
      BY <1>2, <3>1
    <3> QED  BY <3>1, <3>2, BoundAssumption
  <2>2. CASE l[1] = k /\ tries'[k] = tries[k] - 1
    <3>1. tries[k] \in 0..MaxTries
      BY <1>2
    <3> QED  BY <2>2, <3>1, BoundAssumption
  <2> QED  BY <2>1, <2>2
<1>7. ASSUME NEW j \in DOMAIN sub, sub'[j] = "ok", NEW i \in Batch,
             NEW slot \in Used, InGroup(i, order[j]), LastWrite(i, slot)
      PROVE  store'[slot] = i \/ (store'[slot] # 0 /\ tries'[j] < MaxTries)
  <2>0. i # 0
    BY DEF Batch
  <2>1. CASE j # k
    <3>1. /\ sub[j] = "ok" /\ tries'[j] = tries[j]
          /\ store[slot] = i \/ (store[slot] # 0 /\ tries[j] < MaxTries)
      BY <1>2, <1>7, <2>1 DEF Stored
    <3>2. ASSUME /\ store'[slot] \in Batch
                 /\ IsWrite(store'[slot], slot)
                 /\ InGroup(store'[slot], order[k])
          PROVE  FALSE
      <4>1. order[k] = FindWrite(Map, slot)
        BY <1>1, <3>2, WritesAtMaster DEF IsWrite
      <4>2. order[j] \in Target
        BY Issued
      <4>3. order[j] = FindWrite(Map, slot)
        BY <1>7, <4>2, WritesAtMaster DEF LastWrite, IsWrite
      <4>4. j \in 1..Len(order)
        BY Issued
      <4> QED  BY <1>1, <2>1, <4>1, <4>3, <4>4 DEF Carries
    <3> QED  BY <1>3, <3>1, <3>2
  <2>2. CASE j = k /\ sub[k] = "ok" /\ tries'[k] < MaxTries
    <3>1. store[slot] # 0
      BY <1>2, <1>7, <2>0, <2>2 DEF Stored
    <3> QED  BY <1>3, <2>2, <3>1
  <2>3. CASE j = k /\ n = Len(reqs[k])
             /\ store' = Applied(order[k], reqs[k], n)
    BY <1>1, <1>7, <2>3, AppliedWrites
  <2> QED  BY <1>7, <2>1, <2>2, <2>3
<1> QED  BY <1>4, <1>5, <1>6, <1>7 DEF Stored

(* A command is put behind those routed before it.                         *)
LEMMA RouteSorted ==
  ASSUME TypeInv, ReplyInv, Sorted, RouteCommand
  PROVE  Sorted'
<1>1. /\ next \in Batch /\ next \in Nat
      /\ mapping \in [Target -> Seq(Batch)] /\ commands[next] \in Command
  <2>1. next \in 1..(Len(commands) + 1) /\ commands \in Seq(Command)
    BY DEF TypeInv, TypeOK
  <2>2. next <= Len(commands)
    BY DEF RouteCommand
  <2> QED  BY <2>1, <2>2 DEF TypeInv, TypeOK, Batch
<1>2. PICK t \in GetServer(commands[next]) :
        mapping' = [mapping EXCEPT ![t] = Append(@, next)]
  BY DEF RouteCommand, PushBack
<1>3. t \in Target
  BY <1>1, <1>2, ServersOfCommand
<1>4. /\ mapping[t] \in Seq(Batch) /\ mapping'[t] = Append(mapping[t], next)
      /\ \A s \in Target \ {t} : mapping'[s] = mapping[s]
  BY <1>1, <1>2, <1>3
<1>5. \A p \in DOMAIN mapping[t] : mapping[t][p] < next
  BY <1>3 DEF ReplyInv, Grouping
<1>6. \A p, q \in DOMAIN mapping[t] : p < q => mapping[t][p] < mapping[t][q]
  BY <1>3 DEF Sorted
<1>7. ASSUME NEW p \in DOMAIN mapping'[t], NEW q \in DOMAIN mapping'[t], p < q
      PROVE  mapping'[t][p] < mapping'[t][q]
  <2>1. /\ DOMAIN mapping[t] = 1..Len(mapping[t]) /\ Len(mapping[t]) \in Nat
        /\ DOMAIN mapping'[t] = 1..(Len(mapping[t]) + 1)
        /\ mapping'[t][Len(mapping[t]) + 1] = next
        /\ \A r \in DOMAIN mapping[t] : mapping'[t][r] = mapping[t][r]
    BY <1>4
  <2>2. p \in DOMAIN mapping[t] /\ mapping'[t][p] = mapping[t][p]
    BY <1>7, <2>1
  <2>3. CASE q \in DOMAIN mapping[t]
    BY <1>6, <1>7, <2>1, <2>2, <2>3
  <2>4. CASE q = Len(mapping[t]) + 1
    BY <1>5, <2>1, <2>2, <2>4
  <2> QED  BY <1>7, <2>1, <2>3, <2>4
<1> QED  BY <1>4, <1>7 DEF Sorted

(* The second invariant holds at first, and every action keeps it.         *)
LEMMA CallInit == Init => CallInv
BY DEF Init, NoCall, CallInv, Sorted, Covered, Served, Stored

LEMMA CallNext == TypeInv /\ ReplyInv /\ CallInv /\ [Next]_vars => CallInv'
<1> SUFFICES ASSUME TypeInv, ReplyInv, CallInv, [Next]_vars PROVE CallInv'
  OBVIOUS
<1>0. /\ TypeOK /\ PhaseInv /\ Staging
      /\ Sorted /\ Covered /\ Served /\ Stored
  BY DEF TypeInv, ReplyInv, CallInv
<1>a. (* Before anything is sent. *)
      ASSUME pc \in {"idle", "route", "single", "build", "channels", "send"},
             UNCHANGED <<sub, late, store>>, Sorted', outcome' # "ok",
             pc' \in {"send", "wait"} => AllBuilt' /\ commands' # <<>>
      PROVE  CallInv'
  <2>1. sub = <<>> /\ late = {}
    BY <1>0, <1>a DEF PhaseInv, NoCall, Unsent
  <2>2. \A slot \in Used : store[slot] = 0
    BY <1>0, <2>1 DEF Staging
  <2> QED  BY <1>a, <2>1, <2>2, UnsentCallInv
<1>b. ASSUME UNCHANGED <<pc, callVars, netVars, outcome>> PROVE CallInv'
  <2>1. /\ UNCHANGED <<commands, mapping, order, reqs, resps, store, sub, tries,
                       late, pc, outcome>>
    BY <1>b DEF callVars, netVars
  <2>2. Covered'
    BY <1>0, <2>1 DEF Covered, AllBuilt
  <2>3. Served'
    BY <1>0, <2>1, ServedFrame
  <2> QED  BY <1>0, <2>1, <2>2, <2>3, SortedFrame, StoredFrame DEF CallInv
<1>u. CASE UNCHANGED vars
  BY <1>u, <1>b DEF vars
<1>1. ASSUME NEW cmd \in Command, Add(cmd) PROVE CallInv'
  BY <1>1, <1>b DEF Add
<1>2. CASE Reset
  BY <1>2, <1>b DEF Reset
<1>3. CASE Execute
  <2>1. /\ pc = "idle" /\ pc' \in {"route", "returned"}
        /\ mapping' = mapping /\ UNCHANGED <<sub, late, store>>
        /\ outcome' # "ok"
    BY <1>0, <1>3 DEF Execute, unrouted, netVars, PhaseInv
  <2> QED  BY <1>0, <1>a, <2>1, SortedFrame
<1>4. ASSUME NEW cmd \in Command, ExecuteOne(cmd) PROVE CallInv'
  <2>1. /\ pc = "idle" /\ pc' = "route"
        /\ mapping' = mapping /\ UNCHANGED <<sub, late, store>>
        /\ outcome' # "ok"
    BY <1>0, <1>4 DEF ExecuteOne, unrouted, netVars, PhaseInv
  <2> QED  BY <1>0, <1>a, <2>1, SortedFrame
<1>5. CASE Take
  <2>1. /\ mapping' = [s \in Target |-> <<>>] /\ sub' = <<>> /\ late' = {}
        /\ store' = [slot \in Used |-> 0] /\ outcome' # "ok" /\ pc' = "idle"
    BY <1>5 DEF Take
  <2>2. Sorted'
    BY <2>1 DEF Sorted
  <2> QED  BY <2>1, <2>2, UnsentCallInv
<1>6. CASE RouteCommand
  <2>1. /\ pc = "route" /\ pc' = "route" /\ UNCHANGED <<sub, late, store>>
        /\ outcome' # "ok"
    BY <1>0, <1>6 DEF RouteCommand, netVars, PhaseInv
  <2> QED  BY <1>0, <1>6, <1>a, <2>1, RouteSorted
<1>7. CASE Routed
  <2>1. /\ pc = "route" /\ pc' \in {"single", "build"} /\ mapping' = mapping
        /\ UNCHANGED <<sub, late, store>> /\ outcome' # "ok"
    BY <1>0, <1>7 DEF Routed, callVars, netVars, PhaseInv
  <2> QED  BY <1>0, <1>a, <2>1, SortedFrame
<1>8. ASSUME NEW s \in Target, SingleChannel(s) PROVE CallInv'
  <2>1. /\ pc = "single" /\ UNCHANGED <<commands, mapping, sub, late, store>>
        /\ outcome' # "ok" /\ Groups = {s}
    BY <1>0, <1>8 DEF SingleChannel, Refuse, netVars, PhaseInv
  <2>2. commands # <<>>
    BY <1>0, <2>1 DEF Staging, PhaseInv
  <2>3. ASSUME pc' \in {"send", "wait"} PROVE AllBuilt'
    <3>1. order' = <<s>>
      BY <1>8, <2>3 DEF SingleChannel, Refuse
    <3>2. Len(order') = 1 /\ order'[1] = s
      BY <3>1
    <3>3. \A t \in Target : mapping'[t] # <<>> => t = s
      BY <2>1 DEF Groups
    <3> QED  BY <3>2, <3>3 DEF AllBuilt
  <2> QED  BY <1>0, <1>a, <2>1, <2>2, <2>3, SortedFrame
<1>9. ASSUME NEW s \in Target, BuildRequestResponse(s) PROVE CallInv'
  <2>1. /\ pc = "build" /\ pc' = "build" /\ UNCHANGED <<mapping, sub, late, store>>
        /\ outcome' # "ok"
    BY <1>0, <1>9 DEF BuildRequestResponse, netVars, PhaseInv
  <2> QED  BY <1>0, <1>a, <2>1, SortedFrame
<1>10. CASE StartPChan
  <2>1. /\ pc = "build" /\ pc' = "channels" /\ UNCHANGED <<mapping, sub, late, store>>
        /\ outcome' # "ok"
    BY <1>0, <1>10 DEF StartPChan, netVars, PhaseInv
  <2> QED  BY <1>0, <1>a, <2>1, SortedFrame
<1>11. CASE AddChannel
  <2>1. /\ pc = "channels" /\ pc' \in {"channels", "returned"}
        /\ UNCHANGED <<mapping, sub, late, store>> /\ outcome' # "ok"
    BY <1>0, <1>11 DEF AddChannel, Refuse, netVars, PhaseInv
  <2> QED  BY <1>0, <1>a, <2>1, SortedFrame
<1>12. CASE ReleaseMapper
  <2>1. /\ pc = "channels" /\ pc' = "send"
        /\ UNCHANGED <<commands, mapping, order, sub, late, store>>
        /\ outcome' # "ok"
    BY <1>0, <1>12 DEF ReleaseMapper, netVars, PhaseInv
  <2>2. AllBuilt /\ commands # <<>>
    BY <1>0, <2>1 DEF Staging, PhaseInv
  <2>3. AllBuilt'
    BY <2>1, <2>2 DEF AllBuilt
  <2> QED  BY <1>0, <1>a, <2>1, <2>2, <2>3, SortedFrame
<1>13. CASE CallMethod
  <2>1. /\ pc = "send" /\ pc' = "wait"
        /\ sub' = [k \in DOMAIN order |-> "sent"] /\ sub = <<>>
        /\ late' = {} /\ store' = store
        /\ UNCHANGED <<commands, mapping, order>>
    BY <1>0, <1>13 DEF CallMethod, callVars, PhaseInv, Unsent
  <2>2. \A slot \in Used : store'[slot] = 0
    BY <1>0, <2>1 DEF Staging
  <2>3. Served' /\ Stored'
    BY <2>1, <2>2 DEF Served, Stored
  <2>4. Covered'
    BY <1>0, <2>1 DEF Covered, AllBuilt
  <2> QED  BY <1>0, <2>1, <2>3, <2>4, SortedFrame DEF CallInv
<1>c. (* While the sub-calls are under way. *)
      ASSUME sub # <<>>, UNCHANGED <<commands, mapping, order>>
      PROVE  Sorted' /\ Covered'
  BY <1>0, <1>c, SortedFrame DEF Covered, AllBuilt
<1>14. ASSUME NEW k \in DOMAIN sub, SubCallAnswers(k) PROVE CallInv'
  <2>1. /\ UNCHANGED <<commands, mapping, order, reqs, tries, late>>
        /\ sub' = [sub EXCEPT ![k] = "ok"] /\ sub # <<>>
        /\ store' = Applied(order[k], reqs[k], Len(reqs[k]))
    BY <1>14 DEF SubCallAnswers
  <2>2. Len(reqs[k]) \in 0..Len(reqs[k]) /\ k \in 1..Len(order)
    BY <1>14, Issued
  <2>3. Stored'
    BY <1>14, <2>1, <2>2, StoredStep
  <2>4. Served'
    <3>1. PICK sticky \in BOOLEAN :
            resps' = [resps EXCEPT ![k].resp = Answers(order[k], reqs[k], sticky)]
      BY <1>14 DEF SubCallAnswers
    <3> DEFINE A(j, b) == Answers(order[j], reqs[j], b)
    <3>2. \A j, b : Answers(order[j], reqs[j], b)' = A(j, b)
      BY <2>1 DEF Answers, Serves, IsType
    <3>3. \A j \in DOMAIN sub : j \in 1..Len(order)
      BY Issued
    <3> DEFINE R == [resp : Seq([pos : 0..Len(commands), served : BOOLEAN]),
                     offset : {0, 1}]
    <3>0. resps \in Seq(R) /\ Len(resps) = Len(order)
      BY <1>0 DEF TypeOK
    <3>4. DOMAIN resps = 1..Len(order)
          /\ resps[k] = [resp |-> resps[k].resp, offset |-> resps[k].offset]
      <4>1. DOMAIN resps = 1..Len(order) /\ resps[k] \in R
        <5> HIDE DEF R
        <5> QED  BY <2>2, <3>0
      <4> QED  BY <4>1
    <3> HIDE DEF A, R
    <3>5. resps'[k].resp = A(k, sticky)
          /\ \A j \in 1..Len(order) : j # k => resps'[j] = resps[j]
      BY <2>2, <3>1, <3>4 DEF A
    <3>6. ASSUME NEW j \in DOMAIN sub, sub'[j] = "ok"
          PROVE  \E b \in BOOLEAN : resps'[j].resp = A(j, b)
      <4>1. CASE j = k
        BY <3>5, <4>1
      <4>2. CASE j # k
        <5>1. sub[j] = "ok"
          BY <2>1, <3>6, <4>2
        <5> QED  BY <1>0, <3>3, <3>5, <4>2, <5>1 DEF Served, A
      <4> QED  BY <4>1, <4>2
    <3> QED  BY <2>1, <3>2, <3>6 DEF Served
  <2> QED  BY <1>c, <2>1, <2>3, <2>4 DEF CallInv
<1>15. ASSUME NEW k \in DOMAIN sub, SubCallBreaks(k) \/ SubCallCancelled(k)
       PROVE  CallInv'
  <2>1. /\ UNCHANGED <<commands, mapping, order, reqs, resps>> /\ sub # <<>>
        /\ \A j \in DOMAIN sub : j # k => sub'[j] = sub[j] /\ tries'[j] = tries[j]
        /\ DOMAIN sub' = DOMAIN sub /\ sub'[k] # "ok"
    BY <1>0, <1>15 DEF SubCallBreaks, SubCallCancelled, callVars, PhaseInv
  <2>2. PICK n \in 0..Len(reqs[k]) :
          /\ store' \in {store, Applied(order[k], reqs[k], n)}
          /\ \/ late' = late /\ tries'[k] \in {tries[k], tries[k] - 1}
             \/ late' = late \cup {<<k, n>>} /\ tries'[k] = tries[k] - 1
    BY <1>0, <1>15 DEF SubCallBreaks, SubCallCancelled, PhaseInv
  <2>3. Stored'
    <3>1. tries'[k] \in {tries[k], tries[k] - 1}
      BY <2>2
    <3>2. \A l \in late' : l \in late \/ (l[1] = k /\ tries'[k] = tries[k] - 1)
      BY <2>2
    <3> QED  BY <2>1, <2>2, <3>1, <3>2, StoredStep
  <2>4. Served'
    BY <1>0, <2>1, ServedFrame
  <2> QED  BY <1>c, <2>1, <2>3, <2>4 DEF CallInv
<1>16. CASE Finish
  <2>1. /\ pc = "wait"
        /\ UNCHANGED <<commands, mapping, order, reqs, resps, store, sub, tries,
                       late>>
    BY <1>16 DEF Finish, callVars, netVars
  <2>2. Covered'
    BY <1>0, <2>1 DEF Covered, AllBuilt
  <2>3. Served'
    BY <1>0, <2>1, ServedFrame
  <2> QED  BY <1>0, <2>1, <2>2, <2>3, SortedFrame, StoredFrame DEF CallInv
<1>17. ASSUME NEW l \in late, LatePrefixRuns(l) PROVE CallInv'
  <2>1. /\ UNCHANGED <<commands, mapping, order, reqs, resps, sub, tries>>
        /\ store' = Applied(order[l[1]], reqs[l[1]], l[2])
        /\ late' \subseteq late
    BY <1>17 DEF LatePrefixRuns, callVars
  <2>2. l[1] \in DOMAIN sub /\ l[2] \in 0..Len(reqs[l[1]])
        /\ tries[l[1]] < MaxTries /\ sub # <<>>
    BY <1>0, <1>17 DEF TypeOK, Stored
  <2>3. Stored'
    BY <2>1, <2>2, StoredStep
  <2>4. Served'
    BY <1>0, <2>1, ServedFrame
  <2> QED  BY <1>c, <2>1, <2>2, <2>3, <2>4 DEF CallInv
<1> QED
  BY <1>u, <1>1, <1>2, <1>3, <1>4, <1>5, <1>6, <1>7, <1>8, <1>9, <1>10, <1>11,
     <1>12, <1>13, <1>14, <1>15, <1>16, <1>17 DEF Next, Call

(* Every command of a successful call is in the group of a sub-call that   *)
(* succeeded, and its reply is one of that sub-call's.                     *)
LEMMA OwnSubCall ==
  ASSUME TypeInv, ReplyInv, CallInv, outcome = "ok", NEW i \in Batch
  PROVE  \E k \in DOMAIN sub : sub[k] = "ok" /\ InGroup(i, order[k])
<1>1. /\ next = Len(commands) + 1 /\ DOMAIN sub = 1..Len(order) /\ AllBuilt
      /\ \A k \in DOMAIN sub : sub[k] = "ok"
  BY DEF ReplyInv, Succeeded, CallInv, Covered
<1>2. i \in 1..(next - 1)
  BY <1>1 DEF Batch, TypeInv, TypeOK
<1>3. PICK s \in Target : InGroup(i, s)
  BY <1>2 DEF ReplyInv, Grouping
<1>4. mapping[s] # <<>>
  BY <1>3 DEF InGroup
<1>5. PICK k \in 1..Len(order) : order[k] = s
  BY <1>1, <1>4 DEF AllBuilt
<1> QED  BY <1>1, <1>3, <1>5

LEMMA ReplyOfSubCall ==
  ASSUME TypeInv, ReplyInv, CallInv, outcome = "ok", NEW i \in Batch,
         NEW r \in GetRedisReply(i)
  PROVE  \E k \in DOMAIN sub : \E q \in 1..Len(reqs[k]) :
           /\ sub[k] = "ok" /\ reqs[k][q] = i
           /\ r = resps[k].resp[q] /\ r.pos = i
<1> DEFINE m   == IF DOMAIN replyMap = {} THEN <<1, i>> ELSE replyMap[i]
           idx == m[2] + resps[m[1]].offset
<1>1. /\ DOMAIN sub = 1..Len(order)
      /\ \A k \in DOMAIN sub : sub[k] = "ok"
  BY DEF ReplyInv, Succeeded
<1>2. r.pos = i
  BY RepliesRead
<1>3. Batch \subseteq Nat \ {0} /\ Len(order) \in Nat
  BY DEF Batch, TypeInv, TypeOK
<1>4. m[1] \in 1..Len(order) /\ m[2] \in Batch
  <2>1. CASE DOMAIN replyMap = {}
    <3>1. PICK k \in 1..Len(order) : TRUE
      BY <1>1, OwnSubCall
    <3>2. 1 \in 1..Len(order)
      BY <1>3, <3>1
    <3> QED  BY <2>1, <3>2
  <2>2. CASE DOMAIN replyMap # {}
    <3>1. i \in DOMAIN replyMap
      BY <2>2 DEF GetRedisReply
    <3>2. replyMap[i] \in (1..Len(order)) \X Batch
      BY <3>1 DEF TypeInv, TypeOK
    <3> QED  BY <2>2, <3>2
  <2> QED  BY <2>1, <2>2
<1>5. r = resps[m[1]].resp[idx] /\ ~(idx > Len(resps[m[1]].resp))
  BY DEF GetRedisReply
<1> HIDE DEF m
<1>6. resps[m[1]].offset \in {0, 1}
  <2> DEFINE R == [resp : Seq([pos : 0..Len(commands), served : BOOLEAN]),
                   offset : {0, 1}]
  <2>1. resps \in Seq(R) /\ Len(resps) = Len(order)
    BY DEF TypeInv, TypeOK
  <2>2. resps[m[1]] \in R
    <3> HIDE DEF R
    <3> QED  BY <1>4, <2>1
  <2> QED  BY <2>2
<1>7. /\ Len(resps[m[1]].resp) = Len(reqs[m[1]])
      /\ \A q \in 1..Len(reqs[m[1]]) : resps[m[1]].resp[q].pos = reqs[m[1]][q]
  BY <1>1, <1>4 DEF ReplyInv, Answered
<1>8. Len(reqs[m[1]]) \in Nat
  BY <1>1, <1>4, Issued
<1>9. idx \in 1..Len(reqs[m[1]])
  <2>1. m[2] \in Nat \ {0}
    BY <1>3, <1>4
  <2>2. ~(idx > Len(reqs[m[1]]))
    BY <1>5, <1>7
  <2> QED  BY <1>6, <1>8, <2>1, <2>2
<1> HIDE DEF idx
<1> QED  BY <1>1, <1>2, <1>4, <1>5, <1>7, <1>9

(* A command its server does not answer is a read at a replica whose group *)
(* was sent without READONLY, and only a System command in front of it     *)
(* does that: no address is a master and a replica.                        *)
LEMMA Redirected ==
  ASSUME TypeInv, ReplyInv, CallInv, outcome = "ok", NEW i \in Batch,
         NEW r \in GetRedisReply(i), ~r.served
  PROVE  /\ IsType(i, "Read")
         /\ \E s \in Groups : i \in Range(mapping[s])
                              /\ IsType(mapping[s][1], "System")
<1>1. PICK k \in DOMAIN sub : \E q \in 1..Len(reqs[k]) :
           /\ sub[k] = "ok" /\ reqs[k][q] = i
           /\ r = resps[k].resp[q] /\ r.pos = i
  BY ReplyOfSubCall
<1>2. PICK q \in 1..Len(reqs[k]) :
           sub[k] = "ok" /\ reqs[k][q] = i /\ r = resps[k].resp[q]
  BY <1>1
<1> DEFINE s == order[k]
<1>3. /\ s \in Target /\ Carries(k) /\ Len(reqs[k]) \in Nat
  BY Issued
<1>4. PICK sticky \in BOOLEAN : resps[k].resp = Answers(s, reqs[k], sticky)
  BY <1>2 DEF CallInv, Served
<1>5. ~Serves(s, i, sticky \/ ReadonlyBefore(reqs[k], q))
  <2>1. r.served = (reqs[k][q] = 0
                    \/ Serves(s, reqs[k][q], sticky \/ ReadonlyBefore(reqs[k], q)))
    BY <1>2, <1>4 DEF Answers
  <2> QED  BY <1>2, <2>1
<1>6. i # 0 /\ \A j \in Batch : commands[j] \in Command
  <2>1. commands \in Seq(Command)
    BY DEF TypeInv, TypeOK
  <2> QED  BY <2>1 DEF Batch
<1> HIDE DEF s
<1>7. InGroup(i, s)
  BY <1>2, <1>3, <1>6 DEF Carries, s
<1>8. s \in GetServer(commands[i])
  BY <1>3, <1>7 DEF ReplyInv, Grouping, InGroup
<1> DEFINE slot == SlotOf[commands[i]]
<1>9. /\ ~IsType(i, "System") /\ s # FindWrite(Map, slot)
      /\ IsType(i, "Read") /\ s \in SlavesOf(Map, slot)
           => ~ReadonlyBefore(reqs[k], q)
  BY <1>5 DEF Serves
<1>10. ~UseMaster /\ IsType(i, "Read") /\ s \in FindRead(Map, slot, 0)
  <2>1. TypeOf[commands[i]] \in {"Read", "Write", "System"}
    BY <1>6, CommandAssumption
  <2> QED  BY <1>8, <1>9, <2>1 DEF GetServer, IsType
<1>11. Find(Map, slot) # {} /\ s \in SlavesOf(Map, slot)
  <2>1. Find(Map, slot) # {}
    BY <1>9, <1>10 DEF FindRead, FindWrite
  <2> DEFINE sl == CHOOSE x \in Find(Map, slot) : TRUE
  <2>2. sl \in Find(Map, slot) /\ FindWrite(Map, slot) = sl.master
    BY <2>1 DEF FindWrite
  <2>3. s \in {sl.master} \/ s \in Range(sl.slaves)
    BY <1>10, <2>1 DEF FindRead
  <2> QED  BY <1>9, <2>1, <2>2, <2>3 DEF SlavesOf
<1>12. PICK c \in DOMAIN Map : s \in Range(Map[c].slaves)
  BY <1>11 DEF SlavesOf, Find
<1>13. mapping[s] # <<>> /\ mapping[s] \in Seq(Batch) /\ 1 \in DOMAIN mapping[s]
  <2>1. mapping[s] \in Seq(Batch)
    BY <1>3 DEF TypeInv, TypeOK, s
  <2>2. PICK p \in DOMAIN mapping[s] : mapping[s][p] = i
    BY <1>7 DEF InGroup
  <2> QED  BY <2>1, <2>2
<1>14. s # NoServer
  BY <1>13 DEF ReplyInv, Succeeded, Sendable
<1> DEFINE w == mapping[s][1]
<1>15. w \in Batch /\ InGroup(w, s)
  BY <1>13 DEF InGroup
<1> HIDE DEF w
<1>16. ~IsType(w, "Read")
  <2> SUFFICES ASSUME IsType(w, "Read") PROVE FALSE
    OBVIOUS
  <2>1. reqs[k][1] = 0
    BY <1>3, <1>10 DEF Carries, s, w
  <2>2. 1 \in 1..(q - 1)
    BY <1>2, <1>3, <1>6, <2>1
  <2> QED  BY <1>9, <1>10, <1>11, <2>1, <2>2 DEF ReadonlyBefore
<1>17. ~IsType(w, "Write")
  <2> SUFFICES ASSUME IsType(w, "Write") PROVE FALSE
    OBVIOUS
  <2>1. s = FindWrite(Map, SlotOf[commands[w]])
    BY <1>3, <1>15, WritesAtMaster DEF s
  <2>2. PICK b \in DOMAIN Map : s = Map[b].master
    <3>1. Find(Map, SlotOf[commands[w]]) # {}
      BY <1>14, <2>1 DEF FindWrite
    <3> QED  BY <2>1, <3>1 DEF FindWrite, Find
  <2> QED  BY <1>12, <2>2, RolesAssumption
<1>18. IsType(w, "System")
  <2>1. TypeOf[commands[w]] \in {"Read", "Write", "System"}
    BY <1>6, <1>15, CommandAssumption
  <2> QED  BY <1>16, <1>17, <2>1 DEF IsType
<1>19. s \in Groups /\ i \in Range(mapping[s])
  BY <1>3, <1>7, <1>13 DEF Groups, InGroup, Range, s
<1> QED  BY <1>10, <1>18, <1>19 DEF w

-------------------------------------------------------------------------------
(* The second invariant holds throughout.                                  *)
THEOREM CallInvariance == Spec => [](TypeInv /\ ReplyInv /\ CallInv)
<1>1. Init => TypeInv /\ ReplyInv /\ CallInv
  BY TypeInit, ReplyInit, CallInit
<1>2. (TypeInv /\ ReplyInv /\ CallInv) /\ [Next]_vars
        => (TypeInv /\ ReplyInv /\ CallInv)'
  BY TypeNext, ReplyNext, CallNext
<1> QED  BY <1>1, <1>2, PTL DEF Spec

(* The last write of a batch to a slot is the last one its master applied, *)
(* whatever order the servers answer in and however often brpc sends a     *)
(* pipeline again; an older one stays only behind a sub-call that was sent *)
(* again (RedisCluster::Execute, BuildRequestResponse).                    *)
THEOREM WritesLast == Spec => []LastWriteWins
<1>1. ASSUME TypeInv, ReplyInv, CallInv PROVE LastWriteWins
  <2> SUFFICES ASSUME outcome = "ok", NEW i \in Batch, IsType(i, "Write"),
                      \A j \in (i + 1)..Len(commands) :
                        ~(/\ IsType(j, "Write")
                          /\ SlotOf[commands[j]] = SlotOf[commands[i]])
               PROVE  \/ store[SlotOf[commands[i]]] = i
                      \/ /\ store[SlotOf[commands[i]]] \in 1..(i - 1)
                         /\ \E k \in DOMAIN sub :
                              /\ tries[k] < MaxTries
                              /\ i \in Range(mapping[order[k]])
    BY DEF LastWriteWins
  <2> DEFINE slot == SlotOf[commands[i]]
  <2>1. slot \in Used
    BY <1>1, SlotsOfCommands DEF Batch, TypeInv, TypeOK
  <2>2. LastWrite(i, slot)
    BY DEF LastWrite, IsWrite
  <2>3. PICK k \in DOMAIN sub : sub[k] = "ok" /\ InGroup(i, order[k])
    BY <1>1, OwnSubCall
  <2>4. store[slot] = i \/ (store[slot] # 0 /\ tries[k] < MaxTries)
    BY <1>1, <2>1, <2>2, <2>3 DEF CallInv, Stored
  <2>5. store[slot] # 0 => IsWrite(store[slot], slot)
    BY <1>1, <2>1 DEF CallInv, Stored
  <2>6. store[slot] \in 0..Len(commands) /\ Len(commands) \in Nat /\ i \in Nat
    <3>1. store \in [Used -> 0..Len(commands)] /\ commands \in Seq(Command)
      BY <1>1 DEF TypeInv, TypeOK
    <3> HIDE DEF slot
    <3> QED  BY <2>1, <3>1 DEF Batch
  <2>7. i \in Range(mapping[order[k]])
    BY <2>3 DEF InGroup, Range
  <2> HIDE DEF slot
  <2>8. ASSUME store[slot] # i, store[slot] # 0 PROVE store[slot] \in 1..(i - 1)
    <3>1. store[slot] \notin (i + 1)..Len(commands)
      BY <2>2, <2>5, <2>8 DEF LastWrite
    <3> QED  BY <2>6, <2>8, <3>1
  <2> QED  BY <2>3, <2>4, <2>7, <2>8 DEF slot
<1> QED  BY <1>1, CallInvariance, PTL

(* In a successful call only a read whose group begins with a System       *)
(* command can be answered with a redirection: BuildRequestResponse asks   *)
(* the first command of a group whether to put READONLY in front.          *)
THEOREM RedirectedReads == Spec => []OnlyReadsBehindSystemRedirected
<1>1. ASSUME TypeInv, ReplyInv, CallInv PROVE OnlyReadsBehindSystemRedirected
  BY <1>1, Redirected DEF OnlyReadsBehindSystemRedirected
<1> QED  BY <1>1, CallInvariance, PTL

(* What the caller is given, told from how the call ended.                 *)
Given(ended, cmds) ==
  CASE ended = "none" -> <<>>
    [] ended = "ok"   -> <<"reply", [i \in 1..Len(cmds) |-> i]>>
    [] OTHER          -> <<"throw">>

LEMMA ResultIsGiven ==
  ASSUME TypeInv, ReplyInv
  PROVE  Result = Given(outcome, commands)
<1>1. CASE outcome = "none"
  BY <1>1 DEF Result, Given
<1>2. CASE outcome = "ok"
  <2>1. \A i \in Batch : \E r : GetRedisReply(i) = {r} /\ r.pos = i
    <3> TAKE i \in Batch
    <3>1. { r.pos : r \in GetRedisReply(i) } = {i}
      BY <1>2, RepliesRead
    <3>2. \E r : GetRedisReply(i) = {} \/ GetRedisReply(i) = {r}
      BY DEF GetRedisReply
    <3> QED  BY <3>1, <3>2
  <2>2. \A i \in Batch : (CHOOSE r \in GetRedisReply(i) : TRUE).pos = i
    <3> TAKE i \in Batch
    <3>1. PICK r : GetRedisReply(i) = {r} /\ r.pos = i
      BY <2>1
    <3>2. (CHOOSE x \in {r} : TRUE) = r
      OBVIOUS
    <3> QED  BY <3>1, <3>2
  <2>3. [i \in Batch |-> (CHOOSE r \in GetRedisReply(i) : TRUE).pos]
          = [i \in 1..Len(commands) |-> i]
    BY <2>2 DEF Batch
  <2> QED  BY <1>2, <2>3 DEF Result, Given
<1>3. CASE outcome \notin {"none", "ok"}
  BY <1>3 DEF Result, Given
<1> QED  BY <1>1, <1>2, <1>3

LEMMA ResultIsGivenNext ==
  (TypeInv /\ ReplyInv)' => (Result = Given(outcome, commands))'
<1>1. TypeInv /\ ReplyInv => Result = Given(outcome, commands)
  BY ResultIsGiven
<1> QED  BY <1>1, PTL

(* The refinement: the first state, then every step.                       *)
LEMMA PromiseInit == Init => Promise!Init
BY DEF Init, NoCall, Promise!Init, Phase, Result

(* Every step is the same operation of BatchCall, or none of them.         *)
LEMMA PromiseNext ==
  ASSUME TypeInv, ReplyInv, (TypeInv /\ ReplyInv)', [Next]_vars
  PROVE  [Promise!Next]_(Promise!vars)
<1> SUFFICES Promise!Next \/ UNCHANGED Promise!vars
  OBVIOUS
<1>0. /\ Result = Given(outcome, commands)
      /\ Result' = Given(outcome', commands')
      /\ pc \in {"idle", "route", "single", "build", "channels", "send", "wait"}
           => outcome = "none"
  <2>1. Result' = Given(outcome', commands')
    BY ResultIsGivenNext DEF Given
  <2> QED  BY <2>1, ResultIsGiven DEF TypeInv, PhaseInv
<1>a. ASSUME UNCHANGED <<pending, commands, outcome>>,
             \/ pc' = pc
             \/ /\ pc  \in {"route", "single", "build", "channels", "send", "wait"}
                /\ pc' \in {"route", "single", "build", "channels", "send", "wait"}
      PROVE  UNCHANGED Promise!vars
  <2>1. Phase' = Phase
    BY <1>a DEF Phase
  <2> QED  BY <1>0, <1>a, <2>1 DEF Promise!vars
<1>b. ASSUME UNCHANGED <<pending, commands>>, pc' = "returned",
             outcome' \notin {"none", "ok"},
             \/ pc \in {"route", "single", "build", "channels", "send", "wait"}
             \/ pc = "idle" /\ pending = <<>>
      PROVE  Promise!Throw
  <2>1. Result' = <<"throw">>
    BY <1>0, <1>b DEF Given
  <2>2. Phase' = "returned"
    <3>1. pc' # "idle" /\ pc' = "returned"
      BY <1>b
    <3> QED  BY <3>1 DEF Phase
  <2>3. Phase = "busy" \/ (Phase = "idle" /\ pending = <<>>)
    BY <1>b DEF Phase
  <2> QED  BY <1>b, <2>1, <2>2, <2>3 DEF Promise!Throw
<1>u. CASE UNCHANGED vars
  BY <1>a, <1>u DEF vars, callVars
<1>1. ASSUME NEW cmd \in Command, Add(cmd) PROVE Promise!Add(cmd)
  <2>1. UNCHANGED <<pc, commands, outcome>>
    BY <1>1 DEF Add, callVars
  <2>2. Phase = "idle" /\ UNCHANGED <<Phase, Result>>
    BY <1>0, <1>1, <2>1 DEF Add, Phase
  <2> QED  BY <1>1, <2>1, <2>2 DEF Add, Promise!Add
<1>2. CASE Reset
  <2>1. UNCHANGED <<pc, commands, outcome>>
    BY <1>2 DEF Reset, callVars
  <2>2. Phase = "idle" /\ UNCHANGED <<Phase, Result>>
    BY <1>0, <1>2, <2>1 DEF Reset, Phase
  <2>3. Promise!Reset
    BY <1>2, <2>1, <2>2 DEF Reset, Promise!Reset
  <2> QED  BY <2>3 DEF Promise!Next
<1>3. CASE Execute
  <2>1. CASE pending = <<>>
    <3>1. Promise!Throw
      BY <1>3, <1>b, <2>1 DEF Execute
    <3> QED  BY <3>1 DEF Promise!Next
  <2>2. CASE pending # <<>>
    <3>1. /\ pc = "idle" /\ pc' = "route" /\ outcome = "none" /\ outcome' = "none"
          /\ commands' = pending /\ pending' = pending
      BY <1>0, <1>3, <2>2 DEF Execute
    <3>2. Phase = "idle" /\ Phase' = "busy" /\ Result' = Result
      BY <1>0, <3>1 DEF Phase, Given
    <3>3. Promise!Execute
      BY <2>2, <3>1, <3>2 DEF Promise!Execute
    <3> QED  BY <3>3 DEF Promise!Next
  <2> QED  BY <2>1, <2>2
<1>4. ASSUME NEW cmd \in Command, ExecuteOne(cmd) PROVE Promise!ExecuteOne(cmd)
  <2>1. /\ pc = "idle" /\ pc' = "route" /\ outcome = "none" /\ outcome' = "none"
        /\ commands' = <<cmd>> /\ pending' = pending
    BY <1>0, <1>4 DEF ExecuteOne
  <2>2. Phase = "idle" /\ Phase' = "busy" /\ Result' = Result
    BY <1>0, <2>1 DEF Phase, Given
  <2> QED  BY <2>1, <2>2 DEF Promise!ExecuteOne
<1>5. CASE Take
  <2>1. Phase = "returned" /\ Phase' = "idle" /\ Result' = <<>>
    BY <1>0, <1>5 DEF Take, Phase, Given
  <2>2. Promise!Take
    BY <1>5, <2>1 DEF Take, Promise!Take
  <2> QED  BY <2>2 DEF Promise!Next
<1>6. CASE RouteCommand \/ Routed \/ StartPChan \/ ReleaseMapper \/ CallMethod
  BY <1>6, <1>a
  DEF RouteCommand, Routed, StartPChan, ReleaseMapper, CallMethod, callVars
<1>7. ASSUME NEW s \in Target, SingleChannel(s) \/ BuildRequestResponse(s)
      PROVE  Promise!Throw \/ UNCHANGED Promise!vars
  <2>1. CASE SingleChannel(s) /\ Refuse
    BY <1>b, <2>1 DEF SingleChannel, Refuse
  <2>2. CASE SingleChannel(s) /\ ~Refuse
    BY <1>a, <2>2 DEF SingleChannel
  <2>3. CASE BuildRequestResponse(s)
    BY <1>a, <2>3 DEF BuildRequestResponse
  <2> QED  BY <1>7, <2>1, <2>2, <2>3
<1>8. CASE AddChannel
  <2>1. CASE Refuse
    <3>1. Promise!Throw
      BY <1>8, <1>b, <2>1 DEF AddChannel, Refuse
    <3> QED  BY <3>1 DEF Promise!Next
  <2>2. CASE ~Refuse
    BY <1>8, <1>a, <2>2 DEF AddChannel
  <2> QED  BY <2>1, <2>2
<1>9. CASE Finish
  <2>1. /\ pc = "wait" /\ pc' = "returned" /\ UNCHANGED <<pending, commands>>
        /\ outcome' \in {"runtime_error", "ok"}
    BY <1>9 DEF Finish, callVars
  <2>2. CASE outcome' = "ok"
    <3>1. Result' = <<"reply", [i \in 1..Len(commands) |-> i]>>
      BY <1>0, <2>1, <2>2 DEF Given
    <3>2. Phase = "busy" /\ Phase' = "returned"
      BY <2>1 DEF Phase
    <3>3. Promise!Reply
      BY <2>1, <3>1, <3>2 DEF Promise!Reply
    <3> QED  BY <3>3 DEF Promise!Next
  <2>3. CASE outcome' = "runtime_error"
    <3>1. Promise!Throw
      BY <1>b, <2>1, <2>3
    <3> QED  BY <3>1 DEF Promise!Next
  <2> QED  BY <2>1, <2>2, <2>3
<1>10. ASSUME NEW k \in DOMAIN sub,
              SubCallAnswers(k) \/ SubCallBreaks(k) \/ SubCallCancelled(k)
       PROVE  UNCHANGED Promise!vars
  BY <1>10, <1>a DEF SubCallAnswers, SubCallBreaks, SubCallCancelled, callVars
<1>11. ASSUME NEW l \in late, LatePrefixRuns(l) PROVE UNCHANGED Promise!vars
  BY <1>11, <1>a DEF LatePrefixRuns, callVars
<1> QED
  BY <1>u, <1>1, <1>2, <1>3, <1>4, <1>5, <1>6, <1>7, <1>8, <1>9, <1>10, <1>11
  DEF Next, Call, Promise!Next

(* RedisCluster implements BatchCall: each of its steps is one operation   *)
(* of BatchCall as the caller sees it, or none.                            *)
THEOREM Implements == Spec => ImplementsBatchCall
<1>1. TypeInv /\ ReplyInv /\ (TypeInv /\ ReplyInv)' /\ [Next]_vars
        => [Promise!Next]_(Promise!vars)
  BY PromiseNext
<1> QED  BY <1>1, PromiseInit, Invariance, PTL
         DEF Spec, ImplementsBatchCall, Promise!Spec
===============================================================================
