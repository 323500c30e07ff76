----------------------------- MODULE RedisCluster -----------------------------
(***************************************************************************)
(* One redis::RedisCluster object: commands are added to a batch, the      *)
(* batch is split by server, sent over one channel per server, and the     *)
(* replies are put back in the order of the batch                          *)
(* (src/redis_cluster.cpp, src/redis.cpp, src/reply.cpp).                  *)
(*                                                                         *)
(* The loops of the code are steps here: one step routes one command, one  *)
(* builds the request of one server, one obtains the channel of one        *)
(* server.  brpc and the Redis servers are external: a connection may      *)
(* break after any prefix of a pipeline reached its server, which runs     *)
(* that prefix at once or later; a sub-call is sent again a bounded number *)
(* of times, may time out, or returns one reply per command sent.          *)
(*                                                                         *)
(* Positions count from 1 where the code counts from 0.                    *)
(***************************************************************************)
EXTENDS SlotRanges, FiniteSets

CONSTANTS
  Command,     \* the Command objects a program may add
  TypeOf,      \* Command::Type of each: "Read", "Write" or "System"
  SlotOf,      \* SlotMap::GetSlot(cmd.Key()) of each
  Map,         \* the slot map the cluster was built with
  UseMaster,   \* RedisCluster::_use_master, which nothing sets to true yet
  MaxBatch,    \* bound on the number of commands in a batch
  MaxTries     \* how often brpc sends one sub-call at most

ASSUME CommandAssumption ==
  /\ TypeOf \in [Command -> {"Read", "Write", "System"}]
  /\ SlotOf \in [Command -> Int]
ASSUME MapAssumption == IsSlotMap(Map)
ASSUME BoundAssumption ==
  /\ UseMaster \in BOOLEAN
  /\ MaxBatch \in Nat
  /\ MaxTries \in Nat \ {0}

(* A server reports itself to CLUSTER SLOTS either as a master or as a     *)
(* replica, so no address of one snapshot is both.                         *)
ASSUME RolesAssumption ==
  \A b, c \in DOMAIN Map : Map[b].master \notin Range(Map[c].slaves)

VARIABLES
  pc,        \* where the call is
  pending,   \* RedisCluster::_commands
  commands,  \* the commands of the call: _commands, or the only one
  next,      \* BuildMapper: the command to route next
  mapping,   \* the Mapper: per address, the positions of its commands
  order,     \* addresses in the order the Mapper is iterated
  reqs,      \* the request of each sub-call, as positions (0 is READONLY)
  resps,     \* Reply::_resps
  replyMap,  \* Reply::_mapping
  added,     \* BuildPChan: channels added to the ParallelChannel so far
  owners,    \* who will delete the CallMapper: "unique_ptr", "pchan"
  sub,       \* brpc: state of each sub-call
  tries,     \* brpc: sends left for each sub-call
  late,      \* servers: prefixes received and not run, <<sub-call, length>>
  store,     \* per slot, the last write of this batch the cluster applied
  outcome    \* how the call ended

callVars == <<commands, next, mapping, order, reqs, resps, replyMap, added,
              owners>>
netVars  == <<sub, tries, late, store>>
vars     == <<pc, pending, callVars, netVars, outcome>>

Target   == Server \cup {NoServer}
Batch    == 1..Len(commands)
Used     == Range(SlotOf)            \* the slots of some command
Groups   == {s \in Target : mapping[s] # <<>>}
IsType(i, t) == TypeOf[commands[i]] = t

-------------------------------------------------------------------------------
(* GetServer: writes (and everything under _use_master) go to the master   *)
(* of the slot, the rest to a server FindRead draws.                       *)
GetServer(cmd) ==
  IF UseMaster \/ TypeOf[cmd] = "Write" THEN {FindWrite(Map, SlotOf[cmd])}
  ELSE FindRead(Map, SlotOf[cmd], 0)

(* Mutant: the newest command is put first. *)
PushFront(indexes, i) == <<i>> \o indexes

(* BuildMapper: mapping[svr].push_back(i). *)
PushBack(indexes, i) == Append(indexes, i)

(* Mutant: the first command of the batch decides for every group. *)
OffsetForBatch(indexes) ==
  IF ~UseMaster /\ IsType(1, "Read") THEN 1 ELSE 0

(* The number of requests put in front of a group: READONLY when the first *)
(* command of the group reads.                                             *)
OffsetFor(indexes) ==
  IF ~UseMaster /\ IsType(indexes[1], "Read") THEN 1 ELSE 0

(* The pipeline sent to one server: READONLY (0) if any, then the group. *)
RequestFor(indexes) ==
  [q \in 1..(OffsetFor(indexes) + Len(indexes)) |->
     IF q <= OffsetFor(indexes) THEN 0 ELSE indexes[q - OffsetFor(indexes)]]

(* BuildExecutor: what the Redis executor of the only server is given.     *)
WholeBatch == [i \in Batch |-> i]
BuildExecutor ==
  [offset |-> OffsetFor(WholeBatch), req |-> RequestFor(WholeBatch)]

(* Mutants: positions in a group counted from one less; the position in    *)
(* the batch in place of the position in the group.                        *)
AddToMappingOffByOne(indexes, r) ==
  [i \in DOMAIN replyMap \cup Range(indexes) |->
     IF i \in Range(indexes)
     THEN <<r, (CHOOSE q \in DOMAIN indexes : indexes[q] = i) - 1>>
     ELSE replyMap[i]]
AddToMappingOfBatch(indexes, r) ==
  [i \in DOMAIN replyMap \cup Range(indexes) |->
     IF i \in Range(indexes) THEN <<r, i>> ELSE replyMap[i]]

(* Reply::AddResponse(indexes, offset): where each command of the group    *)
(* finds its reply.  The gaps that _mapping.resize() leaves for commands   *)
(* of groups still to come are not represented.                            *)
AddToMapping(indexes, r) ==
  [i \in DOMAIN replyMap \cup Range(indexes) |->
     IF i \in Range(indexes)
     THEN <<r, CHOOSE q \in DOMAIN indexes : indexes[q] = i>>
     ELSE replyMap[i]]

NewResponse(offset) == [resp |-> <<>>, offset |-> offset]

(* Mutant: the offset of the group is forgotten. *)
GetRedisReplyNoOffset(i) ==
  LET m    == IF DOMAIN replyMap = {} THEN <<1, i>> ELSE replyMap[i]
      data == resps[m[1]]
  IN  IF DOMAIN replyMap # {} /\ i \notin DOMAIN replyMap THEN {}
      ELSE IF m[2] > Len(data.resp) THEN {}
      ELSE {data.resp[m[2]]}

(* Reply::GetRedisReply(i): the reply of the i-th command, or nothing when *)
(* it throws.                                                              *)
GetRedisReply(i) ==
  LET m    == IF DOMAIN replyMap = {} THEN <<1, i>> ELSE replyMap[i]
      data == resps[m[1]]
      idx  == m[2] + data.offset
  IN  IF DOMAIN replyMap # {} /\ i \notin DOMAIN replyMap THEN {}
      ELSE IF idx > Len(data.resp) THEN {}
      ELSE {data.resp[idx]}

(* The exception of Reply::GetRedisReply(i): both _mapping.at(i) and the   *)
(* check of reply_size() throw out_of_range.                               *)
ThrownByReply(i) == IF GetRedisReply(i) = {} THEN "out_of_range" ELSE "none"

(* opts.fail_limit: the call fails as soon as this many sub-calls fail. *)
FailLimit == 1

-------------------------------------------------------------------------------
(* External: a Redis server runs a pipeline.  A slot is served by its      *)
(* master, and for reads by a replica once the connection is READONLY; any *)
(* other command gets a MOVED error and has no effect.                     *)
Serves(s, i, readonly) ==
  \/ IsType(i, "System")
  \/ s = FindWrite(Map, SlotOf[commands[i]])
  \/ IsType(i, "Read") /\ readonly
     /\ s \in SlavesOf(Map, SlotOf[commands[i]])

ReadonlyBefore(req, q) == \E p \in 1..(q - 1) : req[p] = 0

(* The replies of server s to req on a connection that may already be      *)
(* READONLY from an earlier request (sticky).                              *)
Answers(s, req, sticky) ==
  [q \in 1..Len(req) |->
     [pos    |-> req[q],
      served |-> req[q] = 0
                 \/ Serves(s, req[q], sticky \/ ReadonlyBefore(req, q))]]

(* The position in req of the last write to slot that server s applies of  *)
(* the first n commands of req (a set of at most one element).             *)
LastApplied(s, req, n, slot) ==
  LET Writes(q) == /\ req[q] # 0
                   /\ IsType(req[q], "Write")
                   /\ SlotOf[commands[req[q]]] = slot
                   /\ Serves(s, req[q], FALSE)
  IN  { q \in 1..n : Writes(q) /\ \A p \in (q + 1)..n : ~Writes(p) }

(* The store after the first n commands of req ran on server s. *)
Applied(s, req, n) ==
  [slot \in Used |->
     IF LastApplied(s, req, n, slot) = {} THEN store[slot]
     ELSE req[CHOOSE q \in LastApplied(s, req, n, slot) : TRUE]]

-------------------------------------------------------------------------------
NoCall ==
  /\ commands = <<>>
  /\ next = 1
  /\ mapping = [s \in Target |-> <<>>]
  /\ order = <<>> /\ reqs = <<>> /\ resps = <<>>
  /\ replyMap = <<>>
  /\ added = 0 /\ owners = {}
  /\ sub = <<>> /\ tries = <<>> /\ late = {}
  /\ store = [slot \in Used |-> 0]
  /\ outcome = "none"

Init ==
  /\ pc = "idle"
  /\ pending = <<>>
  /\ NoCall

(* RedisCluster::Add *)
Add(cmd) ==
  /\ pc = "idle"
  /\ Len(pending) < MaxBatch
  /\ pending' = Append(pending, cmd)
  /\ UNCHANGED <<pc, callVars, netVars, outcome>>

(* RedisCluster::Reset *)
Reset ==
  /\ pc = "idle"
  /\ pending' = <<>>
  /\ UNCHANGED <<pc, callVars, netVars, outcome>>

(* The part of a call that no step before BuildMapper changes. *)
unrouted == <<next, mapping, order, reqs, resps, replyMap, added, owners>>

(* RedisCluster::Execute() up to the call of BuildMapper; an empty batch   *)
(* is refused.                                                             *)
Execute ==
  /\ pc = "idle"
  /\ \/ /\ pending = <<>>
        /\ pc' = "returned" /\ outcome' = "invalid_argument"
        /\ commands' = commands
     \/ /\ pending # <<>>
        /\ pc' = "route" /\ outcome' = outcome
        /\ commands' = pending
  /\ UNCHANGED <<pending, unrouted, netVars>>

(* RedisCluster::Execute(cmd): one command, past the batch.                *)
ExecuteOne(cmd) ==
  /\ pc = "idle"
  /\ pc' = "route"
  /\ commands' = <<cmd>>
  /\ UNCHANGED <<pending, unrouted, netVars, outcome>>

(* BuildMapper: one iteration of its loop. *)
RouteCommand ==
  /\ pc = "route" /\ next <= Len(commands)
  /\ \E s \in GetServer(commands[next]) :
       mapping' = [mapping EXCEPT ![s] = PushBack(@, next)]
  /\ next' = next + 1
  /\ UNCHANGED <<pc, pending, commands, order, reqs, resps, replyMap, added,
                 owners, netVars, outcome>>

(* Execute: the choice between one server and a ParallelChannel. *)
Routed ==
  /\ pc = "route" /\ next > Len(commands)
  /\ pc' = IF \E s \in Target : Groups = {s} THEN "single" ELSE "build"
  /\ UNCHANGED <<pending, callVars, netVars, outcome>>

(* Mutant: the channel is not checked. *)
AnyConnects(s) == TRUE

(* RedisChannelCache::GetChannel never has a channel for the default       *)
(* address; for another one it may fail to create it.                      *)
CanConnect(s) == s # NoServer

Refuse ==
  /\ pc' = "returned" /\ outcome' = "runtime_error"

(* One server: construct a Redis executor, BuildExecutor, Redis::Execute. *)
SingleChannel(s) ==
  /\ pc = "single" /\ Groups = {s}
  /\ \/ /\ Refuse
        /\ UNCHANGED <<order, reqs, resps>>
     \/ /\ CanConnect(s)
        /\ order' = <<s>>
        /\ reqs' = <<BuildExecutor.req>>
        /\ resps' = <<NewResponse(BuildExecutor.offset)>>
        /\ pc' = "send" /\ outcome' = outcome
  /\ UNCHANGED <<pending, commands, next, mapping, replyMap, added, owners,
                 netVars>>

(* BuildRequestResponse: one iteration of its loop over the Mapper. *)
BuildRequestResponse(s) ==
  /\ pc = "build" /\ s \in Groups \ Range(order)
  /\ order' = Append(order, s)
  /\ reqs' = Append(reqs, RequestFor(mapping[s]))
  /\ resps' = Append(resps, NewResponse(OffsetFor(mapping[s])))
  /\ replyMap' = AddToMapping(mapping[s], Len(resps) + 1)
  /\ UNCHANGED <<pc, pending, commands, next, mapping, added, owners, netVars,
                 outcome>>

(* BuildPChan starts: a unique_ptr owns the CallMapper. *)
StartPChan ==
  /\ pc = "build" /\ Groups = Range(order)
  /\ pc' = "channels"
  /\ owners' = {"unique_ptr"}
  /\ UNCHANGED <<pending, commands, next, mapping, order, reqs, resps,
                 replyMap, added, netVars, outcome>>

(* BuildPChan: one iteration of its loop.  A refused channel throws while  *)
(* the unique_ptr is still armed; an added one makes the ParallelChannel   *)
(* an owner of the CallMapper too.                                         *)
AddChannel ==
  /\ pc = "channels" /\ added < Len(order)
  /\ \/ /\ Refuse
        /\ UNCHANGED <<added, owners>>
     \/ /\ CanConnect(order[added + 1])
        /\ added' = added + 1
        /\ owners' = owners \cup {"pchan"}
        /\ UNCHANGED <<pc, outcome>>
  /\ UNCHANGED <<pending, commands, next, mapping, order, reqs, resps,
                 replyMap, netVars>>

(* Mutant: call_mapper.release() is forgotten. *)
KeepMapper ==
  /\ pc = "channels" /\ added = Len(order)
  /\ pc' = "send"
  /\ UNCHANGED <<pending, callVars, netVars, outcome>>

(* BuildPChan ends: call_mapper.release(). *)
ReleaseMapper ==
  /\ pc = "channels" /\ added = Len(order)
  /\ owners' = owners \ {"unique_ptr"}
  /\ pc' = "send"
  /\ UNCHANGED <<pending, commands, next, mapping, order, reqs, resps,
                 replyMap, added, netVars, outcome>>

(* CallMethod: every sub-call is issued. *)
CallMethod ==
  /\ pc = "send"
  /\ pc' = "wait"
  /\ sub' = [k \in DOMAIN order |-> "sent"]
  /\ tries' = [k \in DOMAIN order |-> MaxTries]
  /\ UNCHANGED <<pending, callVars, late, store, outcome>>

(* External: the server ran the whole pipeline and its replies arrive. *)
SubCallAnswers(k) ==
  /\ pc = "wait" /\ sub[k] = "sent"
  /\ \E sticky \in BOOLEAN :
       resps' = [resps EXCEPT ![k].resp = Answers(order[k], reqs[k], sticky)]
  /\ store' = Applied(order[k], reqs[k], Len(reqs[k]))
  /\ sub' = [sub EXCEPT ![k] = "ok"]
  /\ UNCHANGED <<pc, pending, commands, next, mapping, order, reqs, replyMap,
                 added, owners, tries, late, outcome>>

(* Mutant: retries are not counted. *)
SubCallBreaksForever(k) ==
  /\ pc = "wait" /\ sub[k] = "sent"
  /\ \E n \in 0..Len(reqs[k]) :
       \/ store' = Applied(order[k], reqs[k], n) /\ late' = late
       \/ store' = store /\ late' = late \cup {<<k, n>>}
  /\ UNCHANGED <<pc, pending, callVars, sub, tries, outcome>>

(* External: the connection breaks after a prefix of the pipeline arrived; *)
(* the whole request is sent again while tries are left.                   *)
SubCallBreaks(k) ==
  /\ pc = "wait" /\ sub[k] = "sent"
  /\ \E n \in 0..Len(reqs[k]) :
       \/ store' = Applied(order[k], reqs[k], n) /\ late' = late
       \/ store' = store /\ late' = late \cup {<<k, n>>}
  /\ tries' = [tries EXCEPT ![k] = @ - 1]
  /\ sub' = [sub EXCEPT ![k] = IF tries[k] = 1 THEN "failed" ELSE "sent"]
  /\ UNCHANGED <<pc, pending, callVars, outcome>>

(* External: the deadline passes, or the sub-call is cancelled because     *)
(* fail_limit was reached, after a prefix of the pipeline ran.             *)
SubCallCancelled(k) ==
  /\ pc = "wait" /\ sub[k] = "sent"
  /\ \E n \in 0..Len(reqs[k]) : store' = Applied(order[k], reqs[k], n)
  /\ sub' = [sub EXCEPT ![k] = "failed"]
  /\ UNCHANGED <<pc, pending, callVars, tries, late, outcome>>

(* External: a server runs a prefix that a broken connection left behind.  *)
LatePrefixRuns(l) ==
  /\ store' = Applied(order[l[1]], reqs[l[1]], l[2])
  /\ late' = late \ {l}
  /\ UNCHANGED <<pc, pending, callVars, sub, tries, outcome>>

(* Mutant: the batch is cleared by the call. *)
FinishAndReset ==
  /\ pc = "wait" /\ \A k \in DOMAIN sub : sub[k] # "sent"
  /\ pc' = "returned"
  /\ outcome' = IF \E k \in DOMAIN sub : sub[k] = "failed"
                THEN "runtime_error" ELSE "ok"
  /\ pending' = <<>>
  /\ UNCHANGED <<callVars, netVars>>

(* Execute returns the Reply, or throws when the controller failed. *)
Finish ==
  /\ pc = "wait" /\ \A k \in DOMAIN sub : sub[k] # "sent"
  /\ pc' = "returned"
  /\ outcome' = IF Cardinality({k \in DOMAIN sub : sub[k] = "failed"})
                     >= FailLimit
                THEN "runtime_error" ELSE "ok"
  /\ UNCHANGED <<pending, callVars, netVars>>

(* The caller drops the Reply or the exception; the batch stays.  What a   *)
(* server still has to run of this batch is not followed into the next.    *)
Take ==
  /\ pc = "returned"
  /\ pc' = "idle"
  /\ commands' = <<>> /\ next' = 1
  /\ mapping' = [s \in Target |-> <<>>]
  /\ order' = <<>> /\ reqs' = <<>> /\ resps' = <<>>
  /\ replyMap' = <<>>
  /\ added' = 0 /\ owners' = {}
  /\ sub' = <<>> /\ tries' = <<>> /\ late' = {}
  /\ store' = [slot \in Used |-> 0]
  /\ outcome' = "none"
  /\ UNCHANGED pending

Call ==
  \/ RouteCommand \/ Routed \/ StartPChan \/ AddChannel \/ ReleaseMapper
  \/ CallMethod \/ Finish
  \/ \E s \in Target : SingleChannel(s) \/ BuildRequestResponse(s)
  \/ \E k \in DOMAIN sub :
       SubCallAnswers(k) \/ SubCallBreaks(k) \/ SubCallCancelled(k)

Next ==
  \/ \E cmd \in Command : Add(cmd) \/ ExecuteOne(cmd)
  \/ Reset \/ Execute \/ Take
  \/ Call
  \/ \E l \in late : LatePrefixRuns(l)

Spec == Init /\ [][Next]_vars

(* The thread inside Execute keeps running, and brpc ends every sub-call:  *)
(* its retries are bounded and its deadline (ChannelOptions::timeout_ms,   *)
(* or set_timeout_ms in SetControllerAttr) is finite.  Nothing is assumed  *)
(* of the caller.                                                          *)
FairSpec == Spec /\ WF_vars(Call)

-------------------------------------------------------------------------------
(* Types of the state: positions stay inside the batch, each group has at  *)
(* most one request and one response, every sub-call a budget.             *)
TypeOK ==
  /\ pc \in {"idle", "route", "single", "build", "channels", "send", "wait",
             "returned"}
  /\ pending \in Seq(Command) /\ commands \in Seq(Command)
  /\ next \in 1..(Len(commands) + 1)
  /\ mapping \in [Target -> Seq(Batch)]
  /\ order \in Seq(Target)
  /\ reqs \in Seq(Seq(0..Len(commands)))
  /\ resps \in Seq([resp : Seq([pos : 0..Len(commands), served : BOOLEAN]),
                    offset : {0, 1}])
  /\ Len(reqs) = Len(order) /\ Len(resps) = Len(order)
  /\ replyMap \in [DOMAIN replyMap -> (1..Len(order)) \X Batch]
  /\ DOMAIN replyMap \subseteq Batch
  /\ added \in 0..Len(order)
  /\ owners \subseteq {"unique_ptr", "pchan"}
  /\ sub \in [DOMAIN sub -> {"sent", "ok", "failed"}]
  /\ tries \in [DOMAIN sub -> 0..MaxTries]
  /\ DOMAIN sub \in {1..Len(order), {}}
  /\ \A l \in late : l \in (DOMAIN sub) \X (0..Len(reqs[l[1]]))
  /\ store \in [Used -> 0..Len(commands)]
  /\ outcome \in {"none", "ok", "invalid_argument", "runtime_error"}

(* A call that returns a Reply gives every command of the batch its own    *)
(* reply, whichever server it went to, in whichever order the servers      *)
(* answered, and whether or not READONLY was put in front of its group.    *)
ReplyMatchesCommand ==
  outcome = "ok" =>
    \A i \in Batch : { r.pos : r \in GetRedisReply(i) } = {i}

(* An index beyond the batch throws out_of_range; it never reaches the     *)
(* extra reply a READONLY adds, nor a reply of another group.              *)
NoReplyBeyondBatch ==
  outcome = "ok" =>
    \A i \in (Len(commands) + 1)..(Len(commands) + MaxBatch + 1) :
      GetRedisReply(i) = {}

(* When the call succeeds, the last write the batch holds for a slot is    *)
(* the last one the cluster applied to it, even if sub-calls broke half    *)
(* way and whole pipelines were sent again.  Only a prefix that its server *)
(* runs late, after the request that replaced it, leaves an older write of *)
(* the same batch behind; every write is applied at least once.            *)
LastWriteWins ==
  outcome = "ok" =>
    \A i \in Batch :
      (/\ IsType(i, "Write")
       /\ \A j \in (i + 1)..Len(commands) :
            ~(IsType(j, "Write") /\ SlotOf[commands[j]] = SlotOf[commands[i]]))
      => \/ store[SlotOf[commands[i]]] = i
         \/ /\ store[SlotOf[commands[i]]] \in 1..(i - 1)
            /\ \E k \in DOMAIN sub : tries[k] < MaxTries
                                     /\ i \in Range(mapping[order[k]])

(* One command whose slot no range of the map covers stops the whole       *)
(* batch: nothing of it reaches any server and the call throws.            *)
UncoveredSlotBlocksBatch ==
  (\E i \in Batch : Find(Map, SlotOf[commands[i]]) = {}) =>
    /\ outcome # "ok"
    /\ pc # "idle" => sub = <<>> /\ \A slot \in Used : store[slot] = 0

(* In a successful call a command is answered by a server responsible for  *)
(* its slot, except a read whose group starts with a System command: that  *)
(* group is sent without READONLY, and a replica answers MOVED.            *)
OnlyReadsBehindSystemRedirected ==
  outcome = "ok" =>
    \A i \in Batch : \A r \in GetRedisReply(i) :
      ~r.served =>
        /\ IsType(i, "Read")
        /\ \E s \in Groups : i \in Range(mapping[s])
                             /\ IsType(mapping[s][1], "System")

(* The CallMapper of a ParallelChannel is always deleted by somebody, and  *)
(* by two owners exactly when a channel was refused after another had been *)
(* added.                                                                  *)
MapperDeletedTwiceOnlyOnPartialBuild ==
  pc \in {"send", "wait", "returned"} /\ Len(order) > 1 =>
    /\ owners # {}
    /\ owners = {"unique_ptr", "pchan"} <=> added \in 1..(Len(order) - 1)

(* The comment in src/redis_test.cpp:60 on an index beyond the batch:      *)
(* reading it throws invalid_argument.                                     *)
BeyondBatchThrowsInvalidArgument ==
  outcome = "ok" => ThrownByReply(Len(commands) + 1) = "invalid_argument"

(* What the caller sees: the phase of the call, and how it ended, with the *)
(* reply each index of the batch reads.                                    *)
Phase == CASE pc = "idle" -> "idle" [] pc = "returned" -> "returned"
           [] OTHER -> "busy"
Result ==
  CASE outcome = "none" -> <<>>
    [] outcome = "ok"   -> <<"reply", [i \in Batch |->
                              (CHOOSE r \in GetRedisReply(i) : TRUE).pos]>>
    [] OTHER            -> <<"throw">>

(* RedisCluster implements BatchCall: splitting by server, READONLY, order *)
(* of answers, retries and failures stay invisible to the caller.          *)
Promise == INSTANCE BatchCall WITH phase <- Phase, batch <- pending,
                                   call <- commands, result <- Result
ImplementsBatchCall == Promise!Spec

(* Every Execute returns: with replies or with an exception.               *)
ExecuteReturns == pc = "route" ~> pc = "returned"
===============================================================================
