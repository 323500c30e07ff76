------------------------------ MODULE ClientBatch ------------------------------
(***************************************************************************)
(* The batch of a client, which holds the addresses of Command objects the *)
(* program owns, and several calls in flight on it (src/redis.cpp,         *)
(* src/redis_cluster.cpp, src/reply.cpp).                                  *)
(*                                                                         *)
(* RedisCluster (the module) follows one call through its steps with       *)
(* commands that are values.  Here a call is issued in one step, commands  *)
(* are objects that change and die while the batch refers to them, and     *)
(* replies are asked for at any int.  Execute is an ExecuteAsync whose     *)
(* caller does nothing until it has ended.                                 *)
(***************************************************************************)
EXTENDS Integers, Sequences, FiniteSets

CONSTANTS
  Client,      \* the clients a program may construct
  Command,     \* the variables that hold a Command
  MaxVersion,  \* bound on the values one variable takes
  ServerOf,    \* the server of each value: of its slot
  Reads,       \* the values with Command::Type() Read
  READONLY,    \* the command in front of a group that reads
  Offsets,     \* what a program passes to Redis::Execute(offset)
  Call,        \* calls in flight at once
  MaxBatch     \* bound on the commands of a batch

Clients == {"Redis", "RedisCluster", "ByName"}
Value == Command \X (1..MaxVersion)
Server == {ServerOf[v] : v \in Value}

ASSUME ClientAssumption == Client \subseteq Clients
ASSUME ValueAssumption ==
  /\ DOMAIN ServerOf = Value /\ Reads \subseteq Value
  /\ READONLY \notin Value /\ Offsets \subseteq Nat
ASSUME BoundAssumption == MaxVersion \in Nat \ {0} /\ MaxBatch \in Nat

VARIABLES
  client,   \* Redis, RedisCluster, or a RedisCluster constructed by name
  object,   \* of each variable: whether an object lives there, its value
  pending,  \* _commands
  call,     \* the calls: pipelines sent, Reply, outcome
  owed,     \* the program: variables added since the last Reset
  lost      \* those of them with no object any more

vars == <<client, object, pending, call, owed, lost>>

Current(c) == <<c, object[c].value>>

(* An address in the batch that no object lives at. *)
Dangling == \E i \in DOMAIN pending : ~object[pending[i]].lives

(* A call with nothing sent: not made, refused, or of undefined behaviour. *)
Nothing(state) ==
  [state |-> state, issued |-> <<>>, req |-> <<>>, offset |-> <<>>,
   resp |-> <<>>, mapping |-> <<>>, skipped |-> 0, lost |-> FALSE]

Init ==
  /\ client \in Client
  /\ object = [c \in Command |-> [lives |-> TRUE, value |-> 1]]
  /\ pending = <<>>
  /\ call = [k \in Call |-> Nothing("unused")]
  /\ owed = {} /\ lost = {}

(* The program: another Command is moved into the variable, or is          *)
(* constructed where a destroyed one was, as in the next round of a loop.  *)
Assign(c) ==
  /\ object[c].value < MaxVersion
  /\ object' = [object EXCEPT ![c] = [lives |-> TRUE, value |-> @.value + 1]]
  /\ lost' = lost \ {c}
  /\ UNCHANGED <<client, pending, call, owed>>

(* The program: the object goes out of scope. *)
Destroy(c) ==
  /\ object[c].lives
  /\ object' = [object EXCEPT ![c].lives = FALSE]
  /\ lost' = lost \cup (owed \cap {c})
  /\ UNCHANGED <<client, pending, call, owed>>

(* Redis::Add and RedisCluster::Add. *)
Add(c) ==
  /\ object[c].lives /\ Len(pending) < MaxBatch
  /\ pending' = Append(pending, c)
  /\ owed' = owed \cup {c}
  /\ UNCHANGED <<client, object, call, lost>>

(* Mutant: one command is removed. *)
ResetOne ==
  /\ pending' = IF pending = <<>> THEN <<>> ELSE Tail(pending)
  /\ owed' = {} /\ lost' = {}
  /\ UNCHANGED <<client, object, call>>

(* Redis::Reset and RedisCluster::Reset. *)
Reset ==
  /\ pending' = <<>>
  /\ owed' = {} /\ lost' = {}
  /\ UNCHANGED <<client, object, call>>

-------------------------------------------------------------------------------
(* The positions of a batch that go to server s: Redis has one server. *)
Positions(values, s) ==
  {i \in DOMAIN values : client = "Redis" \/ ServerOf[values[i]] = s}

(* How many positions of P come before i. *)
Before(P, i) == Cardinality({j \in P : j < i})

(* They are sent in the order of the batch. *)
Group(values, s) ==
  LET P == Positions(values, s)
  IN  [q \in 1..Cardinality(P) |-> CHOOSE i \in P : Before(P, i) = q - 1]

Targets(values) ==
  IF client = "Redis" THEN {CHOOSE s \in Server : TRUE}
  ELSE {ServerOf[values[i]] : i \in DOMAIN values}

(* What RedisCluster puts in front of a group whose first command reads. *)
Lead(values, s) ==
  IF client # "Redis" /\ values[Group(values, s)[1]] \in Reads
  THEN <<READONLY>> ELSE <<>>

(* Command::AddTo: the pipeline holds values, it is written at once. *)
Pipeline(values, s) ==
  LET group == Group(values, s)
  IN  Lead(values, s) \o [q \in DOMAIN group |-> values[group[q]]]

(* _mapping: where each command of a batch for several servers finds its   *)
(* reply.  With one server it stays empty.                                 *)
Mapping(values) ==
  IF Cardinality(Targets(values)) = 1 THEN <<>>
  ELSE [i \in DOMAIN values |->
          LET s == ServerOf[values[i]]
          IN  [server |-> s, index |-> Before(Positions(values, s), i)]]

(* The call of a client for these values, where offset replies are skipped *)
(* by the program's wish.                                                  *)
Issued(values, offset) ==
  [state   |-> "inflight",
   issued  |-> values,
   req     |-> [s \in Targets(values) |-> Pipeline(values, s)],
   offset  |-> [s \in Targets(values) |-> offset + Len(Lead(values, s))],
   resp    |-> [s \in Targets(values) |-> <<>>],
   mapping |-> Mapping(values),
   skipped |-> offset,
   lost    |-> FALSE]

(* Execute, ExecuteAsync: an empty batch is refused.  The objects are read *)
(* through their addresses, and a RedisCluster that was given a name has   *)
(* no slot map to look a server up in: both are undefined behaviour.       *)
Execute(k, offset) ==
  /\ call[k].state = "unused"
  /\ offset # 0 => client = "Redis"
  /\ call' = [call EXCEPT ![k] =
       IF pending = <<>> THEN Nothing("invalid_argument")
       ELSE IF client = "ByName" \/ Dangling
       THEN [Nothing("undefined") EXCEPT !.lost = (lost # {})]
       ELSE [Issued([i \in DOMAIN pending |-> Current(pending[i])], offset)
               EXCEPT !.lost = (lost # {})]]
  /\ UNCHANGED <<client, object, pending, owed, lost>>

(* Execute(cmd), ExecuteAsync(cmd): one command, past the batch. *)
ExecuteOne(k, c) ==
  /\ call[k].state = "unused" /\ object[c].lives
  /\ call' = [call EXCEPT ![k] =
       IF client = "ByName" THEN Nothing("undefined")
       ELSE Issued(<<Current(c)>>, 0)]
  /\ UNCHANGED <<client, object, pending, owed, lost>>

Progress(s, k) ==
  IF \A t \in DOMAIN call[k].req \ {s} : call[k].resp[t] # <<>>
  THEN "ok" ELSE "inflight"

(* Mutant: a request is written when its connection is ready, through the  *)
(* addresses of the commands.                                              *)
AnswerWhatIsThere(k, s) ==
  /\ call[k].state = "inflight" /\ call[k].resp[s] = <<>>
  /\ call' = [call EXCEPT ![k].state = Progress(s, k),
       ![k].resp[s] = [q \in DOMAIN call[k].req[s] |->
          IF call[k].req[s][q] = READONLY THEN READONLY
          ELSE Current(call[k].req[s][q][1])]]
  /\ UNCHANGED <<client, object, pending, owed, lost>>

(* External: one reply per command arrives, named for what it replies to. *)
Answer(k, s) ==
  /\ call[k].state = "inflight" /\ call[k].resp[s] = <<>>
  /\ call' = [call EXCEPT ![k].state = Progress(s, k), ![k].resp[s] = call[k].req[s]]
  /\ UNCHANGED <<client, object, pending, owed, lost>>

(* External: the call fails. *)
Fail(k) ==
  /\ call[k].state = "inflight"
  /\ call' = [call EXCEPT ![k].state = "failed"]
  /\ UNCHANGED <<client, object, pending, owed, lost>>

(* The program drops the Reply, the Future or the exception. *)
Forget(k) ==
  /\ call[k].state \in {"ok", "failed", "invalid_argument"}
  /\ call' = [call EXCEPT ![k] = Nothing("unused")]
  /\ UNCHANGED <<client, object, pending, owed, lost>>

Next ==
  \/ \E c \in Command : Assign(c) \/ Destroy(c) \/ Add(c)
  \/ Reset
  \/ \E k \in Call :
       \/ \E o \in Offsets : Execute(k, o)
       \/ \E c \in Command : ExecuteOne(k, c)
       \/ \E s \in DOMAIN call[k].req : Answer(k, s)
       \/ Fail(k) \/ Forget(k)

Spec == Init /\ [][Next]_vars

-------------------------------------------------------------------------------
Ends(how) == [ends |-> how]
ReplyTo(v) == [ends |-> "reply", to |-> v]

(* Mutant: the size is compared with the index before the offset. *)
ComparedTooEarly(k, i) ==
  LET m == IF call[k].mapping # <<>> THEN call[k].mapping[i + 1]
           ELSE [server |-> CHOOSE s \in DOMAIN call[k].resp : TRUE, index |-> i]
      resp == call[k].resp[m.server]
      idx  == m.index + call[k].offset[m.server]
  IN  IF call[k].mapping # <<>> /\ i + 1 \notin DOMAIN call[k].mapping
        THEN Ends("out_of_range")
      ELSE IF Len(resp) <= m.index THEN Ends("out_of_range")
      ELSE IF idx + 1 \in DOMAIN resp THEN ReplyTo(resp[idx + 1])
      ELSE Ends("undefined")

(* Reply::GetRedisReply(i), for any int i: an index below zero is not      *)
(* refused by the comparison with the size, but by _mapping.at(i).         *)
GetRedisReply(k, i) ==
  LET m == IF call[k].mapping # <<>> THEN call[k].mapping[i + 1]
           ELSE [server |-> CHOOSE s \in DOMAIN call[k].resp : TRUE, index |-> i]
      resp == call[k].resp[m.server]
      idx  == m.index + call[k].offset[m.server]
  IN  IF call[k].mapping # <<>> /\ i + 1 \notin DOMAIN call[k].mapping
        THEN Ends("out_of_range")
      ELSE IF Len(resp) <= idx THEN Ends("out_of_range")
      ELSE IF idx + 1 \in DOMAIN resp THEN ReplyTo(resp[idx + 1])
      ELSE Ends("undefined")

Index == (-MaxBatch - 1)..(MaxBatch + 1)

(* Each call replies to its own batch as it was when it was issued: what   *)
(* the program adds, resets, assigns and destroys behind it, and the other *)
(* calls of the same client, change nothing.  Redis hands out the replies  *)
(* behind the offset it was given.                                         *)
RepliesAreOfTheIssuedBatch ==
  \A k \in Call : call[k].state = "ok" =>
    \A i \in 0..(Len(call[k].issued) - call[k].skipped - 1) :
      GetRedisReply(k, i) = ReplyTo(call[k].issued[i + 1 + call[k].skipped])

(* An index behind the replies that are handed out is refused; where more  *)
(* replies are skipped than came, that may be one below zero.  One in      *)
(* front of them is refused only when the batch needed several servers:    *)
(* with one server the caller reads a reply that was to be skipped,        *)
(* READONLY's among them, or memory in front of the replies.  The same     *)
(* program runs into it or not by where the slots of its keys are.         *)
NegativeRefusedIffSeveralServers ==
  \A k \in Call : call[k].state = "ok" => \A i \in Index :
    /\ i >= Len(call[k].issued) - call[k].skipped =>
         GetRedisReply(k, i) = Ends("out_of_range")
    /\ i < 0 /\ i < Len(call[k].issued) - call[k].skipped =>
         (GetRedisReply(k, i) = Ends("out_of_range")
            <=> Cardinality(DOMAIN call[k].req) > 1)
    /\ i = -1 /\ DOMAIN call[k].mapping = {} /\ call[k].skipped = 0
         => GetRedisReply(k, i) = IF client # "Redis" /\ call[k].issued[1] \in Reads
                                  THEN ReplyTo(READONLY) ELSE Ends("undefined")

(* What a program has to keep alive: every command from Add to the last    *)
(* Execute before Reset, also one whose reply was read long ago.  If it    *)
(* does so, and gave the client a slot map, no call is undefined; if it    *)
(* does not, the next Execute of the batch is.                             *)
UndefinedIffCommandLost ==
  \A k \in Call :
    /\ client # "ByName" => (call[k].state = "undefined" <=> call[k].lost)
    /\ client = "ByName" =>
         call[k].state \in {"unused", "invalid_argument", "undefined"}
===============================================================================
