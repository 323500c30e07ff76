# A TLA+ model of rediscli

`rediscli` is a C++ client for Redis clusters on top of brpc. A program loads
the slot map of a cluster, adds commands to a batch, executes it, and reads one
reply per command; the client splits the batch by server, sends one pipeline
per server, and puts the replies back in the order of the batch. This directory
holds TLA+ modules for the parts of the client that have state, TLC
configurations that check them on small instances, and proofs for the results
that matter most. Paths below are relative to the repository; the client is in
`src/`.

## Inventory

| component | source | state | operations | used by |
|---|---|---|---|---|
| RedisCluster | `redis_cluster.cpp` | `_commands` (pointers), `_slot_map`, `_passwd`, `_timeout`; per call: the Mapper, the requests, the `Reply`, a `ParallelChannel` | Add, Reset, Execute, Execute(cmd), ExecuteAsync | programs |
| Redis | `redis.cpp` | `_commands`, `_channel` | Add, Reset, Execute, ExecuteAsync | RedisCluster (batches that need one server), SlotMap, programs |
| Reply | `reply.cpp` | `_resps` (one response and offset per server), `_mapping` | AddResponse, GetRedisReply, Get&lt;T&gt; | all of the above |
| Future, AsyncData | `future.cpp`, `detail/async_data.cpp` | Controller, Reply, callback, `ex_ptr`, `has_finish`; a `shared_ptr` in the Future, a `weak_ptr` in the completion | Wait, Get, destruction; the completion brpc runs | programs, brpc threads |
| RedisChannelCache | `detail/redis_channel_cache.cpp` | `channels_` by address, `mutex_` (process wide) | GetChannel, RegisterChannel | Redis, RedisCluster, SlotMap, from any thread |
| SlotMap | `cluster_map.cpp` | `slot_map_`, `cluster_name_` | Load, Clear, Add, Find, FindWrite, FindRead, GetSlot | RedisCluster (looks up), programs (load) |
| PasswdMap | `detail/passwd_map.cpp` | passwords by cluster name, read once from a file | get_password | RedisChannelCache |
| hash slot | `detail/hashslot.cpp`, `detail/crc16.cpp` | none | keyHashSlot, crc16 | SlotMap::GetSlot |
| commands | `command/*.h`, `detail/add_components.h` | the text of one command | constructors, AddTo, Key, Type | programs |
| reply conversion | `detail/get_reply.h` | none | GetReply&lt;T&gt; | Reply::Get |

The objects interact by calls. Three things run concurrently with the caller:
the threads of brpc, which write a response and run the completion of an
asynchronous call; other threads of the program, which share the
`RedisChannelCache` and may wait for one Future; and the Redis cluster, which
moves slots, breaks connections, and answers in any order.

What makes each part correct:

* **RedisCluster and Reply** — each command reads its own reply, whatever the
  order in which servers answer and whether READONLY was put in front of its
  group; nothing is read beyond the batch; a batch that cannot be sent as a
  whole is not sent at all; a successful call leaves the last write of the
  batch in place although pipelines are sent again; Execute returns.
* **Future and AsyncData** — nobody sees a reply or an end before the callback
  is over; a failure reaches somebody; a waiter does not wait for ever.
* **RedisChannelCache** — one channel per address in every interleaving, never
  replaced; every call returns.
* **SlotMap** — a look-up names the server the cluster named for this slot;
  what a second load may and may not change; every load returns.
* **commands** — the server takes for keys what the program gave as keys, the
  first of them routes the command, and the server it is routed to refuses it for a
  cause in what the program asked only.
* **batches** — a call replies to the batch as it was when the call was issued,
  whatever the program does to the batch and to its commands afterwards.
* **credentials** — which password a server is talked to with, and who decides it.
* **hash slot** — the client computes the slot the servers compute: the part
  between the braces, when there is one, and the CRC of it for every byte.
* **reply conversion** — an error of the server is never read as a value, a
  missing value always is, and values keep the places of their elements.

Every hazard of the code, at the line where it bites, is in `PROJECT.json`
with the properties that cover it or the reason why none does.

## Modules

| module | what it is |
|---|---|
| `SlotRanges` | the slot map as a value, and the look-ups on it (pure operators) |
| `SlotMap` | a SlotMap that is loaded, loaded again and cleared while the cluster moves slots |
| `BatchCall` | abstract: what RedisCluster promises its caller |
| `RedisCluster` | one RedisCluster object, its Reply, brpc and the servers; implements `BatchCall` |
| `ClientBatch` | the batch of a Redis or RedisCluster object: pointers to the program's commands, several calls in flight, replies at any int |
| `Commands` | the command classes, and how a Redis server reads what they build |
| `ChannelTable` | abstract: an atomic table of channels with failing creations |
| `ChannelCache` | GetChannel with its two look-ups and its lock; implements `ChannelTable` |
| `Credentials` | the password file, the channels and the SlotMaps and clients that open them |
| `AsyncCall` | one asynchronous call: completion, waiters, callback, lifetime |
| `AsyncCluster` | an asynchronous batch over several servers; implements `AsyncCall` |
| `HashTag` | which bytes of a key are hashed |
| `HashSlot` | crc16 and the slot of a key |
| `GetReply` | which reply becomes which value of which type, or which exception |
| `MCRedisCluster`, `MCClientBatch`, `MCCommands`, `MCSlotMap`, `MCChannelCache`, `MCCredentials`, `MCAsyncCall`, `MCAsyncCluster`, `MCHashSlot`, `MCGetReply` | instances for TLC |
| `RedisClusterProofs`, `ClientBatchProofs`, `ChannelCacheProofs`, `CredentialsProofs`, `AsyncCallProofs`, `SlotMapProofs`, `CommandsProofs` | theorems about the module they are named for (`AsyncCallProofs` also about `AsyncCluster`) |
| `PureFunctionProofs` | theorems about `HashTag`, `HashSlot` and `GetReply` |

`RedisCluster` and `SlotMap` extend `SlotRanges`, and `AsyncCluster` extends
`AsyncCall`. `RedisCluster` instantiates `BatchCall`, `ChannelCache` instantiates
`ChannelTable`, and `AsyncCluster` instantiates `AsyncCall`, with a refinement
mapping. In `RedisCluster` the channel cache appears through what `ChannelTable`
promises: a channel, or none.

Operators with a comment that starts with "Mutant" are wrong versions of the
definition that follows them. Nothing uses them; each is there to show that
some property breaks when the definition is replaced by it (`PROJECT.json`,
`mutants`).

### RedisCluster

`pending` is `_commands`; `commands` is the list the call works on, which is
`_commands` or, in Execute(cmd), the only command. The other variables are the
locals of Execute. The loops of the code are steps: `RouteCommand` is an iteration
of BuildMapper, `BuildRequestResponse(s)` one of the loop over the Mapper (an
`unordered_map`, hence any order), `AddChannel` one of BuildPChan. `Routed`
chooses between one server (`SingleChannel`, a `Redis` executor) and a
ParallelChannel. Execute(cmd) of the code calls GetServer and a Redis executor
directly; that is what routing a single command amounts to, so both start the same steps.

A command is a constant with a type (`TypeOf`) and a slot (`SlotOf`); a request
is a sequence of positions in the batch, 0 for READONLY; a reply is the position
it answers and whether the server served it or redirected it (MOVED). With these a
reply that is handed to the wrong command is visible. Positions count from 1.

`owners` records who is going to delete the CallMapper: the `unique_ptr` of
BuildPChan until `release()`, the ParallelChannel from the first AddChannel on.

brpc and the servers are external. A sub-call gets all its replies
(`SubCallAnswers`); its connection breaks after any prefix of the pipeline
arrived, which the server runs now or later (`LatePrefixRuns`), and the request
is sent again while tries are left (`SubCallBreaks`); or it times out or is
cancelled because another one failed (`SubCallCancelled`, fail_limit 1).
`store` is, per slot, the last write of the batch that was applied. A server
applies a write only if it is the master of the slot, and serves a read if it
is the master or a replica on a READONLY connection; whether an earlier call
left the connection READONLY is open.

`_use_master` is a constant of the model because the code branches on it; no
code sets it to true, and all runs have it false. The theorems hold for both.

### ClientBatch

`RedisCluster` follows one call step by step with commands that are values.
`ClientBatch` looks at what that leaves out. A `Command` is a variable of the
program: `object` says whether an object lives in it and which of its values it
has, because commands can be moved into a variable that was added before, and a
command in a loop is destroyed and constructed again at the same address.
`pending` holds addresses. A call is issued in one step, since AddTo writes the
values into the request before ExecuteAsync returns; Execute is an ExecuteAsync
whose caller does nothing until the call ends. Each call has its own Reply
(`resp`, `offset`, `mapping`), and its servers answer in any order. With several
servers `_mapping` is filled, with one it is empty, as in the code.

`client` is a `Redis` (one server, an offset of the program's own), a
`RedisCluster` on a slot map, or a `RedisCluster` constructed with a cluster name,
whose `_slot_map` is null. Reading a destroyed command or looking a slot up through
null ends the call in the state "undefined" and nothing more is said of it. An
index in front of the replies is "undefined" too.

`owed` and `lost` belong to the properties: what the program has added since the
last Reset, and what it has destroyed of that.

### Commands

An action for every call a program can make: the constructors are the initial
states, options of SET and EXPIRE, `EVAL::AddArgs` and the public `AddComponents`
append. A value is a tree of containers, which `AddComponents`, a recursive function on
`Values`, takes apart; `Text` gives the text of a number. What a server does with a request (`Arity`, `ServerKeys`, `Syntax`, `Runs`) is external and
follows the Redis documentation of these commands. `First` is `*keys.begin()`, which
may be any key when there is none. The `initializer_list` constructor of MSET
(`src/command/mset.h:14`) names an undeclared `keys` and cannot be instantiated;
`src/redis_test.cpp:69` uses a constructor of HSET that does not exist.

### SlotMap and SlotRanges

`slot_map_` is a function from first slots to records. `Load` chooses the
servers a configuration names; `AskFails` and `AskSucceeds` are
GetSlotFromServer for one server; `AddEntry` adds one entry of the answer;
`Register`, `InitChannelFails` and `InitChannelEnds` are InitChannel. `view` is
what the cluster answers now, and `loaded` keeps the answers since the last
Clear so that properties can compare the map with them. `FindRead` is the set of
servers the random draw can pick.

### ChannelCache and ChannelTable

One action per critical section or lock operation; `WaitExclusive` is the part of
boost's `lock()` that bars new readers (`barred`); `Init` of a brpc channel may
fail at any time. A `Request` is what a caller passes: a cluster name, an
address, a password. A channel record carries the credentials it was created
with, so that a property can speak about them. The linearization point of a
call is its look-up, its creation or its failure.

### Credentials

The password file is a sequence of lines; a line counts when there is something
on both sides of its first colon, and of two lines for one cluster the first. The
file is read by the first GetChannel that misses and was given no password. Load
sets the cluster name before it asks a server, opens the channels of the servers it
asks and of all servers of its ranges with no password of its own; only then can a
RedisCluster be used, which passes its own. GetChannel is one step here; its races
are in `ChannelCache`.

### AsyncCall and AsyncCluster

One AsyncData. `future` is the only owner the program has; the completion locks
the `weak_ptr` (`LockWeak`) and owns the AsyncData until it returns. brpc writes
the result through plain pointers in `RpcEnds`, runs the completion, and then
destroys the call id (`CallEnds`), which is what `brpc::Join` waits for. The
callback returns, throws, or waits for its own Future. The caller does not
destroy a Future while one of its own threads is inside Wait: that is the usual
contract of an object, and the model assumes it.

`AsyncCluster` adds the sub-calls of a batch over several servers. Each writes
into its part of the one Reply when it ends; brpc starts the completion after
the last one has ended, with failure when one failed (`fail_limit`). The single RPC
of `AsyncCall` ends when all sub-calls have. `Promise` maps what was written to
freed memory so far to the moment at which AsyncCall can see it.

### HashTag, HashSlot and GetReply

These are pure functions, written as operators. So that a step can be
compared with the next, their input grows: a key by one byte, a reply by one
element. `HashTag` is the search for the braces, `HashSlot` the CRC. A `uint16_t` is
there the set of its bits that are 1, so that an exclusive or is `SymDiff` and a shift
moves the members; bits beyond 15 are lost, as in the code. `crc16tab` is the table of
the source; the reference it is checked against divides bit by bit (`Shift`). A `char`
is a number from -128 to 127.

In `GetReply` a reply is a record with its type, and a type `T` is a record with its
kind and the types of its elements. The overloads of `GetReply` call each other with
smaller types; `Overload` is one of them over any conversion `conv` of the types below,
and `Convert` the recursive function on `Types` that it defines. `Parsed` and `Fits` stand for
`boost::lexical_cast`: which strings are numbers, and which integers fit. The
`unordered_` containers behave as the ordered ones do, up to the order of iteration.
To an 8-bit integer `lexical_cast` is a different function, since it treats
`int8_t` and `uint8_t` as characters (`ToByte`). A tuple asks for the size of a reply
before its type; what brpc answers for a reply that is no array is the `size` of
a scalar, an input of the model, and its elements are nil.

## Runs

| run | configuration | states | what it shows |
|---|---|---|---|
| cluster | `MCRedisCluster.cfg` | 512 000 | batches of up to 3 of 6 commands: replies match commands, nothing beyond the batch, an uncovered slot stops the batch, which commands can be redirected, when the CallMapper is deleted twice, and the refinement of BatchCall |
| retry | `MCRedisClusterRetry.cfg` | 69 000 | 2 tries per sub-call and late prefixes: what a successful call leaves in the cluster, and that every Execute returns |
| beyond | `MCRedisClusterBeyond.cfg` | violation | the exception for an index behind the batch is not the one a test comment names |
| channels | `MCChannelCache.cfg` | 188 256 | 3 threads, 2 addresses: one channel per address, refinement of ChannelTable, and every GetChannel returns |
| async | `MCAsyncCall.cfg` | 3 000 | 2 waiters, all callbacks: what Wait and Get end with and when, and that they end |
| async_cluster | `MCAsyncCluster.cfg` | 16 764 | 3 sub-calls, 2 waiters, all callbacks: a Reply is complete, no server writes behind the completion, and the whole implements AsyncCall, liveness included |
| batch | `MCClientBatch.cfg` | 1 404 137 | 2 calls in flight, batches of up to 2 of 2 variables with 2 values, 2 servers, 3 offsets, all indices around the batch, all three clients |
| commands | `MCCommands.cfg` | 17 240 | every class, lists of up to 3 keys, up to 3 calls behind the constructor: which components are keys, what is refused and why |
| credentials | `MCCredentials.cfg` | 620 469 | 2 SlotMaps, 2 servers, 2 cluster names, 3 contents of the file: which password is used |
| slots | `MCSlotMap.cfg` | 3 500 | 4 slots, 4 answers, 2 loads: what look-ups return after one and after two loads |
| hash_tag | `MCHashSlot.cfg` | 5 461 | keys of up to 6 bytes of `{`, `}` and two others: what is hashed, that nothing behind a tag changes it, and that crc16 is the XMODEM CRC of these keys and of all pairs of the 256 bytes |
| get | `MCGetReply.cfg` | 1 508 733 | scalars of every kind, arrays of up to 4 scalars and arrays, 17 types with tuples (one without elements) and 8-bit integers: errors, nils, sizes, order |

Why the bounds are enough:

* *cluster*: two ranges, one with two replicas, one without any, and one slot
  outside every range. Three commands are the fewest that give a group of two next to
  another group, so that the position in a group, the position in the batch and the
  offset all differ. A System command has an empty key and so shares a slot with a
  read. `MaxTries = 1` here; retries are in *retry*.
* *retry*: two tries are the fewest with which a prefix runs after the request
  that replaced it, and a liveness property needs a retry to be worth anything.
* *channels*: a third thread can see the state between two racing ones; the same
  address is asked for with two passwords. Three channel objects are more than
  the two addresses need, so a second channel for an address would be found. Two
  readers can overlap without end while a third thread waits for the exclusive lock,
  which two threads could not show.
* *async*: two waiters can be on both sides of `has_finish` at once.
* *slots*: the answers split the slots differently, leave a hole, and hold a
  master and a replica without an address. `MaxLoads = 2` loads between two Clears
  are enough for an old range to hide a new one.
* *async_cluster*: three servers are the fewest with which one has failed, one has
  answered and one is still writing.
* *batch*: two commands are the fewest that go to two servers, where the second is
  the first of its group; the second value of each variable is routed to the other
  server, so that an assignment changes how a batch is split. Both variables can be
  in the batch, one of them twice. Two calls overlap in every order. An offset of 1
  skips a reply, one of 3 more than there are.
* *commands*: lists of up to three keys of two slots, one empty; nested containers;
  three calls are one option more than any pair that excludes each other.
* *credentials*: the file may be missing, hold two passwords of one cluster, or only
  lines that do not count; two SlotMaps can be loaded under the same or another name
  while one is used. Servers and SlotMaps are symmetric.
* *hash_tag*: six bytes hold an empty pair and a pair with one byte, in both
  orders, and a stray brace. The theorems hold for keys of any length.
  For the CRC, all pairs of bytes: the first selects every entry of the table once,
  the second meets every content of the upper byte of the register, and the lower
  byte is carried over.
* *get*: four elements are two pairs of a map, so keys can repeat; an element may
  be an array, so types nest.

`MaxBatch`, `MaxTries`, `MaxLoads`, `MaxLen`, `MaxSize`, `MaxVersion` and `MaxCalls`
are the only bounds. Deadlock is checked in every run except *async* and *async_cluster*,
where a single call is modelled (when it is over and its Future dropped, nothing is
left to do), *batch*, which stops when every call is undefined, and the runs of
pure functions and of *commands*, whose inputs stop growing at the bound.

### What the runs say about the code

* `MapperDeletedTwiceOnlyOnPartialBuild`: when a channel is refused after another
  one was added, BuildPChan throws while the `unique_ptr` is still armed, and the
  CallMapper has two owners. It happens in this case only.
* `UncoveredSlotBlocksBatch`: a slot that no range covers makes the whole batch
  fail, before anything is sent.
* `OnlyReadsBehindSystemRedirected`: READONLY depends on the first command of a
  group; a read behind a System command may be answered MOVED by a replica.
* `LastWriteWins`: after retries an older write of the same batch may be the
  last one applied, and only because of a prefix that ran late.
* `FreedInFlightIffDroppedEarly`: a Future that is dropped while its RPC is in
  flight leaves brpc writing to freed memory; in no other case.
* `SelfJoinBlocksEveryWaiter`: a callback that waits for its own Future never
  ends, nor does anybody who has to join the call.
* `LookupsAreFromAnswers`: a second Load without Clear cannot follow a reshard: the
  oldest range stays, and may hide a slot of the newest answer.
* `UndefinedIffCommandLost`: a command has to outlive every Execute until Reset, also
  those after its reply was read; and a RedisCluster made from a cluster name
  can refuse an empty batch, nothing else.
* `NegativeRefusedIffSeveralServers`: `Get(-1)` throws when the batch needed several
  servers. When it needed one, it reads the reply to READONLY or memory in front of
  the replies; only an offset larger than the batch makes the same index throw.
* `PasswordArgumentOnlyAfterFailedLoad`: after a successful Load the password given
  to a RedisCluster has no effect, because Load has opened the channels of all
  servers without it.
* `PasswordOfFirstRead`: the password file is read once in the life of a process, and
  the first of two lines for one cluster counts.
* `RefusedForCause`: a HINCRBY is refused unless the program appends the field and the
  increment itself; keys of two slots are refused by the server, not by the client.
* `NarrowReadsCharacters`: `Get<int8_t>` of the integer 7 is 55, the code of its digit.
* `ErrorNeverAValue`: an error is read as a value by a tuple that has as many elements
  as brpc says the error has, and in no other case.
* `NilNeverThrows`: a missing field reads as 0 or "", and the program cannot tell
  it from a field that holds that value. Only a tuple that has elements throws for it.
* `LaterElementsChangeNothing`: of two equal keys in an array the first counts.
* *beyond*: `src/redis_test.cpp:60` says that reading index 2 of a batch of two
  throws invalid_argument; `src/reply.cpp:47` throws out_of_range.

## Fairness

* RedisCluster: weak fairness of the call as a whole. The calling thread keeps
  running, and brpc ends every sub-call: the number of retries is bounded and the deadline
  is finite. Nothing is assumed of the caller or of late prefixes.
* ChannelCache: weak fairness of the steps inside a critical section; strong
  fairness of the two lock operations, because boost::shared_mutex wakes the waiters
  on release. That alone would let readers that overlap keep a writer out for ever; what
  prevents it is in the model (`WaitExclusive`): a writer that finds the lock taken
  bars new readers until the next release.
* AsyncCluster: the same of every sub-call, whose retries and deadline are finite.
* AsyncCall: brpc ends the RPC, the completion and a callback that does not wait
  run on, and a thread inside Wait runs on. Nobody has to drop or wait.
* SlotMap: the thread in Load keeps running; asking a server has a deadline of 500 ms.

## Proofs

All theorems hold for every value of the constants under the named assumptions
of the modules: types of the constants, `IsSlotMap(Map)` (what SlotMap::Add
accepts), that the default address is not a server, that no
address of a map is both a master and a slave (`RolesAssumption`), and that one answer
to CLUSTER SLOTS names no slot twice (`OneRangePerSlot`). The last two are about what
Redis servers report, which is external; `RedirectedReads` needs the first,
`FromAnswers` and `FreshLoad` the second.
Besides, commands and replies are trees, numbers have different texts, none of them the
name of an option (`ValueAssumption`, `TypeAssumption`, `TextAssumption`). Every safety
property that a run shows to hold is a theorem.

* `RedisClusterProofs!TypeCorrect`: `TypeOK`. `TypeOK` alone is not inductive: that
  `added`, `sub` and `tries` stay in range needs to know what a phase has not touched
  yet and that a sub-call under way has a try left (`PhaseInv`). `MapperDeleted` adds
  who owns the CallMapper (`Owned`): the `unique_ptr` while channels are added, the
  ParallelChannel as soon as one was, and after the loop the ParallelChannel alone.
* `RedisClusterProofs` also has `RepliesMatch`, `NothingBeyond`, `UncoveredBlocks`. The
  invariant `ReplyInv` says that the Mapper is a partition of the commands routed so
  far into groups each at a server GetServer may choose (`Grouping`); that the
  requests, offsets and `_mapping` built so far are those of the groups in `order`
  (`SeveralServers`, `OneServer`), complete before anything is sent, and never for the
  default address (`Sendable`, `Staging`); that the replies of an answered sub-call
  are those to its request (`Answered`); and that success means every sub-call
  succeeded (`Succeeded`). `RepliesRead` then follows a command through its
  group, the offset and the response. Each of the parts is needed: without the
  partition two positions could share an entry of `_mapping`; without
  completeness a command could have none.
* Its last part is `WritesLast`, `RedirectedReads` and the
  refinement `Implements`. They need to know who answered and what was applied, and
  stand on a second invariant, `CallInv`: a group is in the order of the batch
  (`Sorted`), so that the last command of a pipeline for a slot is the last of the
  batch; a call cannot succeed before every group has its sub-call (`Covered`); an
  answered sub-call holds what its server answers to its request (`Served`); and when a
  sub-call was answered, its last write of a slot is in the store, unless the sub-call
  was sent again (`Stored`). For `Implements` each step is a step of BatchCall or a stutter; that the
  result is the Reply in the order of the batch is `RepliesMatch`.
* `ClientBatchProofs`: `OfTheIssuedBatch`, `NegativeIndex` and `UndefinedWhenLost`, for
  batches of any length, any number of calls, servers and values, and any offset. The
  invariant says that `lost` is what the batch refers to and no object lives in
  (`Batch`), and that a call that was sent keeps what was made of its values and its
  offset, and its servers have answered all they were sent or nothing (`Sent`). The
  rest is about positions: no two commands of a server have the same number of commands
  before them (`BeforeIsRank`), so `_mapping` and the pipeline agree on where a command
  is. `NegativeIndex` does not hold without its condition on the offset: with an offset
  larger than the batch an index below zero is refused although one server was enough.
* `ChannelCacheProofs`: `CacheTypes` (the lock excludes), `OneChannel`, `Permanence`
  (a published channel is never replaced) and the refinement `Linearizable`, for any
  number of threads and addresses. The invariant adds that the address a writer missed
  is still missing when it creates the channel (`MissStillHolds`).
* `AsyncCallProofs`: `EndsAsCalled`, `SelfJoinBlocks`, `RunsOnce` and `FreedInFlight`,
  for any number of waiters and any set of callbacks. The invariant says where the
  completion can be when the RPC is over and who then owns the AsyncData (`Lifetime`),
  what is stored at each of its steps (`Progress`), and that a waiter holds the Future
  and passes only behind `has_finish` (`Waiters`). `Lifetime` is what makes the
  `has_finish` test enough after a Join: a completion that found the AsyncData gone
  never sets it, but then nobody waits.
* For several servers the same invariant without what depends on when brpc writes
  (`Core`) is kept by the steps of both modules (`CoreStep`); `ClusterInv` adds that the
  sub-calls start with the call and are over with it, and that a call succeeded only
  when all of them did. From it `ClusterTypes`, `ReplyComplete`, and `LooksLikeOneCall`:
  every step over any number of servers is one of a single call or a stutter, the last
  failing or answering sub-call being the end of the RPC.
* `SlotMapProofs`: `FromAnswers`, `FreshLoad` and `Connected`, for any slots, answers and
  number of loads. Invariant: a range in the map is that of an answer, and no older
  answer has a range that begins there (`Kept`); every valid range of every answer has
  its place or is still to be added (`Held`). A look-up sees only the nearest range that
  begins at or below the slot (`FindNearest`); `Least` gives that there is one. `Kept`
  and `Held` name where it comes from, and `OneRangePerSlot` is needed to say that a
  range which hides one of the last answer is not of that answer.
* `CredentialsProofs`: `OfFirstRead` and `OnlyAfterFailedLoad`, for any names, servers,
  files and number of maps. `FirstRead`: the file was read at most once, and a channel
  opened without a password has what that reading gives. `Loaded`: a map that is not
  being loaded and whose last Load returned 0 has a channel for each of its servers;
  it stays so because channels are never removed and only a Load changes the servers.
* `CommandsProofs`: `KeysTaken` and `RefusedOnlyForCause`, for lists and containers of
  any length and depth, any values and any calls. The invariant `CmdInv` is the shape of
  what each class sends: how many components, where the key, the count or the seconds
  are (`OneKeyShape`, `KeysShape`), and for SET and EXPIRE that the names behind the
  third component are those of the options called, and that the last expiry decides
  (`SetShape`, `ExpireShape`). `NameGrows` and `ExpiryGrows` say that appending keeps
  them. Neither property is inductive: both are about what a server reads, and follow
  from the shape (`KeysFound`, `OneKeyComplete`, `OneKeySyntax`, `KeysComplete`).
* `PureFunctionProofs`, keys: `TagIsHashed` and `TagIsFinal`, for keys of any length.
  `Least` (a set of naturals has a least member) gives that `First` finds something,
  `FirstIsUnique` that a pattern is where the search finds it; the theorems follow
  from the pattern alone and need no invariant but that a key is a sequence of bytes.
* `PureFunctionProofs`, CRC: `SlotIsXmodem`, for keys of any length over any bytes. Eight
  steps of the division distribute over exclusive or (`ShiftByteSum`) and only move the
  bits that do not reach the upper byte (`ShiftByteMoves`), so that one byte of the table
  look-up is one byte of the division (`RoundDivides`) when the table has what the
  division makes of each of its 256 indices. That is `TableAssumption`, a statement
  without parameters about the table of the source, which TLC evaluates on every run of
  *hash_tag*. The two loops are recursive functions on the length of the key
  (`DivisionExists`, `DivisionUnique`).
* `PureFunctionProofs`, replies: `Unfolds`, `ErrorsThrow`, `MissingIsRead`, `PlacesKept`,
  `FirstStays` and `Characters`, for replies and types of any depth and arrays of any
  length. No type is made of itself (`TypeAssumption`), so a set of types that is closed
  has at most one conversion and the union of all that have one is everything:
  `Convert` exists, and `Unfolds` says what it is. An error is followed from the place
  where it is to the top through the types above it (`ErrorsInReply`); places and
  order are followed through one container whose elements are converted in any way.
  `Characters` needs that the text of a number of one character is its digit
  (`DigitAssumption`).

A recursive function is proved about as follows, in `CommandsProofs` and
`PureFunctionProofs` alike. It is a CHOOSE; that a function as described exists is
shown from the largest part of the domain on which one does, and a property of it by a
least counterexample, since no induction theorem with an operator as parameter can be
used.

Model-checked only: liveness (`ExecuteReturns`, `GetChannelReturns`, `WaitEnds`,
`LoadReturns` and the fairness half of `ImplementsAsyncCall`), which is beyond the prover.
That the second part of `TypeAssumption` and of `ValueAssumption` holds of C++ types and
values, which are finite trees, is assumed and not derived; `BeyondBatchThrowsInvalidArgument`
is false, and refuted by *beyond*.

## Not modelled

* Wording: `Command::Text`, logging, the parsing of addresses, how a number is
  written. The addresses of a configuration and the lines of the password file are
  given as records.
* Lifetime of a `string_view` that Get returned, of a SlotMap under a
  RedisCluster, and of the authenticator of a channel whose Init failed (it leaks);
  concurrent use of one RedisCluster or SlotMap, which the code does not support.
* What brpc keeps of a ParallelChannel that is destroyed while its sub-calls are
  in flight, as ExecuteAsync does: assumed to be all it needs.
* A variable that a Command was moved out of, which has no components any more.
* `resize` gaps in `Reply::_mapping` while groups are still being added:
  `_mapping` cannot be read before the call ends.
* The tests, which need a running server, and the build files.

## Plan

Done in this order: `SlotRanges`, `BatchCall`, `RedisCluster` (the core),
`ChannelTable` and `ChannelCache`, `AsyncCall`, `SlotMap`, `HashTag` and `HashSlot`,
`GetReply`; the proofs of the core, of the cache and of the hash tag; then `Commands`,
tuples and 8-bit integers in `GetReply`, `AsyncCluster`, `ClientBatch` and
`Credentials`; the proofs of the safety of `AsyncCall`.

Then the proofs of all other safety properties outside `GetReply`, `Commands` and the
CRC: of the refinement of `BatchCall` and what a successful call leaves behind, of
`AsyncCluster` and its refinement, of `SlotMap`, `Credentials` and `ClientBatch`.

Then, with recursive functions in the place of recursive operators and words as sets of
bits, the proofs about `GetReply`, `Commands` and the CRC. What the plan named is done.
