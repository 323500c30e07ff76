------------------------------ MODULE ChannelCache ------------------------------
(***************************************************************************)
(* RedisChannelCache (src/detail/redis_channel_cache.cpp): the process     *)
(* wide cache of channels, one per server address, that every RedisCluster *)
(* and SlotMap uses from any thread.  A call looks the address up under    *)
(* the shared lock, and on a miss looks again and creates the channel      *)
(* under the exclusive lock.                                               *)
(*                                                                         *)
(* The lock is boost::shared_mutex (external): any number of readers or    *)
(* one writer; a writer that has to wait bars new readers until the lock   *)
(* is next released.  brpc::Channel::Init (external) may fail at any time. *)
(***************************************************************************)
EXTENDS Naturals

CONSTANTS
  Thread,      \* the calling threads
  Request,     \* the arguments of a call: records [cluster, key, passwd]
  Channel,     \* channel objects
  NoPasswd,    \* the empty password
  FilePasswd   \* PasswdMap: the password of each cluster name, or NoPasswd

Key     == {req.key : req \in Request}
Cluster == {req.cluster : req \in Request}
Passwd  == {req.passwd : req \in Request} \cup {NoPasswd}
           \cup {FilePasswd[c] : c \in Cluster}
ChannelRecord == [id : Channel, auth : Passwd]

ASSUME RequestAssumption ==
  /\ \A req \in Request :
       req = [cluster |-> req.cluster, key |-> req.key, passwd |-> req.passwd]
  /\ Request # {}
ASSUME FileAssumption == FilePasswd \in [Cluster -> Passwd]

VARIABLES
  pc,        \* where the call of each thread is
  call,      \* its arguments
  result,    \* what it returns: {} for nullptr, or {channel}
  channels,  \* RedisChannelCache::channels_
  readers,   \* mutex_: the threads that hold it shared
  writer,    \* mutex_: the threads that hold it exclusively (one at most)
  barred     \* mutex_: new readers have to wait

vars == <<pc, call, result, channels, readers, writer, barred>>

Init ==
  /\ pc = [t \in Thread |-> "idle"]
  /\ call \in [Thread -> Request]
  /\ result = [t \in Thread |-> {}]
  /\ channels = [key \in {} |-> {}]
  /\ readers = {} /\ writer = {} /\ barred = FALSE

(* PasswdMap::get_password: the file's password of a cluster, or none. *)
get_password(cluster) == FilePasswd[cluster]

(* PasswdMap is asked when the caller gives no password. *)
Effective(req) ==
  IF req.passwd = NoPasswd THEN get_password(req.cluster) ELSE req.passwd

(* GetChannel is called, by the constructor of Redis, by BuildPChan or by  *)
(* RegisterChannel, which only asks whether there is a channel.            *)
GetChannel(t, req) ==
  /\ pc[t] = "idle"
  /\ pc' = [pc EXCEPT ![t] = "lock_shared"]
  /\ call' = [call EXCEPT ![t] = req]
  /\ UNCHANGED <<result, channels, readers, writer, barred>>

LockShared(t) ==
  /\ pc[t] = "lock_shared" /\ writer = {} /\ ~barred
  /\ readers' = readers \cup {t}
  /\ pc' = [pc EXCEPT ![t] = "shared"]
  /\ UNCHANGED <<call, result, channels, writer, barred>>

(* The look-up under the shared lock, which is then released. *)
FirstLookup(t) ==
  /\ pc[t] = "shared"
  /\ IF call[t].key \in DOMAIN channels
     THEN /\ result' = [result EXCEPT ![t] = {channels[call[t].key]}]
          /\ pc' = [pc EXCEPT ![t] = "returned"]
     ELSE /\ pc' = [pc EXCEPT ![t] = "lock"]
          /\ result' = result
  /\ readers' = readers \ {t}
  /\ barred' = (barred /\ readers # {t})
  /\ UNCHANGED <<call, channels, writer>>

(* External: the lock is not free and boost bars new readers, so that this *)
(* writer gets a chance.                                                   *)
WaitExclusive(t) ==
  /\ pc[t] = "lock" /\ (writer # {} \/ readers # {}) /\ ~barred
  /\ barred' = TRUE
  /\ UNCHANGED <<pc, call, result, channels, readers, writer>>

(* Mutant: the second lock is shared too. *)
LockSharedAgain(t) ==
  /\ pc[t] = "lock" /\ writer = {}
  /\ writer' = {t}
  /\ pc' = [pc EXCEPT ![t] = "exclusive"]
  /\ UNCHANGED <<call, result, channels, readers, barred>>

(* The exclusive lock, after the shared one was given up. *)
Lock(t) ==
  /\ pc[t] = "lock" /\ writer = {} /\ readers = {}
  /\ writer' = {t}
  /\ pc' = [pc EXCEPT ![t] = "exclusive"]
  /\ UNCHANGED <<call, result, channels, readers, barred>>

(* Mutant: the address is not looked up again under the exclusive lock. *)
NoSecondLookup(t) ==
  /\ pc[t] = "exclusive"
  /\ pc' = [pc EXCEPT ![t] = "create"]
  /\ UNCHANGED <<call, result, channels, readers, writer, barred>>

(* The look-up under the exclusive lock, which a hit releases. *)
SecondLookup(t) ==
  /\ pc[t] = "exclusive"
  /\ IF call[t].key \in DOMAIN channels
     THEN /\ result' = [result EXCEPT ![t] = {channels[call[t].key]}]
          /\ pc' = [pc EXCEPT ![t] = "returned"]
          /\ writer' = {} /\ barred' = FALSE
     ELSE /\ pc' = [pc EXCEPT ![t] = "create"]
          /\ UNCHANGED <<result, writer, barred>>
  /\ UNCHANGED <<call, channels, readers>>

(* A channel object no one else has. *)
Fresh == Channel \ ({channels[key].id : key \in DOMAIN channels}
                    \cup {ch.id : ch \in UNION {result[t] : t \in Thread}})

(* channels_.emplace(key, channel): an entry that exists stays. *)
Emplace(key, ch) ==
  [k \in DOMAIN channels \cup {key} |->
     IF k \in DOMAIN channels THEN channels[k] ELSE ch]

(* Init succeeds: the channel is published and returned. *)
CreateChannel(t) ==
  /\ pc[t] = "create"
  /\ \E id \in Fresh :
       LET ch == [id |-> id, auth |-> Effective(call[t])]
       IN  /\ channels' = Emplace(call[t].key, ch)
           /\ result' = [result EXCEPT ![t] = {ch}]
  /\ writer' = {} /\ barred' = FALSE
  /\ pc' = [pc EXCEPT ![t] = "returned"]
  /\ UNCHANGED <<call, readers>>

(* Mutants: a channel whose Init failed is published; a failed Init is     *)
(* tried again without end.                                                *)
PublishBroken(t) ==
  /\ pc[t] = "create"
  /\ \E id \in Fresh :
       channels' = Emplace(call[t].key, [id |-> id, auth |-> Effective(call[t])])
  /\ writer' = {} /\ barred' = FALSE
  /\ pc' = [pc EXCEPT ![t] = "returned"]
  /\ UNCHANGED <<call, result, readers>>
RetryInit(t) ==
  /\ pc[t] = "create"
  /\ writer' = {} /\ barred' = FALSE
  /\ pc' = [pc EXCEPT ![t] = "lock_shared"]
  /\ UNCHANGED <<call, result, channels, readers>>

(* Init fails: nothing is remembered and nullptr is returned. *)
InitFails(t) ==
  /\ pc[t] = "create"
  /\ writer' = {} /\ barred' = FALSE
  /\ pc' = [pc EXCEPT ![t] = "returned"]
  /\ UNCHANGED <<call, result, channels, readers>>

(* The caller is done with what it got. *)
Drop(t) ==
  /\ pc[t] = "returned"
  /\ pc' = [pc EXCEPT ![t] = "idle"]
  /\ result' = [result EXCEPT ![t] = {}]
  /\ UNCHANGED <<call, channels, readers, writer, barred>>

Step(t) ==
  \/ FirstLookup(t) \/ WaitExclusive(t) \/ SecondLookup(t)
  \/ CreateChannel(t) \/ InitFails(t)

Next ==
  \E t \in Thread :
    \/ \E req \in Request : GetChannel(t, req)
    \/ LockShared(t) \/ Lock(t) \/ Step(t) \/ Drop(t)

Spec == Init /\ [][Next]_vars

(* A thread inside the call keeps running.  boost::shared_mutex wakes the  *)
(* waiters at every release, so a waiter that can have the lock again and  *)
(* again gets it.  Nothing makes a thread start a call.                    *)
FairSpec ==
  /\ Spec
  /\ \A t \in Thread :
       WF_vars(Step(t)) /\ SF_vars(LockShared(t) \/ Lock(t))

-------------------------------------------------------------------------------
(* Types, and the lock: each holder is at the place in the code that holds *)
(* it, and a writer is alone.                                              *)
TypeOK ==
  /\ pc \in [Thread -> {"idle", "lock_shared", "shared", "lock", "exclusive",
                        "create", "returned"}]
  /\ call \in [Thread -> Request]
  /\ result \in [Thread -> SUBSET ChannelRecord]
  /\ channels \in [DOMAIN channels -> ChannelRecord]
  /\ DOMAIN channels \subseteq Key
  /\ readers = {t \in Thread : pc[t] = "shared"}
  /\ writer = {t \in Thread : pc[t] \in {"exclusive", "create"}}
  /\ \A t, u \in writer : t = u
  /\ writer # {} => readers = {}
  /\ barred \in BOOLEAN

(* Everybody who got a channel for an address got the one in the cache,    *)
(* however the look-ups and the creations of the threads interleaved.      *)
OneChannelPerServer ==
  \A t \in Thread : \A ch \in result[t] :
    call[t].key \in DOMAIN channels /\ ch = channels[call[t].key]

(* A published channel is never replaced nor removed: whoever holds it and *)
(* whoever asks later talk over the same connection, with the credentials  *)
(* of the call that created it whatever password the later calls carry.    *)
NeverReplaced ==
  [][\A key \in DOMAIN channels :
       key \in DOMAIN channels' /\ channels'[key] = channels[key]]_vars

(* The calls are linearizable: ChannelCache implements ChannelTable.       *)
Status == [t \in Thread |-> CASE pc[t] = "idle" -> "idle"
                              [] pc[t] = "returned" -> "returned"
                              [] OTHER -> "pending"]
Promise == INSTANCE ChannelTable WITH table <- channels, status <- Status
ImplementsChannelTable == Promise!Spec

(* Every GetChannel returns, also while Init fails for other threads.      *)
GetChannelReturns ==
  \A t \in Thread : pc[t] = "lock_shared" ~> pc[t] = "returned"
===============================================================================
