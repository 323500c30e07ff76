--------------------------- MODULE ChannelCacheProofs ---------------------------
(***************************************************************************)
(* Proofs about ChannelCache, for any threads, requests and channels.      *)
(***************************************************************************)
EXTENDS ChannelCache, TLAPS

(* What makes the double look-up work: the address is still missing when   *)
(* the writer that missed it creates the channel.                          *)
MissStillHolds ==
  \A t \in Thread : pc[t] = "create" => call[t].key \notin DOMAIN channels

EmptyUntilReturned ==
  \A t \in Thread : pc[t] # "returned" => result[t] = {}

Inv == TypeOK /\ OneChannelPerServer /\ MissStillHolds /\ EmptyUntilReturned

USE RequestAssumption, FileAssumption

LEMMA EffectiveType == \A req \in Request : Effective(req) \in Passwd
BY DEF Effective, get_password, Passwd, Cluster

LEMMA KeyOfRequest == \A req \in Request : req.key \in Key
BY DEF Key

LEMMA InvInit == Init => Inv
BY DEF Init, Inv, TypeOK, OneChannelPerServer, MissStillHolds,
       EmptyUntilReturned, Key

LEMMA InvNext == Inv /\ [Next]_vars => Inv'
<1> SUFFICES ASSUME Inv, [Next]_vars PROVE Inv'
  OBVIOUS
<1> USE DEF Inv
<1>u. CASE UNCHANGED vars
  BY <1>u DEF vars, TypeOK, OneChannelPerServer, MissStillHolds,
              EmptyUntilReturned
<1>1. ASSUME NEW t \in Thread, NEW req \in Request, GetChannel(t, req)
      PROVE  Inv'
  <2>1. TypeOK'
    BY <1>1 DEF GetChannel, TypeOK
  <2>2. OneChannelPerServer' /\ MissStillHolds' /\ EmptyUntilReturned'
    BY <1>1 DEF GetChannel, TypeOK, OneChannelPerServer, MissStillHolds,
                EmptyUntilReturned
  <2> QED  BY <2>1, <2>2
<1>2. ASSUME NEW t \in Thread, LockShared(t) PROVE Inv'
  <2>1. TypeOK'
    BY <1>2 DEF LockShared, TypeOK
  <2>2. OneChannelPerServer' /\ MissStillHolds' /\ EmptyUntilReturned'
    BY <1>2 DEF LockShared, TypeOK, OneChannelPerServer, MissStillHolds,
                EmptyUntilReturned
  <2> QED  BY <2>1, <2>2
<1>3. ASSUME NEW t \in Thread, Lock(t) PROVE Inv'
  <2>1. TypeOK'
    BY <1>3 DEF Lock, TypeOK
  <2>2. OneChannelPerServer' /\ MissStillHolds' /\ EmptyUntilReturned'
    BY <1>3 DEF Lock, TypeOK, OneChannelPerServer, MissStillHolds,
                EmptyUntilReturned
  <2> QED  BY <2>1, <2>2
<1>9. ASSUME NEW t \in Thread, WaitExclusive(t) PROVE Inv'
  <2>1. TypeOK'
    BY <1>9 DEF WaitExclusive, TypeOK
  <2>2. OneChannelPerServer' /\ MissStillHolds' /\ EmptyUntilReturned'
    BY <1>9 DEF WaitExclusive, OneChannelPerServer, MissStillHolds,
                EmptyUntilReturned
  <2> QED  BY <2>1, <2>2
<1>4. ASSUME NEW t \in Thread, FirstLookup(t) PROVE Inv'
  <2>1. TypeOK'
    BY <1>4 DEF FirstLookup, TypeOK
  <2>2. OneChannelPerServer' /\ MissStillHolds' /\ EmptyUntilReturned'
    BY <1>4 DEF FirstLookup, TypeOK, OneChannelPerServer, MissStillHolds,
                EmptyUntilReturned
  <2> QED  BY <2>1, <2>2
<1>5. ASSUME NEW t \in Thread, SecondLookup(t) PROVE Inv'
  <2>1. TypeOK'
    <3>1. CASE call[t].key \in DOMAIN channels
      <4>1. /\ pc[t] = "exclusive" /\ pc' = [pc EXCEPT ![t] = "returned"]
            /\ result' = [result EXCEPT ![t] = {channels[call[t].key]}]
            /\ writer' = {} /\ barred' = FALSE
            /\ UNCHANGED <<call, channels, readers>>
        BY <1>5, <3>1 DEF SecondLookup
      <4>2. writer = {t} /\ channels[call[t].key] \in ChannelRecord
        BY <3>1, <4>1 DEF TypeOK
      <4>3. result' \in [Thread -> SUBSET ChannelRecord]
        BY <4>1, <4>2 DEF TypeOK
      <4>4. writer' = {u \in Thread : pc'[u] \in {"exclusive", "create"}}
        BY <4>1, <4>2 DEF TypeOK
      <4>5. readers' = {u \in Thread : pc'[u] = "shared"}
        BY <4>1 DEF TypeOK
      <4> QED  BY <4>1, <4>3, <4>4, <4>5 DEF TypeOK
    <3>2. CASE call[t].key \notin DOMAIN channels
      BY <1>5, <3>2 DEF SecondLookup, TypeOK
    <3> QED  BY <3>1, <3>2
  <2>2. OneChannelPerServer' /\ MissStillHolds' /\ EmptyUntilReturned'
    BY <1>5 DEF SecondLookup, TypeOK, OneChannelPerServer, MissStillHolds,
                EmptyUntilReturned
  <2> QED  BY <2>1, <2>2
<1>6. ASSUME NEW t \in Thread, CreateChannel(t) PROVE Inv'
  <2> DEFINE key == call[t].key
  <2>1. PICK id \in Fresh :
          /\ channels' = Emplace(key, [id |-> id, auth |-> Effective(call[t])])
          /\ result' = [result EXCEPT
                          ![t] = {[id |-> id, auth |-> Effective(call[t])]}]
    BY <1>6 DEF CreateChannel
  <2> DEFINE ch == [id |-> id, auth |-> Effective(call[t])]
  <2>2. ch \in ChannelRecord /\ key \in Key /\ key \notin DOMAIN channels
    BY <1>6, <2>1, EffectiveType, KeyOfRequest
    DEF ChannelRecord, Fresh, TypeOK, CreateChannel, MissStillHolds
  <2> HIDE DEF ch, key
  <2>3. /\ DOMAIN channels' = DOMAIN channels \cup {key}
        /\ \A k \in DOMAIN channels : channels'[k] = channels[k]
        /\ channels'[key] = ch
    <3>1. channels' = Emplace(key, ch)
      BY <2>1 DEF ch, key
    <3> QED  BY <2>2, <3>1 DEF Emplace
  <2>4. /\ result' = [result EXCEPT ![t] = {ch}]
        /\ writer' = {} /\ readers' = readers /\ call' = call
        /\ barred' = FALSE
        /\ pc[t] = "create" /\ pc' = [pc EXCEPT ![t] = "returned"]
    BY <1>6, <2>1 DEF CreateChannel, ch
  <2>5. TypeOK'
    <3>1. channels' \in [DOMAIN channels' -> ChannelRecord]
      <4>1. channels' = [k \in DOMAIN channels' |-> channels'[k]]
        BY <2>1 DEF Emplace
      <4>2. \A k \in DOMAIN channels' : channels'[k] \in ChannelRecord
        BY <2>2, <2>3 DEF TypeOK
      <4> QED  BY <4>1, <4>2
    <3>2. DOMAIN channels' \subseteq Key
      BY <2>2, <2>3 DEF TypeOK
    <3>3. result' \in [Thread -> SUBSET ChannelRecord]
      BY <2>2, <2>4 DEF TypeOK
    <3>4. \A u \in Thread : u # t => pc[u] \notin {"exclusive", "create"}
      BY <2>4 DEF TypeOK
    <3>5. readers' = {u \in Thread : pc'[u] = "shared"}
      BY <2>4 DEF TypeOK
    <3>6. writer' = {u \in Thread : pc'[u] \in {"exclusive", "create"}}
      BY <2>4, <3>4 DEF TypeOK
    <3> QED  BY <2>4, <3>1, <3>2, <3>3, <3>5, <3>6 DEF TypeOK
  <2>6. OneChannelPerServer'
    BY <2>3, <2>4 DEF OneChannelPerServer, TypeOK, key
  <2>7. MissStillHolds' /\ EmptyUntilReturned'
    BY <2>4 DEF MissStillHolds, EmptyUntilReturned, TypeOK
  <2> QED  BY <2>5, <2>6, <2>7
<1>7. ASSUME NEW t \in Thread, InitFails(t) PROVE Inv'
  <2>1. TypeOK'
    <3>1. /\ pc[t] = "create" /\ pc' = [pc EXCEPT ![t] = "returned"]
          /\ writer' = {} /\ barred' = FALSE
          /\ UNCHANGED <<call, result, channels, readers>>
      BY <1>7 DEF InitFails
    <3>2. writer = {t}
      BY <3>1 DEF TypeOK
    <3>3. writer' = {u \in Thread : pc'[u] \in {"exclusive", "create"}}
      BY <3>1, <3>2 DEF TypeOK
    <3>4. readers' = {u \in Thread : pc'[u] = "shared"}
      BY <3>1 DEF TypeOK
    <3> QED  BY <3>1, <3>3, <3>4 DEF TypeOK
  <2>2. OneChannelPerServer' /\ MissStillHolds' /\ EmptyUntilReturned'
    BY <1>7 DEF InitFails, TypeOK, OneChannelPerServer, MissStillHolds,
                EmptyUntilReturned
  <2> QED  BY <2>1, <2>2
<1>8. ASSUME NEW t \in Thread, Drop(t) PROVE Inv'
  <2>1. TypeOK'
    BY <1>8 DEF Drop, TypeOK
  <2>2. OneChannelPerServer' /\ MissStillHolds' /\ EmptyUntilReturned'
    BY <1>8 DEF Drop, TypeOK, OneChannelPerServer, MissStillHolds,
                EmptyUntilReturned
  <2> QED  BY <2>1, <2>2
<1> QED
  BY <1>u, <1>1, <1>2, <1>3, <1>4, <1>5, <1>6, <1>7, <1>8, <1>9
  DEF Next, Step

(* Whoever gets a channel for an address gets the one in the cache, for    *)
(* any number of threads.                                                  *)
THEOREM OneChannel == Spec => []OneChannelPerServer
<1>1. Inv => OneChannelPerServer
  BY DEF Inv
<1> QED  BY <1>1, InvInit, InvNext, PTL DEF Spec

(* Types, and a writer holds the lock alone.                               *)
THEOREM CacheTypes == Spec => []TypeOK
<1>1. Inv => TypeOK
  BY DEF Inv
<1> QED  BY <1>1, InvInit, InvNext, PTL DEF Spec

(* A published channel is never replaced nor removed.                      *)
THEOREM Permanence == Spec => NeverReplaced
<1> DEFINE Kept == \A key \in DOMAIN channels :
             key \in DOMAIN channels' /\ channels'[key] = channels[key]
<1>1. ASSUME NEW t \in Thread, CreateChannel(t) PROVE Kept
  <2>1. PICK ch : channels' = Emplace(call[t].key, ch)
    BY <1>1 DEF CreateChannel
  <2> QED  BY <2>1 DEF Emplace
<1>2. ASSUME Next, ~ \E t \in Thread : CreateChannel(t)
      PROVE  channels' = channels
  BY <1>2 DEF Next, Step, GetChannel, LockShared, FirstLookup, Lock,
              SecondLookup, InitFails, Drop, WaitExclusive
<1>3. [Next]_vars => [Kept]_vars
  BY <1>1, <1>2
<1> QED  BY <1>3, PTL DEF Spec, NeverReplaced

-------------------------------------------------------------------------------
(* The refinement. *)

LEMMA PromiseInit == Init => Promise!Init
BY DEF Init, Promise!Init, Status

LEMMA PromiseNext == Inv /\ [Next]_vars => [Promise!Next]_(Promise!vars)
<1> SUFFICES ASSUME Inv, [Next]_vars
             PROVE  Promise!Next \/ UNCHANGED Promise!vars
  OBVIOUS
<1>0. pc \in [Thread -> {"idle", "lock_shared", "shared", "lock", "exclusive",
                         "create", "returned"}]
  BY DEF Inv, TypeOK
<1>u. CASE UNCHANGED vars
  BY <1>u DEF vars, Promise!vars, Status
<1>1. ASSUME NEW t \in Thread, NEW req \in Request, GetChannel(t, req)
      PROVE  Promise!Start(t, req)
  BY <1>0, <1>1 DEF GetChannel, Promise!Start, Status
<1>2. ASSUME NEW t \in Thread, LockShared(t) \/ WaitExclusive(t) \/ Lock(t)
      PROVE  UNCHANGED Promise!vars
  BY <1>0, <1>2 DEF LockShared, WaitExclusive, Lock, Promise!vars, Status
<1>3. ASSUME NEW t \in Thread, FirstLookup(t) \/ SecondLookup(t)
      PROVE  Promise!FindChannel(t) \/ UNCHANGED Promise!vars
  <2>1. CASE call[t].key \in DOMAIN channels
    BY <1>0, <1>3, <2>1
    DEF FirstLookup, SecondLookup, Promise!FindChannel, Promise!Returns, Status
  <2>2. CASE call[t].key \notin DOMAIN channels
    BY <1>0, <1>3, <2>2
    DEF FirstLookup, SecondLookup, Promise!vars, Status
  <2> QED  BY <2>1, <2>2
<1>4. ASSUME NEW t \in Thread, CreateChannel(t) PROVE Promise!NewChannel(t)
  <2>1. PICK id \in Fresh :
          /\ channels' = Emplace(call[t].key,
                                 [id |-> id, auth |-> Effective(call[t])])
          /\ result' = [result EXCEPT
                          ![t] = {[id |-> id, auth |-> Effective(call[t])]}]
    BY <1>4 DEF CreateChannel
  <2>2. call[t].key \notin DOMAIN channels
    BY <1>4 DEF Inv, MissStillHolds, CreateChannel
  <2>3. id \in Channel /\ \A key \in DOMAIN channels : channels[key].id # id
    BY DEF Fresh
  <2>4. channels' = [key \in DOMAIN channels \cup {call[t].key} |->
                       IF key = call[t].key
                       THEN [id |-> id, auth |-> Effective(call[t])]
                       ELSE channels[key]]
    BY <2>1, <2>2 DEF Emplace
  <2>5. Status[t] = "pending" /\ Status' = [Status EXCEPT ![t] = "returned"]
        /\ call' = call
    BY <1>0, <1>4 DEF Status, CreateChannel
  <2>6. Promise!Returns(t, {[id |-> id, auth |-> Effective(call[t])]})
    BY <2>1, <2>5 DEF Promise!Returns
  <2> QED  BY <2>2, <2>3, <2>4, <2>6 DEF Promise!NewChannel
<1>5. ASSUME NEW t \in Thread, InitFails(t) PROVE Promise!NoChannel(t)
  <2>1. call[t].key \notin DOMAIN channels /\ result[t] = {}
    BY <1>5 DEF Inv, MissStillHolds, EmptyUntilReturned, InitFails
  <2>2. result' = [result EXCEPT ![t] = {}]
    BY <1>5, <2>1 DEF InitFails, Inv, TypeOK
  <2> QED  BY <1>0, <1>5, <2>1, <2>2
           DEF InitFails, Promise!NoChannel, Promise!Returns, Status
<1>6. ASSUME NEW t \in Thread, Drop(t) PROVE Promise!Drop(t)
  BY <1>0, <1>6 DEF Drop, Promise!Drop, Status
<1> QED
  BY <1>u, <1>1, <1>2, <1>3, <1>4, <1>5, <1>6 DEF Next, Step, Promise!Next

(* The double-checked, locked cache behaves as an atomic table.            *)
THEOREM Linearizable == Spec => ImplementsChannelTable
<1> QED
  BY InvInit, InvNext, PromiseInit, PromiseNext, PTL
  DEF Spec, ImplementsChannelTable, Promise!Spec
===============================================================================
