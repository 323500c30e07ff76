------------------------------ MODULE Credentials ------------------------------
(***************************************************************************)
(* With which password a server is talked to: the password file, which     *)
(* PasswdMap reads once (src/detail/passwd_map.cpp), the channels, which   *)
(* RedisChannelCache keeps by address, and those who open them: SlotMaps   *)
(* that are loaded (src/cluster_map.cpp), a RedisCluster on a SlotMap, and *)
(* a Redis of its own.                                                     *)
(*                                                                         *)
(* GetChannel is one step here; ChannelCache has its steps and its races.  *)
(***************************************************************************)
EXTENDS Naturals, Sequences, FiniteSetsExt

CONSTANTS
  Name,      \* cluster names
  Server,    \* addresses
  NoPasswd,  \* the empty password
  Passwd,    \* passwords, NoPasswd among them
  Files,     \* contents of the file: sequences of lines
  Map        \* SlotMap objects

ASSUME FileAssumption ==
  /\ NoPasswd \in Passwd
  /\ Files \subseteq
       Seq([colon : BOOLEAN, name : Name \cup {"empty"}, passwd : Passwd])

VARIABLES
  file,          \* what the file holds now
  table,         \* RedisPasswdMapImp: {}, or the file it was read from
  channels,      \* RedisChannelCache::channels_, and why each was opened
  cluster_name,  \* SlotMap::cluster_name_ of each
  servers,       \* the servers of its ranges
  pc,            \* where its Load is
  ret            \* what its last Load returned; one whose configuration is
                 \* refused changes nothing, and is left out

mapVars == <<cluster_name, servers, pc, ret>>
vars == <<file, table, channels, mapVars>>

Init ==
  /\ file \in Files
  /\ table = {}
  /\ channels = <<>>
  /\ cluster_name = [m \in Map |-> "empty"]
  /\ servers = [m \in Map |-> {}]
  /\ pc = [m \in Map |-> "idle"]
  /\ ret = [m \in Map |-> -1]

-------------------------------------------------------------------------------
(* RedisPasswdMapImp: a line counts when it has a colon with something on  *)
(* both sides.                                                             *)
Counts(line) == line.colon /\ line.name # "empty" /\ line.passwd # NoPasswd

(* Mutant: a later line replaces an earlier one. *)
LastLine(f, name) ==
  LET lines == {l \in DOMAIN f : Counts(f[l]) /\ f[l].name = name}
  IN  IF lines = {} THEN NoPasswd ELSE f[Max(lines)].passwd

(* PasswdMap::get_password: emplace kept the first line of a name. *)
get_password(f, name) ==
  LET lines == {l \in DOMAIN f : Counts(f[l]) /\ f[l].name = name}
  IN  IF lines = {} THEN NoPasswd ELSE f[Min(lines)].passwd

(* RedisPasswdMapImp::get: the file is read by the first who asks for a    *)
(* password, for the whole life of the process.                            *)
ReadOnce(passwd) ==
  IF passwd = NoPasswd /\ table = {} THEN {file} ELSE table

(* RedisChannelCache::GetChannel: the key of a channel is its address. *)
Key(s, passwd) == <<s>>

(* RedisChannelCache::GetChannel: the cached channel whatever its password *)
(* is, or a new one, or none when Init fails.                              *)
GetChannel(name, s, passwd, by) ==
  LET key  == Key(s, passwd)
      auth == IF passwd # NoPasswd THEN passwd
              ELSE get_password(CHOOSE f \in table' : TRUE, name)
      new  == [auth |-> auth, cluster |-> name, given |-> passwd, by |-> by]
  IN  IF key \in DOMAIN channels THEN UNCHANGED <<table, channels>>
      ELSE /\ table' = ReadOnce(passwd)
           /\ \/ channels' = [k \in DOMAIN channels \cup {key} |->
                                IF k = key THEN new ELSE channels[k]]
              \/ channels' = channels

HasChannel(s) == Key(s, NoPasswd) \in DOMAIN channels

(* The file is edited. *)
Edit ==
  /\ file' \in Files
  /\ UNCHANGED <<table, channels, mapVars>>

(* SlotMap::Load: the map has the name of the configuration at once,       *)
(* whatever becomes of the Load.                                           *)
Load(m, name) ==
  /\ pc[m] = "idle"
  /\ cluster_name' = [cluster_name EXCEPT ![m] = name]
  /\ pc' = [pc EXCEPT ![m] = "ask"]
  /\ UNCHANGED <<file, table, channels, servers, ret>>

(* GetSlotFromServer opens the channel with no password of its own; the    *)
(* server answers with ranges at some servers, or does not.                *)
Ask(m, s) ==
  /\ pc[m] = "ask"
  /\ GetChannel(cluster_name[m], s, NoPasswd, "load")
  /\ \/ UNCHANGED <<servers, pc>>
     \/ /\ HasChannel(s)'
        /\ \E answer \in SUBSET Server \ {{}} :
             servers' = [servers EXCEPT ![m] = @ \cup answer]
        /\ pc' = [pc EXCEPT ![m] = "init_channel"]
  /\ UNCHANGED <<file, cluster_name, ret>>

Return(m, value) ==
  /\ pc' = [pc EXCEPT ![m] = "idle"]
  /\ ret' = [ret EXCEPT ![m] = value]
  /\ UNCHANGED <<cluster_name, servers>>

(* No server is left to ask. *)
AllFailed(m) ==
  pc[m] = "ask" /\ Return(m, -1) /\ UNCHANGED <<file, table, channels>>

(* InitChannel: RegisterChannel with no password; the first server without *)
(* a channel ends it.                                                      *)
Register(m, s) ==
  /\ pc[m] = "init_channel" /\ s \in servers[m] /\ ~HasChannel(s)
  /\ GetChannel(cluster_name[m], s, NoPasswd, "load")
  /\ IF HasChannel(s)' THEN UNCHANGED mapVars ELSE Return(m, -1)
  /\ file' = file

(* Mutant: InitChannel stops at the first server that has a channel. *)
StopsAtFirst(m) ==
  /\ pc[m] = "init_channel" /\ \E s \in servers[m] : HasChannel(s)
  /\ Return(m, 0) /\ UNCHANGED <<file, table, channels>>

InitChannelEnds(m) ==
  /\ pc[m] = "init_channel" /\ \A s \in servers[m] : HasChannel(s)
  /\ Return(m, 0) /\ UNCHANGED <<file, table, channels>>

(* A RedisCluster constructed with this SlotMap and this password executes *)
(* something at a server of the map.                                       *)
Execute(m, s, passwd) ==
  /\ pc[m] = "idle" /\ s \in servers[m]
  /\ GetChannel(cluster_name[m], s, passwd, "cluster")
  /\ UNCHANGED <<file, mapVars>>

(* The constructor of Redis. *)
Redis(name, s, passwd) ==
  /\ GetChannel(name, s, passwd, "redis")
  /\ UNCHANGED <<file, mapVars>>

Next ==
  \/ Edit
  \/ \E m \in Map :
       \/ \E name \in Name : Load(m, name)
       \/ AllFailed(m) \/ InitChannelEnds(m)
       \/ \E s \in Server : \/ Ask(m, s) \/ Register(m, s)
                            \/ \E p \in Passwd : Execute(m, s, p)
  \/ \E name \in Name, s \in Server, p \in Passwd : Redis(name, s, p)

Spec == Init /\ [][Next]_vars

-------------------------------------------------------------------------------
(* Who opens a channel with no password of his own gets that of the first  *)
(* valid line of his cluster in the file as it was when the process first  *)
(* needed one.  An edit, or a file that was not there yet, is never        *)
(* noticed, and such channels keep what they got.                          *)
PasswordOfFirstRead ==
  \A key \in DOMAIN channels : channels[key].given = NoPasswd =>
    \A f \in table :
      LET ch == channels[key]
          mine == {l \in DOMAIN f : Counts(f[l]) /\ f[l].name = ch.cluster}
      IN  \/ mine = {} /\ ch.auth = NoPasswd
          \/ \E l \in mine : ch.auth = f[l].passwd /\ \A j \in mine : l <= j

(* The password a RedisCluster is constructed with has no effect on the    *)
(* servers of a map whose Load succeeded: Load opened their channels with  *)
(* the file's.  It reaches the servers only that a failed Load left out,   *)
(* or that a Load still under way has not registered.                      *)
PasswordArgumentOnlyAfterFailedLoad ==
  [][\A key \in DOMAIN channels' \ DOMAIN channels :
       channels'[key].by = "cluster" =>
         \A m \in Map : key[1] \in servers[m] => pc[m] # "idle" \/ ret[m] = -1]_vars
===============================================================================
