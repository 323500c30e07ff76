----------------------------- MODULE CredentialsProofs -----------------------------
(***************************************************************************)
(* Proofs about Credentials, for any names, servers, passwords, contents   *)
(* of the file and SlotMaps.                                               *)
(***************************************************************************)
EXTENDS Credentials, WellFoundedInduction, TLAPS

(* The file is read at most once, and a channel that was opened with no    *)
(* password has the one that reading gave.                                 *)
OfTheTable(ch) ==
  \E f \in Files : table = {f} /\ ch.auth = get_password(f, ch.cluster)
FirstRead ==
  /\ file \in Files
  /\ table = {} \/ \E f \in Files : table = {f}
  /\ \A key \in DOMAIN channels :
       channels[key].given = NoPasswd => OfTheTable(channels[key])

(* A map that is not being loaded and whose last Load succeeded has a      *)
(* channel for each of its servers.                                        *)
Connected(m) ==
  pc[m] = "idle" /\ ret[m] # -1 => \A s \in servers[m] : HasChannel(s)
Loaded ==
  /\ pc \in [Map -> {"idle", "ask", "init_channel"}]
  /\ ret \in [Map -> {0, -1}] /\ servers \in [Map -> SUBSET Server]
  /\ \A m \in Map : Connected(m)

-------------------------------------------------------------------------------
(* A set of natural numbers that is not empty has a least member.          *)
LEMMA Least ==
  ASSUME NEW T, T \subseteq Nat, T # {}
  PROVE  \E m \in T : \A n \in T : m <= n
<1> DEFINE R == {p \in Nat \X Nat : p[1] < p[2]}
<1>1. IsWellFoundedOn(R, Nat)
  BY NatLessThanWellFounded DEF OpToRel
<1>2. PICK m \in T : \A n \in T : <<n, m>> \notin R
  <2> HIDE DEF R
  <2> QED  BY <1>1, WFMin
<1>3. ASSUME NEW n \in T PROVE m <= n
  <2>1. m \in Nat /\ n \in Nat
    OBVIOUS
  <2>2. n < m => <<n, m>> \in R
    BY <2>1
  <2> QED  BY <1>2, <2>1, <2>2
<1> QED  BY <1>3

(* get_password returns the password of the first line that counts.        *)
LEMMA FirstLine ==
  ASSUME NEW f \in Files, NEW name
  PROVE  LET mine == {l \in DOMAIN f : Counts(f[l]) /\ f[l].name = name}
         IN  \/ mine = {} /\ get_password(f, name) = NoPasswd
             \/ \E l \in mine : /\ get_password(f, name) = f[l].passwd
                                /\ \A j \in mine : l <= j
<1> DEFINE mine == {l \in DOMAIN f : Counts(f[l]) /\ f[l].name = name}
<1>1. get_password(f, name) = IF mine = {} THEN NoPasswd ELSE f[Min(mine)].passwd
  BY DEF get_password
<1>2. mine \subseteq Nat
  <2>1. DOMAIN f = 1..Len(f) /\ Len(f) \in Nat
    BY FileAssumption
  <2> QED  BY <2>1
<1> HIDE DEF mine
<1>3. mine # {} => Min(mine) \in mine /\ \A j \in mine : Min(mine) <= j
  BY <1>2, Least DEF Min
<1>4. \/ mine = {} /\ get_password(f, name) = NoPasswd
      \/ \E l \in mine : /\ get_password(f, name) = f[l].passwd
                         /\ \A j \in mine : l <= j
  BY <1>1, <1>3
<1> QED  BY <1>4 DEF mine

(* What GetChannel does: nothing, or it reads the file if no one had and   *)
(* opens a channel where there was none, or fails to.                      *)
LEMMA Opened ==
  ASSUME FirstRead, NEW name, NEW s, NEW passwd, NEW by,
         GetChannel(name, s, passwd, by), file' = file \/ file' \in Files
  PROVE  /\ FirstRead'
         /\ \A t : HasChannel(t) => HasChannel(t)'
         /\ \A key \in DOMAIN channels' \ DOMAIN channels :
              key = <<s>> /\ channels'[key].by = by
<1> DEFINE auth == IF passwd # NoPasswd THEN passwd
                   ELSE get_password(CHOOSE f \in table' : TRUE, name)
           new  == [auth |-> auth, cluster |-> name, given |-> passwd, by |-> by]
           grown == [k \in DOMAIN channels \cup {<<s>>} |->
                       IF k = <<s>> THEN new ELSE channels[k]]
<1>1. /\ file' \in Files /\ file \in Files
      /\ table = {} \/ \E f \in Files : table = {f}
      /\ \A key \in DOMAIN channels :
           channels[key].given = NoPasswd => OfTheTable(channels[key])
  BY DEF FirstRead
<1>2. \/ table' = table /\ channels' = channels
      \/ /\ <<s>> \notin DOMAIN channels /\ table' = ReadOnce(passwd)
         /\ channels' = grown \/ channels' = channels
  BY DEF GetChannel, Key
<1>3. CASE table' = table /\ channels' = channels
  BY <1>1, <1>3 DEF FirstRead, OfTheTable, HasChannel
<1>4. CASE /\ <<s>> \notin DOMAIN channels /\ table' = ReadOnce(passwd)
           /\ channels' = grown \/ channels' = channels
  <2>1. /\ table' = {} \/ \E f \in Files : table' = {f}
        /\ table # {} => table' = table
        /\ passwd = NoPasswd => table' # {}
    BY <1>1, <1>4 DEF ReadOnce
  <2>2. /\ new.given = passwd /\ new.by = by /\ new.cluster = name
        /\ new.auth = auth
    OBVIOUS
  <2>3. ASSUME passwd = NoPasswd
        PROVE  \E f \in Files : table' = {f} /\ new.auth = get_password(f, name)
    <3>1. PICK f \in Files : table' = {f}
      BY <2>1, <2>3
    <3>2. (CHOOSE g \in table' : TRUE) = f
      BY <3>1
    <3> QED  BY <2>2, <2>3, <3>1, <3>2
  <2> HIDE DEF new
  <2>4. ASSUME NEW key \in DOMAIN channels, channels[key].given = NoPasswd
        PROVE  OfTheTable(channels[key])'
    <3>1. PICK f \in Files : table = {f}
                             /\ channels[key].auth = get_password(f, channels[key].cluster)
      BY <1>1, <2>4 DEF OfTheTable
    <3>2. table' = {f} /\ channels'[key] = channels[key]
      BY <1>4, <2>1, <3>1
    <3> QED  BY <3>1, <3>2 DEF OfTheTable
  <2>5. CASE channels' = channels
    <3>1. \A key \in DOMAIN channels' :
            channels'[key].given = NoPasswd => OfTheTable(channels[key])'
      BY <2>4, <2>5
    <3> QED  BY <1>1, <2>1, <2>5, <3>1 DEF FirstRead, HasChannel
  <2>6. CASE channels' = grown
    <3>1. /\ DOMAIN channels' = DOMAIN channels \cup {<<s>>}
          /\ channels'[<<s>>] = new
          /\ \A key \in DOMAIN channels : channels'[key] = channels[key]
      BY <1>4, <2>6
    <3>2. new.given = NoPasswd => OfTheTable(channels[<<s>>])'
      BY <2>2, <2>3, <3>1 DEF OfTheTable
    <3>3. \A key \in DOMAIN channels' :
            channels'[key].given = NoPasswd => OfTheTable(channels[key])'
      BY <2>4, <3>1, <3>2
    <3>4. FirstRead'
      BY <1>1, <2>1, <3>3 DEF FirstRead
    <3>5. \A t : HasChannel(t) => HasChannel(t)'
      BY <3>1 DEF HasChannel
    <3> QED  BY <2>2, <3>1, <3>4, <3>5
  <2> QED  BY <1>4, <2>5, <2>6
<1> QED  BY <1>2, <1>3, <1>4

LEMMA FirstReadInvariance == Spec => []FirstRead
<1>1. Init => FirstRead
  BY DEF Init, FirstRead
<1>2. FirstRead /\ [Next]_vars => FirstRead'
  <2> SUFFICES ASSUME FirstRead, [Next]_vars PROVE FirstRead'
    OBVIOUS
  <2>a. ASSUME file' \in Files, UNCHANGED <<table, channels>> PROVE FirstRead'
    BY <2>a DEF FirstRead, OfTheTable
  <2>b. file \in Files
    BY DEF FirstRead
  <2>1. CASE Edit
    BY <2>1, <2>a DEF Edit
  <2>2. ASSUME NEW m \in Map, NEW name \in Name, Load(m, name) PROVE FirstRead'
    BY <2>2, <2>a, <2>b DEF Load
  <2>3. ASSUME NEW m \in Map, AllFailed(m) \/ InitChannelEnds(m) PROVE FirstRead'
    BY <2>3, <2>a, <2>b DEF AllFailed, InitChannelEnds
  <2>4. ASSUME NEW m \in Map, NEW s \in Server, Ask(m, s) PROVE FirstRead'
    BY <2>4, Opened DEF Ask
  <2>5. ASSUME NEW m \in Map, NEW s \in Server, Register(m, s) PROVE FirstRead'
    BY <2>5, Opened DEF Register
  <2>6. ASSUME NEW m \in Map, NEW s \in Server, NEW p \in Passwd, Execute(m, s, p)
        PROVE  FirstRead'
    BY <2>6, Opened DEF Execute
  <2>7. ASSUME NEW name \in Name, NEW s \in Server, NEW p \in Passwd,
               Redis(name, s, p)
        PROVE  FirstRead'
    BY <2>7, Opened DEF Redis
  <2>8. CASE UNCHANGED vars
    BY <2>8, <2>a, <2>b DEF vars
  <2> QED
    BY <2>1, <2>2, <2>3, <2>4, <2>5, <2>6, <2>7, <2>8 DEF Next
<1> QED  BY <1>1, <1>2, PTL DEF Spec

(* Who opens a channel with no password of his own gets that of the first  *)
(* line of his cluster in the file as it was read, once, for the process   *)
(* (RedisPasswdMapImp::get, PasswdMap::get_password,                       *)
(* RedisChannelCache::GetChannel).                                         *)
THEOREM OfFirstRead == Spec => []PasswordOfFirstRead
<1>1. FirstRead => PasswordOfFirstRead
  <2> SUFFICES ASSUME FirstRead, NEW key \in DOMAIN channels,
                      channels[key].given = NoPasswd, NEW f \in table
               PROVE  LET ch == channels[key]
                          mine == {l \in DOMAIN f : Counts(f[l])
                                                    /\ f[l].name = ch.cluster}
                      IN  \/ mine = {} /\ ch.auth = NoPasswd
                          \/ \E l \in mine : /\ ch.auth = f[l].passwd
                                             /\ \A j \in mine : l <= j
    BY DEF PasswordOfFirstRead
  <2>1. PICK g \in Files : table = {g}
                           /\ channels[key].auth = get_password(g, channels[key].cluster)
    BY DEF FirstRead, OfTheTable
  <2>2. f \in Files /\ channels[key].auth = get_password(f, channels[key].cluster)
    BY <2>1
  <2> QED  BY <2>2, FirstLine
<1> QED  BY <1>1, FirstReadInvariance, PTL

-------------------------------------------------------------------------------
(* No step of another takes away a channel, and a map that is not being    *)
(* loaded keeps its servers.                                               *)
LEMMA LoadedInvariance == Spec => []Loaded
<1>1. Init => Loaded
  BY DEF Init, Loaded, Connected
<1>2. FirstRead /\ Loaded /\ [Next]_vars => Loaded'
  <2> SUFFICES ASSUME FirstRead, Loaded, [Next]_vars PROVE Loaded'
    OBVIOUS
  <2>0. /\ pc \in [Map -> {"idle", "ask", "init_channel"}]
        /\ ret \in [Map -> {0, -1}] /\ servers \in [Map -> SUBSET Server]
        /\ \A m \in Map : Connected(m)
    BY DEF Loaded
  (* A step that concerns m alone, or no map. *)
  <2>a. ASSUME \A t : HasChannel(t) => HasChannel(t)', NEW m,
               /\ pc' \in [Map -> {"idle", "ask", "init_channel"}]
               /\ ret' \in [Map -> {0, -1}] /\ servers' \in [Map -> SUBSET Server],
               \A o \in Map \ {m} : /\ pc'[o] = pc[o] /\ ret'[o] = ret[o]
                                    /\ servers'[o] = servers[o],
               m \in Map => Connected(m)'
        PROVE  Loaded'
    <3>1. ASSUME NEW o \in Map PROVE Connected(o)'
      <4>1. CASE o = m
        BY <2>a, <4>1
      <4>2. CASE o # m
        BY <2>0, <2>a, <4>2 DEF Connected
      <4> QED  BY <4>1, <4>2
    <3> QED  BY <2>a, <3>1 DEF Loaded
  <2>b. ASSUME \A t : HasChannel(t) => HasChannel(t)', UNCHANGED <<pc, ret, servers>>
        PROVE  Loaded'
    BY <2>0, <2>b DEF Loaded, Connected
  <2>c. channels' = channels => \A t : HasChannel(t) => HasChannel(t)'
    BY DEF HasChannel
  <2>d. ASSUME NEW m \in Map, Return(m, -1), \A t : HasChannel(t) => HasChannel(t)'
        PROVE  Loaded'
    <3>1. /\ pc' = [pc EXCEPT ![m] = "idle"] /\ ret' = [ret EXCEPT ![m] = -1]
          /\ servers' = servers
      BY <2>d DEF Return
    <3>2. Connected(m)'
      BY <2>0, <3>1 DEF Connected
    <3> QED  BY <2>0, <2>a, <2>d, <3>1, <3>2
  <2>1. CASE Edit \/ UNCHANGED vars
    BY <2>1, <2>b, <2>c DEF Edit, vars, mapVars
  <2>2. ASSUME NEW m \in Map, NEW name \in Name, Load(m, name) PROVE Loaded'
    <3>1. pc' = [pc EXCEPT ![m] = "ask"] /\ UNCHANGED <<channels, ret, servers>>
      BY <2>2 DEF Load
    <3>2. Connected(m)'
      BY <2>0, <3>1 DEF Connected
    <3> QED  BY <2>0, <2>a, <2>c, <3>1, <3>2
  <2>3. ASSUME NEW m \in Map, AllFailed(m) PROVE Loaded'
    BY <2>3, <2>c, <2>d DEF AllFailed
  <2>4. ASSUME NEW m \in Map, InitChannelEnds(m) PROVE Loaded'
    <3>1. /\ pc' = [pc EXCEPT ![m] = "idle"] /\ ret' = [ret EXCEPT ![m] = 0]
          /\ UNCHANGED <<servers, channels>> /\ \A s \in servers[m] : HasChannel(s)
      BY <2>4 DEF InitChannelEnds, Return
    <3>2. Connected(m)'
      BY <3>1 DEF Connected, HasChannel
    <3> QED  BY <2>0, <2>a, <2>c, <3>1, <3>2
  <2>5. ASSUME NEW m \in Map, NEW s \in Server, Ask(m, s) PROVE Loaded'
    <3>1. \A t : HasChannel(t) => HasChannel(t)'
      BY <2>5, Opened DEF Ask
    <3>2. /\ pc[m] = "ask" /\ ret' = ret
          /\ \/ UNCHANGED <<servers, pc>>
             \/ \E answer \in SUBSET Server \ {{}} :
                  /\ servers' = [servers EXCEPT ![m] = @ \cup answer]
                  /\ pc' = [pc EXCEPT ![m] = "init_channel"]
      BY <2>5 DEF Ask
    <3>3. CASE UNCHANGED <<servers, pc>>
      BY <2>b, <3>1, <3>2, <3>3
    <3>4. ASSUME NEW answer \in SUBSET Server,
                 servers' = [servers EXCEPT ![m] = @ \cup answer],
                 pc' = [pc EXCEPT ![m] = "init_channel"]
          PROVE  Loaded'
      <4>1. servers[m] \cup answer \in SUBSET Server
        BY <2>0
      <4>2. /\ pc' \in [Map -> {"idle", "ask", "init_channel"}]
            /\ servers' \in [Map -> SUBSET Server] /\ pc'[m] = "init_channel"
        BY <2>0, <3>4, <4>1
      <4>3. Connected(m)'
        BY <4>2 DEF Connected
      <4>4. \A o \in Map \ {m} : pc'[o] = pc[o] /\ servers'[o] = servers[o]
        BY <2>0, <3>4
      <4> QED  BY <2>0, <2>a, <3>1, <3>2, <4>2, <4>3, <4>4
    <3> QED  BY <3>2, <3>3, <3>4
  <2>6. ASSUME NEW m \in Map, NEW s \in Server, Register(m, s) PROVE Loaded'
    <3>1. \A t : HasChannel(t) => HasChannel(t)'
      BY <2>6, Opened DEF Register
    <3>2. UNCHANGED <<pc, ret, servers>> \/ Return(m, -1)
      BY <2>6 DEF Register, mapVars
    <3> QED  BY <2>b, <2>d, <3>1, <3>2
  <2>7. ASSUME NEW m \in Map, NEW s \in Server, NEW p \in Passwd, Execute(m, s, p)
        PROVE  Loaded'
    <3>1. \A t : HasChannel(t) => HasChannel(t)'
      BY <2>7, Opened DEF Execute
    <3> QED  BY <2>7, <2>b, <3>1 DEF Execute, mapVars
  <2>8. ASSUME NEW name \in Name, NEW s \in Server, NEW p \in Passwd,
               Redis(name, s, p)
        PROVE  Loaded'
    <3>1. \A t : HasChannel(t) => HasChannel(t)'
      BY <2>8, Opened DEF Redis
    <3> QED  BY <2>8, <2>b, <3>1 DEF Redis, mapVars
  <2> QED
    BY <2>1, <2>2, <2>3, <2>4, <2>5, <2>6, <2>7, <2>8 DEF Next
<1> QED  BY <1>1, <1>2, FirstReadInvariance, PTL DEF Spec

(* The password of a RedisCluster opens a channel only at a server that    *)
(* no map that was loaded successfully knows (SlotMap::InitChannel,        *)
(* RedisChannelCache::GetChannel).                                         *)
THEOREM OnlyAfterFailedLoad == Spec => PasswordArgumentOnlyAfterFailedLoad
<1>1. ASSUME FirstRead, Loaded, [Next]_vars,
             NEW key \in DOMAIN channels' \ DOMAIN channels,
             channels'[key].by = "cluster", NEW m \in Map, key[1] \in servers[m]
      PROVE  pc[m] # "idle" \/ ret[m] = -1
  <2>1. \E s \in Server : key = <<s>>
    <3>1. ASSUME channels' = channels PROVE FALSE
      BY <1>1, <3>1
    <3>2. CASE Edit \/ UNCHANGED vars
      BY <3>1, <3>2 DEF Edit, vars
    <3>3. ASSUME NEW o \in Map, \/ \E name \in Name : Load(o, name)
                                \/ AllFailed(o) \/ InitChannelEnds(o)
          PROVE  FALSE
      BY <3>1, <3>3 DEF Load, AllFailed, InitChannelEnds
    <3>4. ASSUME NEW s \in Server, NEW o \in Map, Ask(o, s)
          PROVE  key = <<s>>
      BY <1>1, <3>4, Opened DEF Ask
    <3>5. ASSUME NEW s \in Server, NEW o \in Map, Register(o, s)
          PROVE  key = <<s>>
      BY <1>1, <3>5, Opened DEF Register
    <3>6. ASSUME NEW s \in Server, NEW o \in Map, NEW p \in Passwd, Execute(o, s, p)
          PROVE  key = <<s>>
      BY <1>1, <3>6, Opened DEF Execute
    <3>7. ASSUME NEW s \in Server, NEW name \in Name, NEW p \in Passwd,
                 Redis(name, s, p)
          PROVE  key = <<s>>
      BY <1>1, <3>7, Opened DEF Redis
    <3> QED  BY <1>1, <3>2, <3>3, <3>4, <3>5, <3>6, <3>7 DEF Next
  <2>2. ~HasChannel(key[1])
    BY <1>1, <2>1 DEF HasChannel, Key
  <2>3. Connected(m)
    BY <1>1 DEF Loaded
  <2> QED  BY <1>1, <2>2, <2>3 DEF Connected
<1>2. FirstRead /\ Loaded /\ [Next]_vars =>
        \A key \in DOMAIN channels' \ DOMAIN channels :
          channels'[key].by = "cluster" =>
            \A m \in Map : key[1] \in servers[m] => pc[m] # "idle" \/ ret[m] = -1
  BY <1>1
<1> QED
  BY <1>2, FirstReadInvariance, LoadedInvariance, PTL
  DEF Spec, PasswordArgumentOnlyAfterFailedLoad
===============================================================================
