--------------------------------- MODULE SlotMap ---------------------------------
(***************************************************************************)
(* A SlotMap object: it asks the servers of its configuration for their    *)
(* CLUSTER SLOTS until one answers, adds the ranges of the answer to the   *)
(* ranges it holds, and registers a channel for every server it knows      *)
(* (src/cluster_map.cpp).  Meanwhile the cluster (external) moves slots.   *)
(*                                                                         *)
(* The class has no lock: one thread loads and looks up.  The steps are    *)
(* separate because the cluster and the network change between them.       *)
(***************************************************************************)
EXTENDS SlotRanges

CONSTANTS
  Slots,    \* the slots looked up
  Views,    \* answers to CLUSTER SLOTS: sequences of entries, see below
  Configs,  \* configurations: the valid addresses of a Load, {} when the
            \* text has less than two lines or no valid address
  MaxLoads  \* bound on the loads between two Clears

(* An entry of CLUSTER SLOTS as it is read: any numbers, any addresses.    *)
Entry == [beg : Int, end : Int, master : Server \cup {NoServer},
          slaves : Seq(Server \cup {NoServer})]

ASSUME ViewsAssumption ==
  /\ Views \subseteq Seq(Entry) \ {<<>>} /\ Views # {}
  /\ Configs \subseteq SUBSET Server
  /\ MaxLoads \in Nat /\ Slots \subseteq Int

VARIABLES
  slot_map,  \* SlotMap::slot_map_
  pc,        \* where Load is
  untried,   \* Load: servers still to ask (random_shuffle orders them)
  left,      \* GetSlotFromServer: entries of the answer still to add
  channels,  \* servers with a channel in the RedisChannelCache
  ret,       \* what the last Load returned
  view,      \* the cluster: what CLUSTER SLOTS answers now
  loaded     \* the answers added since the last Clear, oldest first

vars == <<slot_map, pc, untried, left, channels, ret, view, loaded>>

-------------------------------------------------------------------------------
(* Slot::IsValid: the range is not empty and the master has an address.    *)
IsValid(e) == e.end >= e.beg /\ e.master \in Server

(* External: a server names each slot once, so that no two ranges of one   *)
(* answer overlap.                                                         *)
ASSUME OneRangePerSlot ==
  \A answer \in Views : \A i, j \in DOMAIN answer :
    /\ IsValid(answer[i]) /\ answer[i].beg <= answer[j].end
    /\ IsValid(answer[j]) /\ answer[j].beg <= answer[i].end
    => i = j

SlotOfEntry(e) == [end |-> e.end, master |-> e.master, slaves |-> e.slaves]

(* Mutant: an existing range is overwritten. *)
Overwrite(map, e) ==
  IF ~IsValid(e) THEN map
  ELSE [b \in DOMAIN map \cup {e.beg} |->
          IF b = e.beg THEN SlotOfEntry(e) ELSE map[b]]

(* SlotMap::Add: an invalid slot is refused; emplace keeps the range that  *)
(* already begins at this slot.                                            *)
Add(map, e) ==
  IF ~IsValid(e) THEN map
  ELSE [b \in DOMAIN map \cup {e.beg} |->
          IF b \in DOMAIN map THEN map[b] ELSE SlotOfEntry(e)]

(* Mutant: the replicas are not registered. *)
Masters(map) == { map[b].master : b \in DOMAIN map }

(* The addresses InitChannel registers: all masters and all slaves.        *)
Servers(map) ==
  UNION { {map[b].master} \cup Range(map[b].slaves) : b \in DOMAIN map }

Init ==
  /\ slot_map = [b \in {} |-> {}]
  /\ pc = "idle" /\ untried = {} /\ left = <<>> /\ channels = {} /\ ret = 0
  /\ view \in Views
  /\ loaded = <<>>

(* External: the cluster is resharded. *)
Reshard ==
  /\ view' \in Views
  /\ UNCHANGED <<slot_map, pc, untried, left, channels, ret, loaded>>

(* Load: the configuration is parsed. *)
Load ==
  /\ pc = "idle" /\ Len(loaded) < MaxLoads
  /\ untried' \in Configs
  /\ pc' = "ask"
  /\ UNCHANGED <<slot_map, left, channels, ret, view, loaded>>

(* GetSlotFromServer fails: no channel, no connection, an error or an      *)
(* empty array.  The exception is caught; the channel stays cached.        *)
AskFails(s) ==
  /\ pc = "ask" /\ s \in untried
  /\ untried' = untried \ {s}
  /\ channels' \in {channels, channels \cup {s}}
  /\ UNCHANGED <<slot_map, pc, left, ret, view, loaded>>

(* GetSlotFromServer gets an answer. *)
AskSucceeds(s) ==
  /\ pc = "ask" /\ s \in untried
  /\ left' = view
  /\ loaded' = Append(loaded, view)
  /\ channels' = channels \cup {s}
  /\ untried' = {}
  /\ pc' = "add"
  /\ UNCHANGED <<slot_map, ret, view>>

(* GetSlotFromServer: one iteration of its loop; what Add returns is not   *)
(* looked at.                                                              *)
AddEntry ==
  /\ pc = "add" /\ left # <<>>
  /\ slot_map' = Add(slot_map, Head(left))
  /\ left' = Tail(left)
  /\ UNCHANGED <<pc, untried, channels, ret, view, loaded>>

(* GetSlotFromServer returns 0, whatever the entries were worth. *)
Added ==
  /\ pc = "add" /\ left = <<>>
  /\ pc' = "init_channel"
  /\ UNCHANGED <<slot_map, untried, left, channels, ret, view, loaded>>

(* Mutant: the servers are asked again until one answers. *)
AskAllAgain ==
  /\ pc = "ask" /\ untried = {}
  /\ untried' \in Configs
  /\ UNCHANGED <<slot_map, pc, left, channels, ret, view, loaded>>

(* Load: no server is left to ask. *)
AllFailed ==
  /\ pc = "ask" /\ untried = {}
  /\ pc' = "idle" /\ ret' = -1
  /\ UNCHANGED <<slot_map, untried, left, channels, view, loaded>>

(* InitChannel registers one more server; NoServer has no channel, ever.   *)
Register(s) ==
  /\ pc = "init_channel" /\ s \in Servers(slot_map) \cap Server
  /\ s \notin channels
  /\ channels' = channels \cup {s}
  /\ UNCHANGED <<slot_map, pc, untried, left, ret, view, loaded>>

(* InitChannel gives up at the first server without a channel; what was    *)
(* loaded and registered stays.                                            *)
InitChannelFails ==
  /\ pc = "init_channel" /\ Servers(slot_map) \ channels # {}
  /\ pc' = "idle" /\ ret' = -1
  /\ UNCHANGED <<slot_map, untried, left, channels, view, loaded>>

InitChannelEnds ==
  /\ pc = "init_channel" /\ Servers(slot_map) \subseteq channels
  /\ pc' = "idle" /\ ret' = 0
  /\ UNCHANGED <<slot_map, untried, left, channels, view, loaded>>

(* SlotMap::Clear.  Nothing calls it before a second Load. *)
Clear ==
  /\ pc = "idle"
  /\ slot_map' = [b \in {} |-> {}]
  /\ loaded' = <<>>
  /\ UNCHANGED <<pc, untried, left, channels, ret, view>>

Next ==
  \/ Reshard \/ Load \/ AllFailed \/ AddEntry \/ Added
  \/ InitChannelFails \/ InitChannelEnds \/ Clear
  \/ \E s \in Server : AskFails(s) \/ AskSucceeds(s) \/ Register(s)

Spec == Init /\ [][Next]_vars

(* The thread in Load keeps running; every server is asked at most once    *)
(* and CLUSTER SLOTS has a deadline of 500 ms.                             *)
FairSpec ==
  /\ Spec
  /\ WF_vars(AllFailed \/ AddEntry \/ Added \/ InitChannelFails \/ InitChannelEnds
             \/ \E s \in Server : AskFails(s) \/ AskSucceeds(s) \/ Register(s))

-------------------------------------------------------------------------------
(* The entries of an answer, with a master, that a slot lies in. *)
Covering(answer, slot) ==
  { e \in Range(answer) : e.master \in Server /\ e.beg <= slot /\ slot <= e.end }

(* After one Load into an empty map a slot is found in the range of the    *)
(* answer that covers it, and in none when none does; a later reshard does *)
(* not change that.                                                        *)
FreshLoadIsTheAnswer ==
  Len(loaded) = 1 /\ pc # "add" =>
    \A slot \in Slots :
      Find(slot_map, slot) = {SlotOfEntry(e) : e \in Covering(loaded[1], slot)}

(* Ranges of older answers survive a later Load.  A look-up returns what   *)
(* the oldest answer since the last Clear with a range that begins there   *)
(* named for the slot, however often the map was loaded again, and nothing *)
(* that no answer named.  A slot that the last answer covers is found but  *)
(* behind a range that an older answer left: one that begins in between    *)
(* and ends too early hides the range of the last answer.                  *)
LookupsAreFromAnswers ==
  \A slot \in Slots :
    /\ \A sl \in Find(slot_map, slot) :
         \E k \in DOMAIN loaded : \E e \in Covering(loaded[k], slot) :
           /\ sl = SlotOfEntry(e)
           /\ ~\E f \in UNION {Range(loaded[j]) : j \in 1..(k - 1)} :
                f.beg = e.beg /\ IsValid(f)
    /\ /\ loaded # <<>> /\ pc # "add"
       /\ Covering(loaded[Len(loaded)], slot) # {}
       /\ Find(slot_map, slot) = {}
       => \E k \in 1..(Len(loaded) - 1) : \E e \in Range(loaded[k]) :
            /\ e.end < slot /\ e.beg \in DOMAIN slot_map
            /\ slot_map[e.beg] = SlotOfEntry(e)
            /\ \E f \in Covering(loaded[Len(loaded)], slot) : f.beg <= e.beg

(* A Load that returns 0 has a channel for every server a look-up can     *)
(* name; one replica without an address makes every Load return -1.        *)
LoadedMeansConnected ==
  [][pc = "init_channel" /\ pc' = "idle" /\ ret' = 0 =>
       \A slot \in Slots :
         Find(slot_map', slot) # {} =>
           FindRead(slot_map', slot, 1) \cup {FindWrite(slot_map', slot)}
             \subseteq channels']_vars

(* Every Load returns.                                                     *)
LoadReturns == pc = "ask" ~> pc = "idle"
===============================================================================
