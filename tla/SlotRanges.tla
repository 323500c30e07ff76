------------------------------ MODULE SlotRanges ------------------------------
(***************************************************************************)
(* The slot map of a Redis cluster as a value, and the look-ups on it      *)
(* (src/cluster_map.h, src/cluster_map.cpp).                               *)
(*                                                                         *)
(* SlotMap::slot_map_ is a std::map<int, Slot> keyed by the first slot of  *)
(* a range.  Here it is a function whose domain is that set of keys and    *)
(* whose values are records [end, master, slaves].  A pointer that may be  *)
(* null, or a result that may be absent, is a set of at most one element.  *)
(***************************************************************************)
EXTENDS Integers, Sequences, Functions

CONSTANTS
  Server,    \* addresses (ip:port) that pass Server::IsValid
  NoServer   \* the default-constructed address {"", -1}, which does not

ASSUME NoServerAssumption == NoServer \notin Server

(* Slot: what the map holds for a range.  Only the master is validated by  *)
(* SlotMap::Add, so an invalid address may well be among the slaves.       *)
SlotRecord ==
  [end : Int, master : Server, slaves : Seq(Server \cup {NoServer})]

(* The values slot_map_ can take. *)
IsSlotMap(map) ==
  /\ DOMAIN map \subseteq Int
  /\ \A b \in DOMAIN map : map[b] \in SlotRecord /\ b <= map[b].end

(* Mutant: lower_bound is used. *)
FindBelow(map, slot) ==
  { map[b] : b \in { c \in DOMAIN map :
      /\ c < slot
      /\ \A d \in DOMAIN map : d < slot => d <= c
      /\ slot <= map[c].end } }

(* SlotMap::Find: upper_bound(slot), one step back, and a check of the end *)
(* of that range.  Only the nearest range that begins at or below the slot *)
(* is looked at.                                                           *)
Find(map, slot) ==
  { map[b] : b \in { c \in DOMAIN map :
      /\ c <= slot
      /\ \A d \in DOMAIN map : d <= slot => d <= c
      /\ slot <= map[c].end } }

(* SlotMap::FindWrite: the master of the range, or a default address. *)
FindWrite(map, slot) ==
  IF Find(map, slot) = {} THEN NoServer
  ELSE (CHOOSE sl \in Find(map, slot) : TRUE).master

(* SlotMap::FindRead: the addresses the random draw can pick.  The master  *)
(* is drawn when there are no slaves, or with a positive master_ratio.     *)
FindRead(map, slot, master_ratio) ==
  IF Find(map, slot) = {} THEN {NoServer}
  ELSE LET sl == CHOOSE x \in Find(map, slot) : TRUE
       IN  IF sl.slaves = <<>> THEN {sl.master}
           ELSE Range(sl.slaves)
                \cup (IF master_ratio > 0 THEN {sl.master} ELSE {})

(* The slaves of the range a slot is in. *)
SlavesOf(map, slot) == UNION { Range(sl.slaves) : sl \in Find(map, slot) }
===============================================================================
