------------------------------ MODULE SlotMapProofs ------------------------------
(***************************************************************************)
(* Proofs about SlotMap, for any slots, servers, answers and configurations *)
(* and any number of loads.                                                *)
(***************************************************************************)
EXTENDS SlotMap, WellFoundedInduction, TLAPS

(* Types of the state; while entries are being added, what is left of the  *)
(* last answer.                                                            *)
TypeInv ==
  /\ IsSlotMap(slot_map)
  /\ pc \in {"idle", "ask", "add", "init_channel"}
  /\ view \in Views /\ loaded \in Seq(Views) /\ left \in Seq(Entry)
  /\ pc = "add" => /\ loaded # <<>>
                   /\ Range(left) \subseteq Range(loaded[Len(loaded)])

(* The range that begins at b is that of an answer, and none that was      *)
(* added before it has one that begins there.                              *)
Origin(b, k, e) ==
  /\ e \in Range(loaded[k]) /\ IsValid(e) /\ e.beg = b
  /\ slot_map[b] = SlotOfEntry(e)
  /\ \A j \in 1..(k - 1) : \A f \in Range(loaded[j]) : IsValid(f) => f.beg # b
Kept ==
  \A b \in DOMAIN slot_map :
    \E k \in 1..Len(loaded) : \E e \in Range(loaded[k]) : Origin(b, k, e)

(* Every valid range of every answer has its place, or is about to.        *)
Held ==
  \A k \in 1..Len(loaded) : \A e \in Range(loaded[k]) : IsValid(e) =>
    \/ e.beg \in DOMAIN slot_map
    \/ pc = "add" /\ k = Len(loaded) /\ e \in Range(left)

Inv == TypeInv /\ Kept /\ Held

-------------------------------------------------------------------------------
(* Lemmas on the operators. *)

(* A set of natural numbers that is not empty has a least member.          *)
LEMMA Least ==
  ASSUME NEW T, T \subseteq Nat, T # {}
  PROVE  \E m \in T : \A n \in T : m <= n
<1> DEFINE R == {p \in Nat \X Nat : p[1] < p[2]}
<1>1. IsWellFoundedOn(R, Nat)
  BY NatLessThanWellFounded DEF OpToRel
<1>2. PICK m \in T : \A n \in T : <<n, m>> \notin R
  <2> HIDE DEF R
  <2> QED  BY <1>1, WFMin
<1>3. ASSUME NEW n \in T PROVE m <= n
  <2>1. m \in Nat /\ n \in Nat
    OBVIOUS
  <2>2. n < m => <<n, m>> \in R
    BY <2>1
  <2> QED  BY <1>2, <2>1, <2>2
<1> QED  BY <1>3

USE ViewsAssumption

(* upper_bound and one step back: the nearest key at or below a slot.      *)
Nearest(D, slot, c) ==
  c \in D /\ c <= slot /\ \A d \in D : d <= slot => d <= c

(* There is one as soon as any key is at or below the slot.                *)
LEMMA NearestExists ==
  ASSUME NEW D, D \subseteq Int, NEW slot \in Int, NEW b \in D, b <= slot
  PROVE  \E c \in D : b <= c /\ Nearest(D, slot, c)
<1> DEFINE T == {n \in Nat : slot - n \in D}
<1>1. slot - b \in T
  <2>1. slot - (slot - b) = b /\ slot - b \in Nat
    OBVIOUS
  <2> QED  BY <2>1
<1>2. PICK m \in T : \A n \in T : m <= n
  <2>1. T \subseteq Nat /\ T # {}
    BY <1>1
  <2> HIDE DEF T
  <2> QED  BY <2>1, Least
<1>3. m \in Nat /\ slot - m \in D /\ slot - m <= slot
  OBVIOUS
<1>4. ASSUME NEW d \in D, d <= slot PROVE d <= slot - m
  <2>1. d \in Int /\ slot - (slot - d) = d /\ slot - d \in Nat
    BY <1>4
  <2>2. slot - d \in T
    BY <2>1
  <2>3. m <= slot - d
    BY <1>2, <2>2
  <2> QED  BY <1>3, <2>1, <2>3
<1> QED  BY <1>3, <1>4 DEF Nearest

(* Find looks at the nearest range and no other.                           *)
LEMMA FindNearest ==
  ASSUME NEW map, DOMAIN map \subseteq Int, NEW slot \in Int
  PROVE  /\ \A sl \in Find(map, slot) : \E c \in DOMAIN map :
              Nearest(DOMAIN map, slot, c) /\ sl = map[c] /\ slot <= map[c].end
         /\ \A c \in DOMAIN map : Nearest(DOMAIN map, slot, c) /\ slot <= map[c].end
              => map[c] \in Find(map, slot)
BY DEF Find, Nearest

(* What an answer is made of.                                              *)
LEMMA EntriesOfViews ==
  ASSUME NEW answer \in Views, NEW e \in Range(answer)
  PROVE  e \in Entry /\ e.beg \in Int /\ e.end \in Int
<1>1. answer \in Seq(Entry)
  OBVIOUS
<1>2. e \in Entry
  BY <1>1 DEF Range
<1> QED  BY <1>2 DEF Entry

(* Two ranges of one answer that overlap are the same.                     *)
LEMMA Overlap ==
  ASSUME NEW answer \in Views, NEW e \in Range(answer), NEW f \in Range(answer),
         IsValid(e), IsValid(f), e.beg <= f.end, f.beg <= e.end
  PROVE  e = f
BY OneRangePerSlot DEF Range

(* What SlotMap::Add does to the map.                                      *)
LEMMA AddedEntry ==
  ASSUME NEW map, IsSlotMap(map), NEW e \in Entry
  PROVE  /\ IsSlotMap(Add(map, e))
         /\ DOMAIN Add(map, e) = DOMAIN map \cup (IF IsValid(e) THEN {e.beg} ELSE {})
         /\ \A b \in DOMAIN map : Add(map, e)[b] = map[b]
         /\ IsValid(e) /\ e.beg \notin DOMAIN map
              => Add(map, e)[e.beg] = SlotOfEntry(e)
<1>1. CASE ~IsValid(e)
  BY <1>1 DEF Add
<1>2. CASE IsValid(e)
  <2>1. Add(map, e) = [b \in DOMAIN map \cup {e.beg} |->
                         IF b \in DOMAIN map THEN map[b] ELSE SlotOfEntry(e)]
    BY <1>2 DEF Add
  <2>2. SlotOfEntry(e) \in SlotRecord /\ e.beg <= SlotOfEntry(e).end
        /\ e.beg \in Int
    BY <1>2 DEF Entry, SlotOfEntry, SlotRecord, IsValid
  <2> HIDE DEF SlotOfEntry
  <2> QED  BY <1>2, <2>1, <2>2 DEF IsSlotMap
<1> QED  BY <1>1, <1>2

-------------------------------------------------------------------------------
(* The invariant. *)

LEMMA InvInit == Init => Inv
<1> SUFFICES ASSUME Init PROVE Inv
  OBVIOUS
<1>1. DOMAIN slot_map = {} /\ loaded = <<>> /\ left = <<>> /\ pc = "idle"
      /\ view \in Views
  BY DEF Init
<1> QED  BY <1>1 DEF Inv, TypeInv, Kept, Held, IsSlotMap

(* A new answer is held back until its entries are added.                  *)
LEMMA AskKeeps ==
  ASSUME Inv, NEW s \in Server, AskSucceeds(s)
  PROVE  Inv'
<1>0. TypeInv /\ Kept /\ Held
  BY DEF Inv
<1>1. /\ pc = "ask" /\ pc' = "add" /\ left' = view /\ view \in Views
      /\ loaded' = Append(loaded, view) /\ slot_map' = slot_map /\ view' = view
  BY <1>0 DEF AskSucceeds, TypeInv
<1>2. /\ loaded \in Seq(Views) /\ Len(loaded) \in Nat
      /\ loaded' \in Seq(Views) /\ Len(loaded') = Len(loaded) + 1
      /\ loaded'[Len(loaded) + 1] = view
      /\ \A k \in 1..Len(loaded) : loaded'[k] = loaded[k]
  BY <1>0, <1>1 DEF TypeInv
<1>3. TypeInv'
  <2>1. loaded' # <<>> /\ loaded'[Len(loaded')] = view
    BY <1>2
  <2>2. view \in Seq(Entry)
    BY <1>1
  <2> QED  BY <1>0, <1>1, <1>2, <2>1, <2>2 DEF TypeInv
<1>4. Kept'
  <2> SUFFICES ASSUME NEW b \in DOMAIN slot_map
               PROVE  \E k \in 1..Len(loaded') : \E e \in Range(loaded'[k]) :
                        Origin(b, k, e)'
    BY <1>1 DEF Kept
  <2>1a. PICK k \in 1..Len(loaded) : \E e \in Range(loaded[k]) : Origin(b, k, e)
    BY <1>0 DEF Kept
  <2>1. PICK e \in Range(loaded[k]) : Origin(b, k, e)
    BY <2>1a
  <2>2. k \in 1..Len(loaded') /\ loaded'[k] = loaded[k]
        /\ \A j \in 1..(k - 1) : loaded'[j] = loaded[j]
    <3> DEFINE n == Len(loaded)
    <3>1. n \in Nat /\ k \in 1..n /\ Len(loaded') = n + 1
          /\ \A j \in 1..n : loaded'[j] = loaded[j]
      BY <1>2
    <3> HIDE DEF n
    <3>2. k \in 1..(n + 1) /\ \A j \in 1..(k - 1) : j \in 1..n
      BY <3>1
    <3> QED  BY <3>1, <3>2
  <2>3. Origin(b, k, e)'
    BY <1>1, <2>1, <2>2 DEF Origin
  <2> QED  BY <2>2, <2>3
<1>5. Held'
  <2> SUFFICES ASSUME NEW k \in 1..Len(loaded'), NEW e \in Range(loaded'[k]),
                      IsValid(e)
               PROVE  \/ e.beg \in DOMAIN slot_map'
                      \/ k = Len(loaded') /\ e \in Range(left')
    BY <1>1 DEF Held
  <2>1. CASE k = Len(loaded) + 1
    BY <1>1, <1>2, <2>1
  <2>2. CASE k \in 1..Len(loaded)
    BY <1>0, <1>1, <1>2, <2>2 DEF Held
  <2> QED  BY <1>2, <2>1, <2>2
<1> QED  BY <1>3, <1>4, <1>5 DEF Inv

(* An entry gets its place, unless an older range begins there.            *)
LEMMA AddKeeps ==
  ASSUME Inv, AddEntry
  PROVE  Inv'
<1> DEFINE e == Head(left)
           n == Len(loaded)
<1>0. TypeInv /\ Kept /\ Held
  BY DEF Inv
<1>1. /\ pc = "add" /\ pc' = "add" /\ left # <<>> /\ left' = Tail(left)
      /\ slot_map' = Add(slot_map, e) /\ UNCHANGED <<view, loaded>>
  BY DEF AddEntry
<1>2. /\ left \in Seq(Entry) /\ left' \in Seq(Entry) /\ e \in Entry
      /\ Range(left) = {e} \cup Range(left')
  <2>1. left \in Seq(Entry) /\ left # <<>>
    BY <1>0, <1>1 DEF TypeInv
  <2>2. /\ Tail(left) \in Seq(Entry) /\ Head(left) = left[1]
        /\ Len(Tail(left)) = Len(left) - 1 /\ Len(left) \in Nat \ {0}
        /\ \A p \in 1..(Len(left) - 1) : Tail(left)[p] = left[p + 1]
        /\ left[1] \in Entry
    BY <2>1
  <2>3. Range(left) \subseteq {left[1]} \cup Range(Tail(left))
    <3> SUFFICES ASSUME NEW p \in 1..Len(left), p # 1
                 PROVE  left[p] \in Range(Tail(left))
      BY <2>1 DEF Range
    <3>1. p - 1 \in 1..(Len(left) - 1) /\ (p - 1) + 1 = p
      BY <2>2
    <3>2. Tail(left)[p - 1] = left[p] /\ p - 1 \in DOMAIN Tail(left)
      BY <2>2, <3>1
    <3> QED  BY <3>2 DEF Range
  <2>4. Range(Tail(left)) \subseteq Range(left) /\ left[1] \in Range(left)
    <3>1. 1 \in DOMAIN left
      BY <2>1, <2>2
    <3>2. \A p \in DOMAIN Tail(left) : p + 1 \in DOMAIN left
                                       /\ Tail(left)[p] = left[p + 1]
      BY <2>1, <2>2
    <3> QED  BY <3>1, <3>2 DEF Range
  <2> QED  BY <1>1, <2>1, <2>2, <2>3, <2>4
<1> HIDE DEF e
<1>3. /\ n \in Nat \ {0} /\ loaded \in Seq(Views)
      /\ Range(left) \subseteq Range(loaded[n])
  BY <1>0, <1>1 DEF TypeInv
<1>4. /\ IsSlotMap(slot_map')
      /\ DOMAIN slot_map' = DOMAIN slot_map
                            \cup (IF IsValid(e) THEN {e.beg} ELSE {})
      /\ \A b \in DOMAIN slot_map : slot_map'[b] = slot_map[b]
      /\ IsValid(e) /\ e.beg \notin DOMAIN slot_map
           => slot_map'[e.beg] = SlotOfEntry(e)
  BY <1>0, <1>1, <1>2, AddedEntry DEF TypeInv
<1>5. TypeInv'
  BY <1>0, <1>1, <1>2, <1>3, <1>4 DEF TypeInv
<1>6. Kept'
  <2> SUFFICES ASSUME NEW b \in DOMAIN slot_map'
               PROVE  \E k \in 1..n : \E f \in Range(loaded[k]) : Origin(b, k, f)'
    BY <1>1 DEF Kept
  <2>1. CASE b \in DOMAIN slot_map
    <3>1a. PICK k \in 1..n : \E f \in Range(loaded[k]) : Origin(b, k, f)
      BY <1>0, <2>1 DEF Kept
    <3>1. PICK f \in Range(loaded[k]) : Origin(b, k, f)
      BY <3>1a
    <3>2. Origin(b, k, f)'
      BY <1>1, <1>4, <2>1, <3>1 DEF Origin
    <3> QED  BY <3>2
  <2>2. CASE b \notin DOMAIN slot_map
    <3>1. IsValid(e) /\ b = e.beg /\ slot_map'[b] = SlotOfEntry(e)
      BY <1>4, <2>2
    <3>2. ASSUME NEW j \in 1..(n - 1), NEW f \in Range(loaded[j]), IsValid(f)
          PROVE  f.beg # b
      <4>1. j \in 1..n /\ j # n
        BY <1>3
      <4> QED  BY <1>0, <2>2, <3>2, <4>1 DEF Held
    <3>3. e \in Range(loaded[n]) /\ n \in 1..n
      BY <1>2, <1>3
    <3>4. PICK f, k : f = e /\ k = n
      OBVIOUS
    <3>5. Origin(b, k, f)'
      BY <1>1, <3>1, <3>2, <3>3, <3>4 DEF Origin
    <3> QED  BY <3>3, <3>4, <3>5
  <2> QED  BY <2>1, <2>2
<1>7. Held'
  <2> SUFFICES ASSUME NEW k \in 1..n, NEW f \in Range(loaded[k]), IsValid(f)
               PROVE  \/ f.beg \in DOMAIN slot_map'
                      \/ k = n /\ f \in Range(left')
    BY <1>1 DEF Held
  <2>1. f.beg \in DOMAIN slot_map \/ (k = n /\ f \in Range(left))
    BY <1>0 DEF Held
  <2> QED  BY <1>2, <1>4, <2>1
<1> QED  BY <1>5, <1>6, <1>7 DEF Inv

LEMMA InvNext == Inv /\ [Next]_vars => Inv'
<1> SUFFICES ASSUME Inv, [Next]_vars PROVE Inv'
  OBVIOUS
<1>0. TypeInv /\ Kept /\ Held
  BY DEF Inv
<1>a. ASSUME UNCHANGED <<slot_map, loaded, left>>, view' \in Views,
             pc' \in {"idle", "ask", "init_channel"} \/ pc' = pc,
             pc = "add" => pc' = pc \/ left = <<>>
      PROVE  Inv'
  <2>1. TypeInv' /\ Kept'
    BY <1>0, <1>a DEF TypeInv, Kept, Origin
  <2>2. left = <<>> => Range(left) = {}
    BY DEF Range
  <2>3. Held'
    BY <1>0, <1>a, <2>2 DEF Held
  <2> QED  BY <2>1, <2>3 DEF Inv
<1>b. view \in Views
  BY <1>0 DEF TypeInv
<1>1. CASE Reshard
  BY <1>1, <1>a DEF Reshard
<1>2. CASE Load \/ AllFailed \/ Added \/ InitChannelFails \/ InitChannelEnds
  BY <1>2, <1>a, <1>b
  DEF Load, AllFailed, Added, InitChannelFails, InitChannelEnds
<1>3. ASSUME NEW s \in Server, AskFails(s) \/ Register(s) PROVE Inv'
  BY <1>3, <1>a, <1>b DEF AskFails, Register
<1>4. ASSUME NEW s \in Server, AskSucceeds(s) PROVE Inv'
  BY <1>4, AskKeeps
<1>5. CASE AddEntry
  BY <1>5, AddKeeps
<1>6. CASE Clear
  <2>1. /\ DOMAIN slot_map' = {} /\ loaded' = <<>> /\ pc' = "idle"
        /\ view' \in Views /\ left' \in Seq(Entry)
    BY <1>0, <1>6 DEF Clear, TypeInv
  <2> QED  BY <2>1 DEF Inv, TypeInv, Kept, Held, IsSlotMap
<1>7. CASE UNCHANGED vars
  BY <1>7, <1>a, <1>b DEF vars
<1> QED  BY <1>1, <1>2, <1>3, <1>4, <1>5, <1>6, <1>7 DEF Next

LEMMA Invariance == Spec => []Inv
BY InvInit, InvNext, PTL DEF Spec

-------------------------------------------------------------------------------
(* Where the range that Find looks at comes from.                          *)
LEMMA NearestOrigin ==
  ASSUME Inv, NEW slot \in Int, NEW c, Nearest(DOMAIN slot_map, slot, c)
  PROVE  \E k \in 1..Len(loaded) : \E e \in Range(loaded[k]) :
           /\ Origin(c, k, e) /\ e.beg = c /\ c \in Int /\ c <= slot
           /\ e.beg \in Int /\ e.end \in Int /\ e.master \in Server
           /\ slot_map[c].end = e.end /\ e.beg <= e.end
           /\ loaded[k] \in Views /\ c \in DOMAIN slot_map
<1>1. c \in DOMAIN slot_map /\ c <= slot
  BY DEF Nearest
<1>2a. PICK k \in 1..Len(loaded) : \E e \in Range(loaded[k]) : Origin(c, k, e)
  BY <1>1 DEF Inv, Kept
<1>2. PICK e \in Range(loaded[k]) : Origin(c, k, e)
  BY <1>2a
<1>3. loaded[k] \in Views
  BY DEF Inv, TypeInv
<1>4. e.beg \in Int /\ e.end \in Int
  BY <1>3, EntriesOfViews
<1>5. e.beg = c /\ e.master \in Server /\ e.beg <= e.end
      /\ slot_map[c].end = e.end
  BY <1>2, <1>4 DEF Origin, IsValid, SlotOfEntry
<1> QED  BY <1>1, <1>2, <1>3, <1>4, <1>5

(* A slot that an answer covers has a nearest range.                       *)
LEMMA NearestOfCovered ==
  ASSUME Inv, pc # "add", NEW slot \in Int, NEW k \in 1..Len(loaded),
         NEW e \in Covering(loaded[k], slot)
  PROVE  /\ IsValid(e) /\ e \in Range(loaded[k]) /\ loaded[k] \in Views
         /\ e.beg \in Int /\ e.end \in Int /\ slot <= e.end
         /\ \E c \in DOMAIN slot_map :
              e.beg <= c /\ Nearest(DOMAIN slot_map, slot, c)
<1>1. /\ e \in Range(loaded[k]) /\ e.master \in Server
      /\ e.beg <= slot /\ slot <= e.end
  BY DEF Covering
<1>2. loaded[k] \in Views /\ DOMAIN slot_map \subseteq Int
  BY DEF Inv, TypeInv, IsSlotMap
<1>3. e.beg \in Int /\ e.end \in Int
  BY <1>1, <1>2, EntriesOfViews
<1>4. IsValid(e)
  BY <1>1, <1>3 DEF IsValid
<1>5. e.beg \in DOMAIN slot_map
  BY <1>1, <1>4 DEF Inv, Held
<1> QED  BY <1>1, <1>2, <1>3, <1>4, <1>5, NearestExists

(* What a look-up returns was named for the slot by an answer, the oldest  *)
(* with a range that begins there; and a slot of the last answer is lost   *)
(* only behind a range of an older one (SlotMap::Find, SlotMap::Add).      *)
THEOREM FromAnswers == Spec => []LookupsAreFromAnswers
<1>1. ASSUME Inv, NEW slot \in Slots, NEW sl \in Find(slot_map, slot)
      PROVE  \E k \in DOMAIN loaded : \E e \in Covering(loaded[k], slot) :
               /\ sl = SlotOfEntry(e)
               /\ ~\E f \in UNION {Range(loaded[j]) : j \in 1..(k - 1)} :
                    f.beg = e.beg /\ IsValid(f)
  <2>1. slot \in Int /\ DOMAIN slot_map \subseteq Int /\ loaded \in Seq(Views)
    BY <1>1 DEF Inv, TypeInv, IsSlotMap
  <2>2. PICK c \in DOMAIN slot_map : /\ Nearest(DOMAIN slot_map, slot, c)
                                     /\ sl = slot_map[c] /\ slot <= slot_map[c].end
    BY <2>1, FindNearest
  <2>3a. PICK k \in 1..Len(loaded) : \E e \in Range(loaded[k]) :
          /\ Origin(c, k, e) /\ e.beg = c /\ c <= slot /\ e.master \in Server
          /\ slot_map[c].end = e.end
    BY <1>1, <2>1, <2>2, NearestOrigin
  <2>3. PICK e \in Range(loaded[k]) :
          /\ Origin(c, k, e) /\ e.beg = c /\ c <= slot /\ e.master \in Server
          /\ slot_map[c].end = e.end
    BY <2>3a
  <2>4. e \in Covering(loaded[k], slot) /\ sl = SlotOfEntry(e)
    BY <2>2, <2>3 DEF Covering, Origin
  <2>5. ~\E f \in UNION {Range(loaded[j]) : j \in 1..(k - 1)} :
           f.beg = e.beg /\ IsValid(f)
    BY <2>3 DEF Origin
  <2>6. k \in DOMAIN loaded
    BY <2>1
  <2> QED  BY <2>4, <2>5, <2>6
<1>2. ASSUME Inv, NEW slot \in Slots, loaded # <<>>, pc # "add",
             Covering(loaded[Len(loaded)], slot) # {}, Find(slot_map, slot) = {}
      PROVE  \E k \in 1..(Len(loaded) - 1) : \E e \in Range(loaded[k]) :
               /\ e.end < slot /\ e.beg \in DOMAIN slot_map
               /\ slot_map[e.beg] = SlotOfEntry(e)
               /\ \E f \in Covering(loaded[Len(loaded)], slot) : f.beg <= e.beg
  <2> DEFINE n == Len(loaded)
  <2>1. slot \in Int /\ DOMAIN slot_map \subseteq Int /\ n \in 1..n /\ n \in Nat
    BY <1>2 DEF Inv, TypeInv, IsSlotMap
  <2>2. PICK f \in Covering(loaded[n], slot) : TRUE
    BY <1>2
  <2>3. /\ IsValid(f) /\ f \in Range(loaded[n]) /\ loaded[n] \in Views
        /\ f.beg \in Int /\ f.end \in Int /\ slot <= f.end
        /\ \E c \in DOMAIN slot_map : f.beg <= c /\ Nearest(DOMAIN slot_map, slot, c)
    BY <1>2, <2>1, <2>2, NearestOfCovered
  <2>4. PICK c \in DOMAIN slot_map : f.beg <= c /\ Nearest(DOMAIN slot_map, slot, c)
    BY <2>3
  <2>5a. PICK k \in 1..n : \E e \in Range(loaded[k]) :
          /\ Origin(c, k, e) /\ e.beg = c /\ c <= slot
          /\ e.beg \in Int /\ e.end \in Int /\ slot_map[c].end = e.end
          /\ e.beg <= e.end
    BY <1>2, <2>1, <2>4, NearestOrigin
  <2>5. PICK e \in Range(loaded[k]) :
          /\ Origin(c, k, e) /\ e.beg = c /\ c <= slot
          /\ e.beg \in Int /\ e.end \in Int /\ slot_map[c].end = e.end
          /\ e.beg <= e.end
    BY <2>5a
  <2>6. e.end < slot
    <3>1. ~(slot <= slot_map[c].end)
      BY <1>2, <2>1, <2>4, FindNearest
    <3> QED  BY <2>1, <2>5, <3>1
  <2>7. k # n
    <3> SUFFICES ASSUME k = n PROVE FALSE
      OBVIOUS
    <3>1. e.beg <= f.end /\ f.beg <= e.end
      BY <2>1, <2>3, <2>4, <2>5, <2>6
    <3>2. e = f
      BY <2>3, <2>5, <3>1, Overlap DEF Origin
    <3> QED  BY <2>1, <2>3, <2>6, <3>2
  <2>8. k \in 1..(n - 1)
    BY <2>1, <2>7
  <2> QED  BY <2>2, <2>4, <2>5, <2>6, <2>8 DEF Origin
<1>3. Inv => LookupsAreFromAnswers
  BY <1>1, <1>2 DEF LookupsAreFromAnswers
<1> QED  BY <1>3, Invariance, PTL

(* One load into an empty map: a slot is found in the range of the answer  *)
(* that covers it, and in no other (GetSlotFromServer, SlotMap::Find).     *)
THEOREM FreshLoad == Spec => []FreshLoadIsTheAnswer
<1>1. ASSUME Inv, Len(loaded) = 1, pc # "add", NEW slot \in Slots
      PROVE  Find(slot_map, slot)
               = {SlotOfEntry(e) : e \in Covering(loaded[1], slot)}
  <2>1. slot \in Int /\ DOMAIN slot_map \subseteq Int /\ 1 \in 1..Len(loaded)
    BY <1>1 DEF Inv, TypeInv, IsSlotMap
  <2>2. ASSUME NEW sl \in Find(slot_map, slot)
        PROVE  \E e \in Covering(loaded[1], slot) : sl = SlotOfEntry(e)
    <3>1. PICK c \in DOMAIN slot_map : /\ Nearest(DOMAIN slot_map, slot, c)
                                       /\ sl = slot_map[c]
                                       /\ slot <= slot_map[c].end
      BY <2>1, FindNearest
    <3>2a. PICK k \in 1..Len(loaded) : \E e \in Range(loaded[k]) :
            /\ Origin(c, k, e) /\ e.beg = c /\ c <= slot /\ e.master \in Server
            /\ slot_map[c].end = e.end
      BY <1>1, <2>1, <3>1, NearestOrigin
    <3>2. PICK e \in Range(loaded[k]) :
            /\ Origin(c, k, e) /\ e.beg = c /\ c <= slot /\ e.master \in Server
            /\ slot_map[c].end = e.end
      BY <3>2a
    <3>3. k = 1
      BY <1>1, <3>2
    <3> QED  BY <3>1, <3>2, <3>3 DEF Covering, Origin
  <2>3. ASSUME NEW e \in Covering(loaded[1], slot)
        PROVE  SlotOfEntry(e) \in Find(slot_map, slot)
    <3>1. /\ IsValid(e) /\ e \in Range(loaded[1]) /\ loaded[1] \in Views
          /\ e.beg \in Int /\ e.end \in Int /\ slot <= e.end
          /\ \E c \in DOMAIN slot_map :
               e.beg <= c /\ Nearest(DOMAIN slot_map, slot, c)
      BY <1>1, <2>1, NearestOfCovered
    <3>2. PICK c \in DOMAIN slot_map :
            e.beg <= c /\ Nearest(DOMAIN slot_map, slot, c)
      BY <3>1
    <3>3a. PICK k \in 1..Len(loaded) : \E g \in Range(loaded[k]) :
            /\ Origin(c, k, g) /\ g.beg = c /\ c <= slot
            /\ g.beg \in Int /\ g.end \in Int /\ g.beg <= g.end
      BY <1>1, <2>1, <3>2, NearestOrigin
    <3>3. PICK g \in Range(loaded[k]) :
            /\ Origin(c, k, g) /\ g.beg = c /\ c <= slot
            /\ g.beg \in Int /\ g.end \in Int /\ g.beg <= g.end
      BY <3>3a
    <3>4. k = 1
      BY <1>1, <3>3
    <3>5. e = g
      <4>1. e.beg <= g.end /\ g.beg <= e.end
        BY <2>1, <3>1, <3>2, <3>3
      <4> QED  BY <3>1, <3>3, <3>4, <4>1, Overlap DEF Origin
    <3>6. slot_map[c] = SlotOfEntry(e) /\ slot <= slot_map[c].end
      BY <3>1, <3>3, <3>5 DEF Origin, SlotOfEntry
    <3> QED  BY <2>1, <3>2, <3>6, FindNearest
  <2> QED  BY <2>2, <2>3
<1>2. Inv => FreshLoadIsTheAnswer
  BY <1>1 DEF FreshLoadIsTheAnswer
<1> QED  BY <1>2, Invariance, PTL

(* A Load that returns 0 has a channel for every server a look-up can      *)
(* name (SlotMap::InitChannel).                                            *)
THEOREM Connected == Spec => LoadedMeansConnected
<1>1. ASSUME [Next]_vars, pc = "init_channel", pc' = "idle", ret' = 0,
             NEW slot \in Slots, Find(slot_map', slot) # {}
      PROVE  FindRead(slot_map', slot, 1) \cup {FindWrite(slot_map', slot)}
               \subseteq channels'
  <2>1. Servers(slot_map) \subseteq channels /\ UNCHANGED <<slot_map, channels>>
    BY <1>1 DEF Next, vars, Reshard, Load, AllFailed, AddEntry, Added,
                InitChannelFails, InitChannelEnds, Clear, AskFails, AskSucceeds,
                Register
  <2> DEFINE sl == CHOOSE x \in Find(slot_map, slot) : TRUE
  <2>2. sl \in Find(slot_map, slot)
    BY <1>1, <2>1
  <2>3. PICK b \in DOMAIN slot_map : sl = slot_map[b]
    BY <2>2 DEF Find
  <2>4. {sl.master} \cup Range(sl.slaves) \subseteq Servers(slot_map)
    <3> HIDE DEF sl
    <3>1. {slot_map[b].master} \cup Range(slot_map[b].slaves) \subseteq Servers(slot_map)
      <4>1. {slot_map[b].master} \cup Range(slot_map[b].slaves)
              \in {{slot_map[x].master} \cup Range(slot_map[x].slaves) :
                     x \in DOMAIN slot_map}
        OBVIOUS
      <4> QED  BY <4>1 DEF Servers
    <3> QED  BY <2>3, <3>1
  <2>5. FindWrite(slot_map, slot) = sl.master
        /\ FindRead(slot_map, slot, 1) \subseteq {sl.master} \cup Range(sl.slaves)
    BY <1>1, <2>1 DEF FindWrite, FindRead
  <2> HIDE DEF sl
  <2> QED  BY <2>1, <2>4, <2>5
<1>2. [Next]_vars =>
        (pc = "init_channel" /\ pc' = "idle" /\ ret' = 0 =>
           \A slot \in Slots : Find(slot_map', slot) # {} =>
             FindRead(slot_map', slot, 1) \cup {FindWrite(slot_map', slot)}
               \subseteq channels')
  BY <1>1
<1> QED  BY <1>2, PTL DEF Spec, LoadedMeansConnected
===============================================================================
