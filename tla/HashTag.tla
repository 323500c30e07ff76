--------------------------------- MODULE HashTag ---------------------------------
(* Which bytes of a key decide its slot: keyHashSlot of                    *)
(* src/detail/hashslot.cpp, up to the CRC.  The function is pure; here a   *)
(* program makes a key longer byte by byte, as programs do that put names  *)
(* together, and asks for its slot after every byte.  Bytes are numbered   *)
(* from 1.                                                                 *)
EXTENDS Integers, Sequences

CONSTANTS
  Byte,   \* what keys are made of
  Open,   \* the byte {
  Close,  \* the byte }
  MaxLen  \* bound on the length of a key

ASSUME BraceAssumption == Open \in Byte /\ Close \in Byte /\ Open # Close

VARIABLE key

(* Where byte c is first found in k from position i on; one past the end   *)
(* when it is not there.                                                   *)
First(k, c, i) ==
  CHOOSE j \in i..(Len(k) + 1) :
    /\ \A n \in i..(j - 1) : k[n] # c
    /\ j <= Len(k) => k[j] = c

(* Mutants: the first } is taken wherever it is, or the last one. *)
CloseAnywhere(k) == First(k, Close, 1)
LastClose(k) ==
  CHOOSE j \in 1..(Len(k) + 1) :
    /\ j <= Len(k) => k[j] = Close
    /\ \A n \in 1..Len(k) : k[n] = Close => n <= j /\ j <= Len(k)

(* The indices s and e of keyHashSlot. *)
OpenAt(k) == First(k, Open, 1)
CloseAt(k) == First(k, Close, OpenAt(k) + 1)

(* There is a { with a } behind it, and something between them.            *)
Tagged(k) ==
  /\ OpenAt(k) <= Len(k)
  /\ CloseAt(k) <= Len(k)
  /\ CloseAt(k) # OpenAt(k) + 1

(* What is hashed: the tag, or all of a key without one.                   *)
HashedPart(k) ==
  IF Tagged(k) THEN SubSeq(k, OpenAt(k) + 1, CloseAt(k) - 1) ELSE k

KeyInit == key = <<>>

(* External: the program puts one more byte behind the key. *)
KeyExtend(b) ==
  /\ Len(key) < MaxLen
  /\ key' = Append(key, b)

KeyNext == \E b \in Byte : KeyExtend(b)

KeySpec == KeyInit /\ [][KeyNext]_key

-------------------------------------------------------------------------------
(* The comment over keyHashSlot, without searching: k has the pattern      *)
(* {...} when it is p{t}q with no { in p and no } in t; i and j are where  *)
(* the braces are.                                                         *)
Pattern(k, i, j) ==
  /\ i < j
  /\ k[i] = Open /\ \A n \in 1..(i - 1) : k[n] # Open
  /\ k[j] = Close /\ \A n \in (i + 1)..(j - 1) : k[n] # Close

(* The part between the braces of the first pattern is hashed, and all of  *)
(* a key that has none, or an empty one (a later pattern does not count).  *)
HashedByTag ==
  \/ \E i, j \in 1..Len(key) :
       /\ Pattern(key, i, j) /\ j > i + 1
       /\ HashedPart(key) = SubSeq(key, i + 1, j - 1)
  \/ /\ \A i, j \in 1..Len(key) : Pattern(key, i, j) => j = i + 1
     /\ HashedPart(key) = key

(* Keys that begin alike up to the end of a tag share their slot: once a   *)
(* key has a tag, no byte behind it changes what is hashed.                *)
TagSettles ==
  [][HashedPart(key) # key => HashedPart(key') = HashedPart(key)]_key
===============================================================================
