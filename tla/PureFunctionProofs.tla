--------------------------- MODULE PureFunctionProofs ---------------------------
(***************************************************************************)
(* Proofs about the pure functions: keyHashSlot (HashTag and HashSlot) for *)
(* keys of any length over any bytes, then Get (GetReply) for replies and  *)
(* types of any depth and any number of elements.                          *)
(***************************************************************************)
EXTENDS HashSlot, GetReply, SequenceTheorems, WellFoundedInduction, TLAPS

(* A set of natural numbers that is not empty has a least member.          *)
LEMMA Least ==
  ASSUME NEW T, T \subseteq Nat, T # {}
  PROVE  \E m \in T : \A n \in T : ~(n < m)
<1> DEFINE R == {p \in Nat \X Nat : p[1] < p[2]}
<1>1. R = OpToRel(<, Nat)
  BY DEF OpToRel
<1>2. IsWellFoundedOn(R, Nat)
  BY <1>1, NatLessThanWellFounded
<1>3. PICK m \in T : \A n \in T : <<n, m>> \notin R
  <2> HIDE DEF R
  <2> QED
    BY <1>2, WFMin
<1>4. ASSUME NEW n \in T PROVE ~(n < m)
  <2>1. n \in Nat /\ m \in Nat
    OBVIOUS
  <2>2. SUFFICES ASSUME n < m PROVE <<n, m>> \in R
    BY <1>3
  <2>3. <<n, m>> \in Nat \X Nat /\ <<n, m>>[1] = n /\ <<n, m>>[2] = m
    BY <2>1
  <2>4. QED
    BY <2>2, <2>3
<1>5. QED
  BY <1>4

(* What First finds: the first occurrence, or the place behind the end.    *)
IsFirst(k, c, i, j) ==
  /\ j \in i..(Len(k) + 1)
  /\ \A n \in i..(j - 1) : k[n] # c
  /\ j <= Len(k) => k[j] = c

LEMMA FirstIsFirst ==
  ASSUME NEW k \in Seq(Byte), NEW c, NEW i \in 1..(Len(k) + 1)
  PROVE  IsFirst(k, c, i, First(k, c, i))
<1> DEFINE T == {j \in i..(Len(k) + 1) : j <= Len(k) => k[j] = c}
<1>1. T \subseteq Nat /\ Len(k) + 1 \in T
  OBVIOUS
<1>2. PICK m \in T : \A n \in T : ~(n < m)
  <2> HIDE DEF T
  <2> QED
    BY <1>1, Least
<1>3. IsFirst(k, c, i, m)
  BY <1>2 DEF IsFirst
<1>4. QED
  BY <1>3 DEF IsFirst, First

LEMMA FirstIsUnique ==
  ASSUME NEW k \in Seq(Byte), NEW c, NEW i \in 1..(Len(k) + 1),
         NEW j, IsFirst(k, c, i, j)
  PROVE  First(k, c, i) = j
BY FirstIsFirst DEF IsFirst

(* Where the braces are. *)
LEMMA Braces ==
  ASSUME NEW k \in Seq(Byte)
  PROVE  /\ IsFirst(k, Open, 1, OpenAt(k))
         /\ OpenAt(k) <= Len(k) => IsFirst(k, Close, OpenAt(k) + 1, CloseAt(k))
<1>1. IsFirst(k, Open, 1, OpenAt(k))
  BY FirstIsFirst DEF OpenAt
<1>2. OpenAt(k) <= Len(k) => OpenAt(k) + 1 \in 1..(Len(k) + 1)
  BY <1>1 DEF IsFirst
<1>3. QED
  BY <1>1, <1>2, FirstIsFirst DEF CloseAt

-------------------------------------------------------------------------------
(* A pattern is the one that OpenAt and CloseAt find. *)
LEMMA PatternFound ==
  ASSUME NEW k \in Seq(Byte), NEW i \in 1..Len(k), NEW j \in 1..Len(k),
         Pattern(k, i, j)
  PROVE  OpenAt(k) = i /\ CloseAt(k) = j
<1>1. IsFirst(k, Open, 1, i)
  BY DEF IsFirst, Pattern
<1>2. OpenAt(k) = i
  BY <1>1, FirstIsUnique DEF OpenAt
<1>3. IsFirst(k, Close, i + 1, j)
  BY DEF IsFirst, Pattern
<1>4. QED
  BY <1>2, <1>3, FirstIsUnique DEF CloseAt

LEMMA TagIsPattern ==
  ASSUME NEW k \in Seq(Byte), Tagged(k)
  PROVE  /\ OpenAt(k) \in 1..Len(k) /\ CloseAt(k) \in 1..Len(k)
         /\ CloseAt(k) > OpenAt(k) + 1
         /\ Pattern(k, OpenAt(k), CloseAt(k))
BY Braces DEF Tagged, IsFirst, Pattern

(* The hashed part of every key is what the comment over keyHashSlot says. *)
LEMMA HashedPartOfKey == key \in Seq(Byte) => HashedByTag
<1> SUFFICES ASSUME key \in Seq(Byte) PROVE HashedByTag
  OBVIOUS
<1>1. CASE Tagged(key)
  BY <1>1, TagIsPattern DEF HashedByTag, HashedPart
<1>2. CASE ~Tagged(key)
  <2>1. ASSUME NEW i \in 1..Len(key), NEW j \in 1..Len(key), Pattern(key, i, j)
        PROVE  j = i + 1
    BY <1>2, <2>1, PatternFound DEF Tagged
  <2>2. QED
    BY <1>2, <2>1 DEF HashedByTag, HashedPart
<1>3. QED
  BY <1>1, <1>2

(* A byte behind a key with a tag leaves the tag where it is. *)
LEMMA TagStays ==
  ASSUME NEW k \in Seq(Byte), NEW b \in Byte, Tagged(k)
  PROVE  HashedPart(Append(k, b)) = HashedPart(k)
<1> DEFINE i == OpenAt(k)
           j == CloseAt(k)
           l == Append(k, b)
<1>1. /\ i \in 1..Len(k) /\ j \in 1..Len(k) /\ j > i + 1
      /\ Pattern(k, i, j)
  BY TagIsPattern
<1>2. /\ l \in Seq(Byte) /\ Len(l) = Len(k) + 1
      /\ \A n \in 1..Len(k) : l[n] = k[n]
  OBVIOUS
<1> HIDE DEF i, j, l
<1>3. Pattern(l, i, j)
  BY <1>1, <1>2 DEF Pattern
<1>4. OpenAt(l) = i /\ CloseAt(l) = j
  BY <1>1, <1>2, <1>3, PatternFound
<1>5. Tagged(l)
  BY <1>1, <1>2, <1>4 DEF Tagged
<1>6. SubSeq(l, i + 1, j - 1) = SubSeq(k, i + 1, j - 1)
  <2> DEFINE S == SubSeq(l, i + 1, j - 1)
             T == SubSeq(k, i + 1, j - 1)
  <2>1. \A n \in (i + 1)..(j - 1) : k[n] \in Byte /\ l[n] = k[n]
    BY <1>1, <1>2
  <2>2. /\ T \in Seq(Byte) /\ Len(T) = j - 1 - i
        /\ \A n \in 1..(j - 1 - i) : T[n] = k[i + n]
    BY <1>1, <2>1, SubSeqProperties
  <2>3. /\ S \in Seq(Byte) /\ Len(S) = j - 1 - i
        /\ \A n \in 1..(j - 1 - i) : S[n] = l[i + n]
    BY <1>1, <2>1, SubSeqProperties
  <2> HIDE DEF S, T
  <2>4. \A n \in 1..Len(S) : S[n] = T[n]
    <3> TAKE n \in 1..Len(S)
    <3>1. n \in 1..(j - 1 - i) /\ i + n \in (i + 1)..(j - 1)
      BY <1>1, <2>3
    <3>2. S[n] = l[i + n] /\ T[n] = k[i + n]
      BY <2>2, <2>3, <3>1
    <3>3. QED
      BY <2>1, <3>1, <3>2
  <2>5. S = T
    BY <2>2, <2>3, <2>4, SeqEqual
  <2>6. QED
    BY <2>5 DEF S, T
<1>7. QED
  BY <1>4, <1>5, <1>6 DEF HashedPart, i, j, l

-------------------------------------------------------------------------------
LEMMA KeyIsBytes == KeySpec => [](key \in Seq(Byte))
<1>1. KeyInit => key \in Seq(Byte)
  BY DEF KeyInit
<1>2. key \in Seq(Byte) /\ [KeyNext]_key => (key \in Seq(Byte))'
  BY DEF KeyNext, KeyExtend
<1>3. QED
  BY <1>1, <1>2, PTL DEF KeySpec

(* keyHashSlot hashes what its comment says, for every key: the part       *)
(* between the first { and the first } behind it, or all of the key.       *)
THEOREM TagIsHashed == KeySpec => []HashedByTag
BY KeyIsBytes, HashedPartOfKey, PTL

(* No byte behind a tag changes what is hashed, for every key.             *)
THEOREM TagIsFinal == KeySpec => TagSettles
<1>1. ASSUME key \in Seq(Byte), [KeyNext]_key
      PROVE  [HashedPart(key) # key => HashedPart(key') = HashedPart(key)]_key
  <2>1. CASE UNCHANGED key
    BY <2>1
  <2>2. ASSUME NEW b \in Byte, KeyExtend(b), HashedPart(key) # key
        PROVE  HashedPart(key') = HashedPart(key)
    <3>1. Tagged(key)
      BY <2>2 DEF HashedPart
    <3>2. QED
      BY <1>1, <2>2, <3>1, TagStays DEF KeyExtend
  <2>3. QED
    BY <1>1, <2>1, <2>2 DEF KeyNext
<1>2. QED
  BY <1>1, KeyIsBytes, PTL DEF KeySpec, TagSettles

-------------------------------------------------------------------------------
(* The CRC.  Shift is linear, so shifting a byte out of the register       *)
(* leaves the sum of what becomes of that byte, which is in the table, and *)
(* of the byte below it, which has only moved.                             *)

Words == SUBSET (0..15)

LEMMA WordsClosed ==
  /\ \A n : Word(n) \in Words
  /\ \A w \in Words, n \in Nat : Left(w, n) \in Words /\ Right(w, n) \in Words
  /\ \A v, w \in Words : SymDiff(v, w) \in Words
BY DEF Words, Word, Left, Right, SymDiff

LEMMA ShiftClosed == \A w \in Words : Shift(w) \in Words
<1>1. {12, 5, 0} \in Words
  BY DEF Words
<1>2. \A w \in Words : Left(w, 1) \in Words
  BY WordsClosed
<1> QED  BY <1>1, <1>2, WordsClosed DEF Shift

LEMMA ShiftSum ==
  ASSUME NEW v \in Words, NEW w \in Words
  PROVE  Shift(SymDiff(v, w)) = SymDiff(Shift(v), Shift(w))
<1>1. Left(SymDiff(v, w), 1) = SymDiff(Left(v, 1), Left(w, 1))
  BY DEF Left, SymDiff
<1>2. 15 \in SymDiff(v, w) <=> ~(15 \in v <=> 15 \in w)
  BY DEF SymDiff
<1>3. CASE 15 \in v /\ 15 \in w
  BY <1>1, <1>2, <1>3 DEF Shift, SymDiff
<1>4. CASE 15 \in v /\ 15 \notin w
  BY <1>1, <1>2, <1>4 DEF Shift, SymDiff
<1>5. CASE 15 \notin v /\ 15 \in w
  BY <1>1, <1>2, <1>5 DEF Shift, SymDiff
<1>6. CASE 15 \notin v /\ 15 \notin w
  BY <1>1, <1>2, <1>6 DEF Shift
<1> QED  BY <1>3, <1>4, <1>5, <1>6

LEMMA ShiftByteSum ==
  ASSUME NEW v \in Words, NEW w \in Words
  PROVE  /\ ShiftByte(SymDiff(v, w)) = SymDiff(ShiftByte(v), ShiftByte(w))
         /\ ShiftByte(v) \in Words
<1> DEFINE A1 == Shift(v)  B1 == Shift(w)  A2 == Shift(A1)  B2 == Shift(B1)
           A3 == Shift(A2)  B3 == Shift(B2)  A4 == Shift(A3)  B4 == Shift(B3)
           A5 == Shift(A4)  B5 == Shift(B4)  A6 == Shift(A5)  B6 == Shift(B5)
           A7 == Shift(A6)  B7 == Shift(B6)  A8 == Shift(A7)  B8 == Shift(B7)
<1>1. A1 \in Words /\ B1 \in Words /\ Shift(SymDiff(v, w)) = SymDiff(A1, B1)
  BY ShiftClosed, ShiftSum
<1> HIDE DEF A1, B1
<1>2. A2 \in Words /\ B2 \in Words /\ Shift(SymDiff(A1, B1)) = SymDiff(A2, B2)
  BY <1>1, ShiftClosed, ShiftSum
<1> HIDE DEF A2, B2
<1>3. A3 \in Words /\ B3 \in Words /\ Shift(SymDiff(A2, B2)) = SymDiff(A3, B3)
  BY <1>2, ShiftClosed, ShiftSum
<1> HIDE DEF A3, B3
<1>4. A4 \in Words /\ B4 \in Words /\ Shift(SymDiff(A3, B3)) = SymDiff(A4, B4)
  BY <1>3, ShiftClosed, ShiftSum
<1> HIDE DEF A4, B4
<1>5. A5 \in Words /\ B5 \in Words /\ Shift(SymDiff(A4, B4)) = SymDiff(A5, B5)
  BY <1>4, ShiftClosed, ShiftSum
<1> HIDE DEF A5, B5
<1>6. A6 \in Words /\ B6 \in Words /\ Shift(SymDiff(A5, B5)) = SymDiff(A6, B6)
  BY <1>5, ShiftClosed, ShiftSum
<1> HIDE DEF A6, B6
<1>7. A7 \in Words /\ B7 \in Words /\ Shift(SymDiff(A6, B6)) = SymDiff(A7, B7)
  BY <1>6, ShiftClosed, ShiftSum
<1> HIDE DEF A7, B7
<1>8. A8 \in Words /\ B8 \in Words /\ Shift(SymDiff(A7, B7)) = SymDiff(A8, B8)
  BY <1>7, ShiftClosed, ShiftSum
<1>9. ShiftByte(v) = A8 /\ ShiftByte(w) = B8
  BY DEF ShiftByte, A7, A6, A5, A4, A3, A2, A1, B7, B6, B5, B4, B3, B2, B1
<1> HIDE DEF A8, B8
<1>10. ShiftByte(SymDiff(v, w)) = SymDiff(A8, B8)
  BY <1>1, <1>2, <1>3, <1>4, <1>5, <1>6, <1>7, <1>8 DEF ShiftByte
<1> QED  BY <1>8, <1>9, <1>10

(* A bit that is not shifted out moves. *)
LEMMA ShiftMoves ==
  ASSUME NEW w \in Words, 15 \notin w
  PROVE  Shift(w) = Left(w, 1)
BY DEF Shift

LEMMA LeftLeft ==
  ASSUME NEW w \in Words, NEW n \in 0..7
  PROVE  Left(Left(w, n), 1) = Left(w, n + 1)
BY DEF Left, Words

LEMMA ShiftByteMoves ==
  ASSUME NEW w \in SUBSET (0..7)
  PROVE  ShiftByte(w) = Left(w, 8)
<1>1. w = Left(w, 0)
  <2>1. \A i : i \in w => i \in 0..15 /\ i - 0 = i
    OBVIOUS
  <2> QED  BY <2>1 DEF Left
<1>2. ASSUME NEW n \in 0..7 PROVE Shift(Left(w, n)) = Left(w, n + 1)
  <2>1. Left(w, n) \in Words /\ 15 \notin Left(w, n) /\ w \in Words
    BY DEF Left, Words
  <2> QED  BY <2>1, ShiftMoves, LeftLeft
<1>3. /\ Shift(Left(w, 0)) = Left(w, 1) /\ Shift(Left(w, 1)) = Left(w, 2)
      /\ Shift(Left(w, 2)) = Left(w, 3) /\ Shift(Left(w, 3)) = Left(w, 4)
      /\ Shift(Left(w, 4)) = Left(w, 5) /\ Shift(Left(w, 5)) = Left(w, 6)
      /\ Shift(Left(w, 6)) = Left(w, 7) /\ Shift(Left(w, 7)) = Left(w, 8)
  BY <1>2
<1> QED  BY <1>1, <1>3 DEF ShiftByte

(* One round over the table divides by one byte. *)
LEMMA RoundDivides ==
  ASSUME NEW crc \in Words, NEW c
  PROVE  AddByte(crc, c) = Divide(crc, c) /\ Divide(crc, c) \in Words
<1> DEFINE index == LowByte(SymDiff(Right(crc, 8), Word(c)))
           low == LowByte(crc)
<1>1. index \in SUBSET (0..7) /\ low \in SUBSET (0..7)
  BY DEF LowByte
<1>2. SymDiff(crc, Left(Word(c), 8)) = SymDiff(low, Left(index, 8))
  <2>1. Word(c) \in Words
    BY WordsClosed
  <2> DEFINE L == SymDiff(crc, Left(Word(c), 8))
             R == SymDiff(low, Left(index, 8))
  <2>2. ASSUME NEW i \in 0..7 PROVE i \in L <=> i \in R
    BY DEF SymDiff, Left, LowByte
  <2>3. ASSUME NEW i \in 8..15 PROVE i \in L <=> i \in R
    <3>1. i - 8 \in 0..7 /\ (i - 8) + 8 = i /\ i \notin low
      BY DEF LowByte
    <3>2. i - 8 \in index <=> ~(i \in crc <=> i - 8 \in Word(c))
      BY <2>1, <3>1 DEF SymDiff, Right, LowByte, Words
    <3>3. i \in Left(Word(c), 8) <=> i - 8 \in Word(c)
      BY DEF Left
    <3>4. i \in Left(index, 8) <=> i - 8 \in index
      <4> HIDE DEF index
      <4> QED  BY DEF Left
    <3> HIDE DEF index, low
    <3> QED  BY <3>1, <3>2, <3>3, <3>4 DEF SymDiff
  <2>4. L \subseteq 0..15 /\ R \subseteq 0..15
    <3>1. Left(Word(c), 8) \in Words /\ Left(index, 8) \in Words /\ low \in Words
      BY DEF Left, LowByte, Words
    <3> HIDE DEF index, low
    <3> QED  BY <3>1, WordsClosed DEF Words
  <2> HIDE DEF L, R
  <2>5. \A i \in 0..15 : i \in L <=> i \in R
    <3> TAKE i \in 0..15
    <3>1. i \in 0..7 \/ i \in 8..15
      OBVIOUS
    <3> QED  BY <2>2, <2>3, <3>1
  <2>6. L = R
    BY <2>4, <2>5
  <2> QED  BY <2>6 DEF L, R
<1>3. Left(crc, 8) = Left(low, 8)
  BY DEF Left, LowByte, Words
<1>4. low \in Words /\ Left(index, 8) \in Words
  BY <1>1 DEF Words, Left
<1>5. AddByte(crc, c) = SymDiff(Left(crc, 8), Word(crc16tab[Number(index) + 1]))
  BY DEF AddByte
<1>6. Divide(crc, c) = ShiftByte(SymDiff(crc, Left(Word(c), 8)))
  BY DEF Divide
<1> HIDE DEF index, low
<1>7. Word(crc16tab[Number(index) + 1]) = ShiftByte(Left(index, 8))
  BY <1>1, TableAssumption
<1>8. /\ ShiftByte(SymDiff(low, Left(index, 8)))
           = SymDiff(ShiftByte(low), ShiftByte(Left(index, 8)))
      /\ ShiftByte(low) \in Words /\ ShiftByte(Left(index, 8)) \in Words
  BY <1>4, ShiftByteSum
<1>9. ShiftByte(low) = Left(low, 8)
  BY <1>1, ShiftByteMoves
<1> QED  BY <1>2, <1>3, <1>5, <1>6, <1>7, <1>8, <1>9, WordsClosed

(* The loop of crc16 and the division, as functions of how far they are.   *)
CrcLoop(crc, buf) ==
  crc = [counter \in 0..Len(buf) |->
           IF counter = 0 THEN {} ELSE AddByte(crc[counter - 1], buf[counter])]
XmodemLoop(reg, bytes) ==
  reg = [n \in 0..Len(bytes) |-> IF n = 0 THEN {} ELSE Divide(reg[n - 1], bytes[n])]

(* What both are, up to byte m. *)
Divides(f, buf, m) ==
  /\ f \in [0..m -> Words] /\ f[0] = {}
  /\ \A n \in 1..m : f[n] = Divide(f[n - 1], buf[n])

LEMMA DivisionExists ==
  ASSUME NEW buf, NEW m \in Nat
  PROVE  \E f : Divides(f, buf, m)
<1> DEFINE T == {n \in Nat : ~ \E f : Divides(f, buf, n)}
<1>1. SUFFICES ASSUME T # {} PROVE FALSE
  OBVIOUS
<1>2. PICK n \in T : \A l \in T : ~(l < n)
  <2>1. T \subseteq Nat
    OBVIOUS
  <2> HIDE DEF T
  <2> QED  BY <1>1, <2>1, Least
<1>3. CASE n = 0
  <2> DEFINE f == [i \in 0..0 |-> {}]
  <2>1. Divides(f, buf, 0)
    BY DEF Divides, Words
  <2> QED  BY <1>2, <1>3, <2>1
<1>4. CASE n # 0
  <2>1. n \in Nat /\ n - 1 \in Nat /\ n - 1 \notin T
    BY <1>2, <1>4
  <2>2. PICK f : Divides(f, buf, n - 1)
    BY <2>1
  <2> DEFINE g == [i \in 0..n |-> IF i = n THEN Divide(f[n - 1], buf[n]) ELSE f[i]]
  <2>3. f[n - 1] \in Words
    BY <2>1, <2>2 DEF Divides
  <2>4. Divide(f[n - 1], buf[n]) \in Words
    BY <2>3, RoundDivides
  <2>5. g \in [0..n -> Words]
    <3> SUFFICES ASSUME NEW i \in 0..n
                 PROVE  (IF i = n THEN Divide(f[n - 1], buf[n]) ELSE f[i]) \in Words
      OBVIOUS
    <3>1. i # n => i \in 0..(n - 1)
      BY <2>1
    <3> QED  BY <2>2, <2>4, <3>1 DEF Divides
  <2>6. g[0] = {}
    BY <1>4, <2>1, <2>2 DEF Divides
  <2>7. ASSUME NEW i \in 1..n PROVE g[i] = Divide(g[i - 1], buf[i])
    <3>1. i \in 0..n /\ i - 1 \in 0..n /\ i - 1 # n
      BY <2>1
    <3>2. g[i - 1] = f[i - 1]
      BY <3>1
    <3>3. CASE i = n
      BY <3>1, <3>2, <3>3
    <3>4. CASE i # n
      <4>1. i \in 1..(n - 1) /\ g[i] = f[i]
        BY <2>1, <3>1, <3>4
      <4> HIDE DEF g
      <4> QED  BY <2>2, <3>2, <4>1 DEF Divides
    <3> QED  BY <3>3, <3>4
  <2>8. Divides(g, buf, n)
    <3> HIDE DEF g
    <3> QED  BY <2>5, <2>6, <2>7 DEF Divides
  <2> QED  BY <1>2, <2>8
<1> QED  BY <1>3, <1>4

(* There is one division: what is computed as it is computed is equal.     *)
LEMMA DivisionUnique ==
  ASSUME NEW buf, NEW m \in Nat, NEW f, Divides(f, buf, m),
         NEW g, g[0] = {}, \A n \in 1..m : \/ g[n] = AddByte(g[n - 1], buf[n])
                                           \/ g[n] = Divide(g[n - 1], buf[n])
  PROVE  g[m] = f[m]
<1> DEFINE T == {n \in 0..m : g[n] # f[n]}
<1>1. SUFFICES ASSUME T # {} PROVE FALSE
  OBVIOUS
<1>2. PICK n \in T : \A l \in T : ~(l < n)
  <2>1. T \subseteq Nat
    OBVIOUS
  <2> HIDE DEF T
  <2> QED  BY <1>1, <2>1, Least
<1>3. n # 0
  BY <1>2 DEF Divides
<1>4. n \in 1..m /\ n - 1 \in 0..m /\ n - 1 \notin T
  BY <1>2, <1>3
<1>5. g[n - 1] = f[n - 1] /\ f[n - 1] \in Words
  BY <1>4 DEF Divides
<1>6. f[n] = Divide(f[n - 1], buf[n])
  BY <1>4 DEF Divides
<1>7. g[n] = f[n]
  BY <1>4, <1>5, <1>6, RoundDivides
<1> QED  BY <1>2, <1>7

(* crc16 is the division, for bytes of any number. *)
LEMMA CrcDivides ==
  ASSUME NEW S, NEW buf \in Seq(S)
  PROVE  crc16(buf) = Xmodem(buf) /\ Xmodem(buf) \in Words
<1> DEFINE m == Len(buf)
           crc == CHOOSE c : CrcLoop(c, buf)
           reg == CHOOSE r : XmodemLoop(r, buf)
<1>1. m \in Nat
  OBVIOUS
<1>2. crc16(buf) = crc[m] /\ Xmodem(buf) = reg[m]
  BY Zenon DEF crc16, Xmodem, CrcLoop, XmodemLoop
<1> HIDE DEF crc, reg
<1>3. PICK f : Divides(f, buf, m)
  BY <1>1, DivisionExists
<1>4. f = [n \in 0..m |-> f[n]]
  BY <1>3 DEF Divides
<1>5. \A n \in 0..m : f[n] = IF n = 0 THEN {} ELSE Divide(f[n - 1], buf[n])
  BY <1>1, <1>3 DEF Divides
<1>6. \A n \in 0..m : f[n] = IF n = 0 THEN {} ELSE AddByte(f[n - 1], buf[n])
  <2> TAKE n \in 0..m
  <2>1. n # 0 => f[n - 1] \in Words
    BY <1>1, <1>3 DEF Divides
  <2> QED  BY <1>5, <2>1, RoundDivides
<1>7. CrcLoop(f, buf) /\ XmodemLoop(f, buf)
  BY <1>4, <1>5, <1>6 DEF CrcLoop, XmodemLoop
<1>8. CrcLoop(crc, buf)
  BY <1>7 DEF crc
<1>9. XmodemLoop(reg, buf)
  BY <1>7 DEF reg
<1>10. crc[0] = {} /\ \A n \in 1..m : crc[n] = AddByte(crc[n - 1], buf[n])
  <2>1. \A n \in 0..m : crc[n] = IF n = 0 THEN {} ELSE AddByte(crc[n - 1], buf[n])
    BY <1>8, Zenon DEF CrcLoop
  <2>2. 0 \in 0..m /\ \A n \in 1..m : n \in 0..m /\ n # 0
    BY <1>1
  <2> HIDE DEF m
  <2> QED  BY <2>1, <2>2
<1>11. reg[0] = {} /\ \A n \in 1..m : reg[n] = Divide(reg[n - 1], buf[n])
  <2>1. \A n \in 0..m : reg[n] = IF n = 0 THEN {} ELSE Divide(reg[n - 1], buf[n])
    BY <1>9, Zenon DEF XmodemLoop
  <2>2. 0 \in 0..m /\ \A n \in 1..m : n \in 0..m /\ n # 0
    BY <1>1
  <2> HIDE DEF m
  <2> QED  BY <2>1, <2>2
<1>12. crc[m] = f[m]
  BY <1>1, <1>3, <1>10, DivisionUnique
<1>13. reg[m] = f[m]
  BY <1>1, <1>3, <1>11, DivisionUnique
<1>14. f[m] \in Words
  BY <1>1, <1>3 DEF Divides
<1> QED  BY <1>2, <1>12, <1>13, <1>14

(* The slot that is computed over the table is that of the XMODEM CRC, for *)
(* keys of any length over any chars.                                      *)
THEOREM SlotIsXmodem == KeySpec => []CrcIsXmodem
<1>1. key \in Seq(Byte) => CrcIsXmodem
  <2> SUFFICES ASSUME key \in Seq(Byte) PROVE CrcIsXmodem
    OBVIOUS
  <2>1. \A bytes \in Others : crc16(bytes) = Xmodem(bytes)
    BY CharAssumption, CrcDivides
  <2>2. HashedPart(key) \in Seq(Byte)
    BY TagIsPattern, SubSeqProperties DEF HashedPart
  <2>3. crc16(HashedPart(key)) = Xmodem(HashedPart(key))
    BY <2>2, CrcDivides
  <2>4. Xmodem(HashedPart(key)) \cap 0..13
          = {i \in Xmodem(HashedPart(key)) : i < 14}
    BY <2>2, CrcDivides DEF Words
  <2> QED  BY <2>1, <2>3, <2>4 DEF CrcIsXmodem, keyHashSlot, LowBits
<1> QED  BY <1>1, KeyIsBytes, PTL

-------------------------------------------------------------------------------
(* What the overloads for the type T give, when those for its components   *)
(* are conv.                                                               *)
Body(conv, T) == [r \in Replies |-> Overload(conv, r, T)]

-------------------------------------------------------------------------------
(* Convert is well-defined: a type is a tree.                              *)

LEMMA ElementTypes ==
  ASSUME NEW T \in Types, NEW i
  PROVE  /\ T.kind \in {"vector", "set", "map"} => ElementType(T, i) \in Components(T)
         /\ T.kind = "tuple" /\ i \in DOMAIN T.each
              => T.each[i] \in Components(T) /\ ElementType(T, i) = T.each[i]
BY TypeAssumption DEF Components, ElementType, Range

(* An overload calls those of the components only. *)
LEMMA CallsComponents ==
  ASSUME NEW T \in Types, NEW f, NEW g, \A U \in Components(T) : f[U] = g[U]
  PROVE  Body(f, T) = Body(g, T)
<1> SUFFICES ASSUME NEW r \in Replies
             PROVE  Overload(f, r, T) = Overload(g, r, T)
  BY Zenon DEF Body
<1>1. CASE T.kind = "tuple"
  <2>1. [i \in DOMAIN T.each |-> f[T.each[i]][Part(r, i)]]
          = [i \in DOMAIN T.each |-> g[T.each[i]][Part(r, i)]]
    BY <1>1, ElementTypes
  <2> QED  BY <1>1, <2>1 DEF Overload
<1>2. CASE T.kind \in {"vector", "set", "map"}
  <2>1. [i \in DOMAIN Elements(r) |-> f[ElementType(T, i)][Elements(r)[i]]]
          = [i \in DOMAIN Elements(r) |-> g[ElementType(T, i)][Elements(r)[i]]]
    BY <1>2, ElementTypes
  <2> QED  BY <1>2, <2>1 DEF Overload
<1>3. CASE T.kind \in {"number", "byte", "string", "string_view"}
  BY <1>3 DEF Overload
<1> QED  BY <1>1, <1>2, <1>3, TypeAssumption

(* f is what the overloads say, for the types in D. *)
Solves(f, D) == f = [T \in D |-> Body(f, T)]

LEMMA LeastType ==
  ASSUME NEW S \in SUBSET Types, S # {}
  PROVE  \E T \in S : Components(T) \cap S = {}
BY TypeAssumption

LEMMA SolutionsAgree ==
  ASSUME NEW D \in ClosedTypes, NEW E \in ClosedTypes, NEW f, NEW g,
         Solves(f, D), Solves(g, E), NEW T \in D \cap E
  PROVE  f[T] = g[T]
<1> DEFINE Differ == {U \in D \cap E : f[U] # g[U]}
<1>1. SUFFICES ASSUME Differ # {} PROVE FALSE
  OBVIOUS
<1>2. D \subseteq Types /\ E \subseteq Types
  BY DEF ClosedTypes
<1>3. PICK U \in Differ : Components(U) \cap Differ = {}
  <2>1. Differ \in SUBSET Types
    BY <1>2
  <2> HIDE DEF Differ
  <2> QED  BY <1>1, <2>1, LeastType
<1>4. \A V \in Components(U) : f[V] = g[V]
  BY <1>3 DEF ClosedTypes
<1>5. Body(f, U) = Body(g, U)
  BY <1>2, <1>4, CallsComponents
<1>6. f[U] = Body(f, U) /\ g[U] = Body(g, U)
  BY Zenon DEF Solves
<1> QED  BY <1>5, <1>6

LEMMA SolutionExists == \E f : Solves(f, Types)
<1> DEFINE Solved == {D \in ClosedTypes : \E f : Solves(f, D)}
           Known == UNION Solved
           Is(v, T) == \E D \in ClosedTypes : \E f :
                          Solves(f, D) /\ T \in D /\ v = f[T]
           G == [T \in Known |-> CHOOSE v : Is(v, T)]
<1>1. Known \in ClosedTypes
  BY DEF ClosedTypes
<1>2. ASSUME NEW D \in ClosedTypes, NEW f, Solves(f, D), NEW T \in D
      PROVE  T \in Known /\ G[T] = f[T]
  <2>1. T \in Known /\ Is(f[T], T)
    BY <1>2
  <2>2. \A v : Is(v, T) => v = f[T]
    BY <1>2, SolutionsAgree
  <2>3. (CHOOSE v : Is(v, T)) = f[T]
    <3> HIDE DEF Is
    <3> QED  BY <2>1, <2>2
  <2> HIDE DEF Known, Is
  <2> QED  BY <2>1, <2>3
<1>3. Solves(G, Known)
  <2>1. ASSUME NEW T \in Known PROVE G[T] = Body(G, T)
    <3>0. PICK D \in ClosedTypes : T \in D /\ \E f : Solves(f, D)
      OBVIOUS
    <3>1. PICK f : Solves(f, D) /\ T \in D
      BY <3>0
    <3>2. T \in Types /\ Components(T) \subseteq D
      BY <3>1 DEF ClosedTypes
    <3>3. \A U \in Components(T) : G[U] = f[U]
      <4> HIDE DEF G, Known
      <4> QED  BY <1>2, <3>1, <3>2
    <3>4. Body(G, T) = Body(f, T)
      <4> HIDE DEF G, Known
      <4> QED  BY <3>2, <3>3, CallsComponents
    <3>5. f[T] = Body(f, T)
      BY <3>1, Zenon DEF Solves
    <3>6. G[T] = f[T]
      <4> HIDE DEF G, Known
      <4> QED  BY <1>2, <3>1
    <3> HIDE DEF G, Known
    <3> QED  BY <3>4, <3>5, <3>6
  <2> DEFINE H == [T \in Known |-> Body(G, T)]
  <2>2. G = H
    <3>1. \A T \in Known : G[T] = H[T]
      <4> HIDE DEF Known, G
      <4> QED  BY <2>1
    <3>2. DOMAIN G = Known /\ DOMAIN H = Known /\ G = [T \in Known |-> G[T]]
             /\ H = [T \in Known |-> H[T]]
      <4> HIDE DEF Known, Is
      <4> QED  OBVIOUS
    <3> HIDE DEF G, H, Known
    <3> QED  BY <3>1, <3>2
  <2> HIDE DEF G, Known
  <2> QED  BY <2>2 DEF Solves
<1> HIDE DEF G
<1>4. ASSUME Known # Types PROVE FALSE
  <2>1. Known \subseteq Types
    BY <1>1 DEF ClosedTypes
  <2>2. PICK T \in Types \ Known : Components(T) \cap (Types \ Known) = {}
    <3> HIDE DEF Known
    <3> QED  BY <1>4, <2>1, LeastType
  <2>3. Components(T) \subseteq Known
    <3> HIDE DEF Known
    <3> QED  BY <2>2, TypeAssumption
  <2> DEFINE E == Known \cup {T}
             h == [U \in E |-> IF U = T THEN Body(G, T) ELSE G[U]]
  <2>4. E \in ClosedTypes
    <3> HIDE DEF Known
    <3> QED  BY <1>1, <2>2, <2>3 DEF ClosedTypes
  <2>5. ASSUME NEW U \in E PROVE h[U] = Body(h, U)
    <3> HIDE DEF Known
    <3>1. U \in Types /\ Components(U) \subseteq Known
      BY <2>1, <2>2, <2>3, <1>1 DEF ClosedTypes
    <3>2. \A V \in Components(U) : h[V] = G[V]
      BY <3>1, <2>2
    <3>3. Body(h, U) = Body(G, U)
      <4> HIDE DEF h
      <4> QED  BY <3>1, <3>2, CallsComponents
    <3>4. CASE U = T
      BY <3>3, <3>4
    <3>5. CASE U # T
      <4>1. U \in Known
        BY <3>5
      <4>2. G[U] = Body(G, U)
        BY <1>3, <4>1, Zenon DEF Solves
      <4>3. h[U] = G[U]
        BY <3>5
      <4> QED  BY <3>3, <4>2, <4>3
    <3> QED  BY <3>4, <3>5
  <2>6. Solves(h, E)
    <3> DEFINE H == [U \in E |-> Body(h, U)]
    <3>1. \A U \in E : h[U] = H[U]
      <4> HIDE DEF E, h
      <4> QED  BY <2>5
    <3>2. h = [U \in E |-> h[U]] /\ H = [U \in E |-> H[U]]
      <4> HIDE DEF E
      <4> QED  OBVIOUS
    <3>3. h = H
      <4> HIDE DEF h, H, E
      <4> QED  BY <3>1, <3>2
    <3> HIDE DEF h, E
    <3> QED  BY <3>3 DEF Solves
  <2>7. T \in Known
    <3> HIDE DEF h
    <3> QED  BY <2>4, <2>6
  <2> QED  BY <2>2, <2>7
<1> QED  BY <1>3, <1>4

(* For every type, at any depth, Convert gives what the overload for that  *)
(* type gives, and the overloads of its components are Convert.            *)
THEOREM Unfolds ==
  \A T \in Types, r \in Replies : Convert[T][r] = GetAs(r, T)
<1>1. Convert = CHOOSE f : Solves(f, Types)
  BY Zenon DEF Convert, Solves, Body
<1>2. Solves(Convert, Types)
  BY <1>1, SolutionExists, Zenon
<1>3. \A T \in Types : Convert[T] = Body(Convert, T)
  BY <1>2, Zenon DEF Solves
<1> QED  BY <1>3, Zenon DEF Body, GetAs

-------------------------------------------------------------------------------
(* Lemmas on one conversion. *)

(* What a server answers, and what Get is asked for. *)
IsReply(r) ==
  /\ r.type \in {"string", "integer", "nil", "status", "error", "array"}
  /\ r.type = "array" => r.elems \in Seq(Replies)

LEMMA RepliesAreReplies == \A r \in Replies : IsReply(r)
BY ReplyAssumption DEF IsReply

LEMMA LeastNatural ==
  ASSUME NEW S, S \subseteq Nat, S # {}
  PROVE  Min(S) \in S /\ \A n \in S : Min(S) <= n
<1>1. PICK m \in S : \A n \in S : ~(n < m)
  BY Least
<1>2. m \in Nat /\ \A n \in S : n \in Nat /\ m <= n
  BY <1>1
<1> QED  BY <1>2 DEF Min

LEMMA Outcomes ==
  /\ \A v : Returned(Value(v)) /\ Value(v).val = v
  /\ \A w : ~Returned(Throw(w))
BY DEF Returned, Value, Throw

(* A container is returned when every element is. *)
LEMMA CollectedAll ==
  ASSUME NEW kind, NEW n \in Nat, NEW out, DOMAIN out = 1..n
  PROVE  /\ Returned(Collected(kind, out)) <=> \A i \in 1..n : Returned(out[i])
         /\ Returned(Collected(kind, out)) =>
              Collected(kind, out) = Value(Filled(kind, [i \in 1..n |-> out[i].val]))
<1> DEFINE bad == {i \in DOMAIN out : ~Returned(out[i])}
<1>1. CASE bad = {}
  <2>1. Collected(kind, out) = Value(Filled(kind, [i \in 1..n |-> out[i].val]))
    BY <1>1 DEF Collected
  <2> QED  BY <1>1, <2>1, Outcomes
<1>2. CASE bad # {}
  <2>1. Collected(kind, out) = out[Min(bad)]
    BY <1>2 DEF Collected
  <2>2. bad \subseteq Nat
    OBVIOUS
  <2>3. Min(bad) \in bad
    <3> HIDE DEF bad
    <3> QED  BY <1>2, <2>2, LeastNatural
  <2> QED  BY <2>1, <2>3
<1> QED  BY <1>1, <1>2

(* What a scalar type gives is a value or an exception. *)
LEMMA ScalarValues ==
  ASSUME NEW r, IsReply(r), NEW T, T.kind \in {"number", "byte", "string", "string_view"},
         Returned(GetAs(r, T))
  PROVE  GetAs(r, T) = Value(GetAs(r, T).val)
<1>1. Returned(ToNumber(r)) => ToNumber(r) = Value(ToNumber(r).val)
  BY Outcomes DEF ToNumber, IsReply
<1>2. Returned(ToByte(r)) => ToByte(r) = Value(ToByte(r).val)
  BY <1>1, Outcomes DEF ToByte, IsReply
<1>3. Returned(ToText(r)) => ToText(r) = Value(ToText(r).val)
  BY Outcomes DEF ToText, IsReply
<1>4. Returned(ToView(r)) => ToView(r) = Value(ToView(r).val)
  BY <1>3, Outcomes DEF ToView, IsReply
<1> QED  BY <1>1, <1>2, <1>3, <1>4 DEF GetAs, Overload

(* A vector, a set or a map from an array. *)
IsContainer(T) == T.kind \in {"vector", "set", "map"}
ElementOutcome(r, T, i) == Convert[ElementType(T, i)][r.elems[i]]

LEMMA ContainerOfArray ==
  ASSUME NEW T \in Types, IsContainer(T), NEW r, IsReply(r), r.type = "array"
  PROVE  /\ Returned(GetAs(r, T)) <=>
              /\ T.kind = "map" => Len(r.elems) % 2 = 0
              /\ \A i \in 1..Len(r.elems) : Returned(ElementOutcome(r, T, i))
         /\ Returned(GetAs(r, T)) =>
              GetAs(r, T) = Value(Filled(T.kind,
                              [i \in 1..Len(r.elems) |-> ElementOutcome(r, T, i).val]))
<1> DEFINE n == Len(r.elems)
           out == [i \in 1..n |-> ElementOutcome(r, T, i)]
<1>1. n \in Nat /\ DOMAIN r.elems = 1..n
  BY DEF IsReply
<1>2. GetAs(r, T) = IF T.kind = "map" /\ n % 2 # 0 THEN Throw("invalid_argument")
                    ELSE Collected(T.kind, out)
  BY <1>1 DEF GetAs, Overload, IsContainer, Elements, ElementOutcome
<1>3. /\ Returned(Collected(T.kind, out)) <=> \A i \in 1..n : Returned(out[i])
      /\ Returned(Collected(T.kind, out)) =>
           Collected(T.kind, out) = Value(Filled(T.kind, [i \in 1..n |-> out[i].val]))
  <2>1. DOMAIN out = 1..n
    OBVIOUS
  <2> HIDE DEF out, n
  <2> QED  BY <1>1, <2>1, CollectedAll
<1>4. [i \in 1..n |-> out[i].val] = [i \in 1..n |-> ElementOutcome(r, T, i).val]
  OBVIOUS
<1>5. \A i \in 1..n : out[i] = ElementOutcome(r, T, i)
  OBVIOUS
<1> HIDE DEF out, n
<1>6. (\A i \in 1..n : Returned(out[i])) <=> \A i \in 1..n : Returned(ElementOutcome(r, T, i))
  BY <1>5
<1>7. CASE T.kind = "map" /\ n % 2 # 0
  BY <1>2, <1>7, Outcomes DEF n
<1>8. CASE ~(T.kind = "map" /\ n % 2 # 0)
  BY <1>2, <1>3, <1>4, <1>6, <1>8 DEF n
<1> QED  BY <1>7, <1>8

(* A tuple. *)
PartOutcome(r, T, i) == Convert[T.each[i]][IF r.type = "array" THEN r.elems[i] ELSE Nil]

LEMMA TupleOfReply ==
  ASSUME NEW T \in Types, T.kind = "tuple", NEW r
  PROVE  /\ Returned(GetAs(r, T)) <=>
              /\ Len(T.each) = Size(r)
              /\ \A i \in 1..Len(T.each) : Returned(PartOutcome(r, T, i))
         /\ Returned(GetAs(r, T)) =>
              GetAs(r, T) = Value([i \in 1..Len(T.each) |-> PartOutcome(r, T, i).val])
<1> DEFINE n == Len(T.each)
           out == [i \in 1..n |-> PartOutcome(r, T, i)]
<1>1. n \in Nat /\ DOMAIN T.each = 1..n
  BY TypeAssumption
<1>2. GetAs(r, T) = IF n # Size(r) THEN Throw("invalid_argument")
                    ELSE Collected("tuple", out)
  BY <1>1 DEF GetAs, Overload, SizeFits, Part, Elements, PartOutcome
<1>3. /\ Returned(Collected("tuple", out)) <=> \A i \in 1..n : Returned(out[i])
      /\ Returned(Collected("tuple", out)) =>
           Collected("tuple", out) = Value(Filled("tuple", [i \in 1..n |-> out[i].val]))
  <2>1. DOMAIN out = 1..n
    OBVIOUS
  <2> HIDE DEF out, n
  <2> QED  BY <1>1, <2>1, CollectedAll
<1>4. [i \in 1..n |-> out[i].val] = [i \in 1..n |-> PartOutcome(r, T, i).val]
  OBVIOUS
<1>5. \A i \in 1..n : out[i] = PartOutcome(r, T, i)
  OBVIOUS
<1> HIDE DEF out, n
<1>6. (\A i \in 1..n : Returned(out[i])) <=> \A i \in 1..n : Returned(PartOutcome(r, T, i))
  BY <1>5
<1>7. \A vals : Filled("tuple", vals) = vals
  BY DEF Filled
<1>8. CASE n # Size(r)
  BY <1>2, <1>8, Outcomes DEF n
<1>9. CASE n = Size(r)
  <2>1. GetAs(r, T) = Collected("tuple", out)
    BY <1>2, <1>9
  <2>2. Returned(GetAs(r, T)) =>
          GetAs(r, T) = Value([i \in 1..n |-> PartOutcome(r, T, i).val])
    BY <1>3, <1>4, <1>7, <2>1
  <2>3. Returned(GetAs(r, T)) <=> \A i \in 1..n : Returned(PartOutcome(r, T, i))
    BY <1>3, <1>6, <2>1
  <2> QED  BY <1>9, <2>2, <2>3 DEF n
<1> QED  BY <1>8, <1>9

(* A container from what is no array. *)
LEMMA ContainerOfScalar ==
  ASSUME NEW T, IsContainer(T), NEW r, IsReply(r), r.type # "array"
  PROVE  /\ r.type = "nil" => GetAs(r, T) = Value(Filled(T.kind, <<>>))
         /\ r.type = "error" => GetAs(r, T) = Throw("runtime_error")
         /\ r.type \notin {"nil", "error"} => GetAs(r, T) = Throw("invalid_argument")
BY DEF GetAs, Overload, IsContainer, IsReply

(* What is returned is a value. *)
LEMMA ReturnedValue ==
  ASSUME NEW r, IsReply(r), NEW T \in Types, Returned(GetAs(r, T))
  PROVE  GetAs(r, T) = Value(GetAs(r, T).val)
<1>1. CASE T.kind \in {"number", "byte", "string", "string_view"}
  BY <1>1, ScalarValues
<1>2. ASSUME NEW v, GetAs(r, T) = Value(v) PROVE GetAs(r, T) = Value(GetAs(r, T).val)
  BY <1>2, Outcomes
<1>3. CASE IsContainer(T) /\ r.type = "array"
  <2>1. \E v : GetAs(r, T) = Value(v)
    BY <1>3, ContainerOfArray, Zenon
  <2> QED  BY <1>2, <2>1
<1>4. CASE IsContainer(T) /\ r.type # "array"
  BY <1>4, ContainerOfScalar, Outcomes DEF IsReply
<1>5. CASE T.kind = "tuple"
  <2>1. \E v : GetAs(r, T) = Value(v)
    BY <1>5, TupleOfReply, Zenon
  <2> QED  BY <1>2, <2>1
<1> QED  BY <1>1, <1>3, <1>4, <1>5, TypeAssumption DEF IsContainer

LEMMA ConvertedValue ==
  ASSUME NEW r \in Replies, NEW T \in Types, Returned(Convert[T][r])
  PROVE  Convert[T][r] = Value(Convert[T][r].val)
BY Unfolds, RepliesAreReplies, ReturnedValue

-------------------------------------------------------------------------------
(* The invariant. *)
GetInv == IsReply(reply) /\ target \in Types

LEMMA GetTypes == Spec => []GetInv
<1>1. Init => GetInv
  BY RepliesAreReplies DEF Init, GetInv
<1>2. GetInv /\ [Next]_<<reply, target>> => GetInv'
  <2>1. CASE UNCHANGED <<reply, target>>
    BY <2>1 DEF GetInv, IsReply
  <2>2. ASSUME GetInv, NEW e \in Replies, Extend(e) PROVE GetInv'
    BY <2>2 DEF GetInv, IsReply, Extend, Array
  <2> QED  BY <2>1, <2>2 DEF Next
<1> QED  BY <1>1, <1>2, PTL DEF Spec

(* A scalar type takes no array. *)
LEMMA NoScalarFromArray ==
  ASSUME NEW r, r.type = "array", NEW T \in Types, Returned(GetAs(r, T))
  PROVE  IsContainer(T) \/ T.kind = "tuple"
<1> SUFFICES ASSUME T.kind \in {"number", "byte", "string", "string_view"}
             PROVE  FALSE
  BY TypeAssumption DEF IsContainer
<1>1. GetAs(r, T) = Throw("invalid_argument")
  BY DEF GetAs, Overload, ToNumber, ToByte, ToText, ToView
<1> QED  BY <1>1, Outcomes

-------------------------------------------------------------------------------
(* Errors. *)

LEMMA ErrorOnlyByTuple ==
  ASSUME NEW r, IsReply(r), r.type = "error", NEW T \in Types
  PROVE  /\ Returned(GetAs(r, T)) => T.kind = "tuple" /\ Len(T.each) = r.size
         /\ T.kind # "tuple" => GetAs(r, T) = Throw("runtime_error")
<1>1. CASE T.kind = "tuple"
  BY <1>1, TupleOfReply DEF Size
<1>2. CASE IsContainer(T)
  BY <1>2, ContainerOfScalar, Outcomes DEF IsContainer
<1>3. CASE T.kind \in {"number", "byte", "string", "string_view"}
  <2>1. GetAs(r, T) = Throw("runtime_error")
    BY <1>3 DEF GetAs, Overload, ToNumber, ToByte, ToText, ToView
  <2> QED  BY <1>3, <2>1, Outcomes
<1> QED  BY <1>1, <1>2, <1>3, TypeAssumption DEF IsContainer

(* An array that is read has elements that are read. *)
LEMMA ElementsReturned ==
  ASSUME NEW r, IsReply(r), r.type = "array", NEW T \in Types, Returned(GetAs(r, T)),
         NEW i \in 1..Len(r.elems)
  PROVE  \E U \in Components(T) : Returned(Convert[U][r.elems[i]])
<1>1. CASE IsContainer(T)
  BY <1>1, ContainerOfArray, ElementTypes DEF IsContainer, ElementOutcome
<1>2. CASE T.kind = "tuple"
  <2>1. Len(T.each) = Len(r.elems) /\ Returned(PartOutcome(r, T, i))
    BY <1>2, TupleOfReply DEF Size
  <2>2. i \in DOMAIN T.each
    BY <1>2, <2>1, TypeAssumption
  <2> QED  BY <1>2, <2>1, <2>2, ElementTypes DEF PartOutcome
<1> QED  BY <1>1, <1>2, NoScalarFromArray

LEMMA TypesInType ==
  ASSUME NEW T \in Types
  PROVE  /\ T \in TypesIn[T] /\ TypesIn[T] \subseteq Types
         /\ \A U \in TypesIn[T] : Components(U) \subseteq TypesIn[T]
<1>1. TypesIn[T] = {U \in Types : \A S \in ClosedTypes : T \in S => U \in S}
  BY DEF TypesIn
<1>2. ASSUME NEW U \in TypesIn[T], NEW V \in Components(U) PROVE V \in TypesIn[T]
  <2>1. U \in Types /\ V \in Types
    BY <1>1, <1>2, TypeAssumption
  <2>2. ASSUME NEW S \in ClosedTypes, T \in S PROVE V \in S
    BY <1>1, <1>2, <2>2 DEF ClosedTypes
  <2> QED  BY <1>1, <2>1, <2>2
<1> QED  BY <1>1, <1>2

LEMMA ErrorsInReply ==
  ASSUME NEW r, IsReply(r), NEW T \in Types, Returned(GetAs(r, T)),
         NEW p \in Parts(r), p.type = "error"
  PROVE  p.size \in TupleSizes(T)
<1>1. ASSUME NEW U \in TypesIn[T], NEW e, IsReply(e), e.type = "error",
             Returned(GetAs(e, U))
      PROVE  e.size \in TupleSizes(T)
  <2>1. U \in Types
    BY TypesInType
  <2>2. U.kind = "tuple" /\ e.size = Len(U.each)
    BY <1>1, <2>1, ErrorOnlyByTuple
  <2> QED  BY <2>2 DEF TupleSizes
<1>2. CASE p = r
  BY <1>1, <1>2, TypesInType
<1>3. CASE p # r
  <2> DEFINE Read == {q \in Replies : \E U \in TypesIn[T] : Returned(Convert[U][q])}
  <2>1. Read \in ClosedReplies
    <3>1. ASSUME NEW q \in Read, q.type = "array", NEW e \in Range(q.elems)
          PROVE  e \in Read
      <4>1. PICK U \in TypesIn[T] : Returned(Convert[U][q])
        OBVIOUS
      <4>2. U \in Types /\ IsReply(q) /\ Returned(GetAs(q, U))
        BY <4>1, TypesInType, RepliesAreReplies, Unfolds
      <4>3. PICK i \in 1..Len(q.elems) : e = q.elems[i]
        BY <3>1, <4>2 DEF Range, IsReply
      <4>4. PICK V \in Components(U) : Returned(Convert[V][e])
        BY <3>1, <4>2, <4>3, ElementsReturned
      <4>5. V \in TypesIn[T]
        BY <4>4, TypesInType
      <4>6. e \in Replies
        BY <3>1, <4>2, <4>3 DEF IsReply
      <4> QED  BY <4>4, <4>5, <4>6
    <3> HIDE DEF Read
    <3>2. Read \subseteq Replies
      BY DEF Read
    <3> QED  BY <3>1, <3>2 DEF ClosedReplies
  <2>2. r.type = "array" /\ \E e \in Range(r.elems) : p \in PartsOf[e]
    BY <1>3 DEF Parts
  <2>3. PICK i \in 1..Len(r.elems) : p \in PartsOf[r.elems[i]]
    BY <2>2 DEF Range, IsReply
  <2>4. r.elems[i] \in Replies
    BY <2>2 DEF IsReply
  <2>5. PICK V \in Components(T) : Returned(Convert[V][r.elems[i]])
    BY <2>2, ElementsReturned
  <2>6. r.elems[i] \in Read
    BY <2>4, <2>5, TypesInType
  <2>7. p \in Read
    <3> HIDE DEF Read
    <3> QED  BY <2>1, <2>3, <2>4, <2>6 DEF PartsOf
  <2>8. PICK U \in TypesIn[T] : Returned(Convert[U][p])
    BY <2>7
  <2>9. U \in Types /\ p \in Replies /\ IsReply(p) /\ Returned(GetAs(p, U))
    BY <2>7, <2>8, TypesInType, RepliesAreReplies, Unfolds
  <2> QED  BY <1>1, <2>8, <2>9
<1> QED  BY <1>2, <1>3

(* An error anywhere in a reply, at any depth, keeps Get from returning,   *)
(* unless a tuple of as many elements as the error has was asked for       *)
(* somewhere.                                                              *)
THEOREM ErrorsThrow == Spec => []ErrorNeverAValue
<1>1. GetInv => ErrorNeverAValue
  BY ErrorsInReply, ErrorOnlyByTuple DEF GetInv, ErrorNeverAValue, Get
<1> QED  BY <1>1, GetTypes, PTL

-------------------------------------------------------------------------------
(* Missing values. *)

LEMMA NilIsRead ==
  ASSUME NEW T \in Types
  PROVE  Returned(Convert[T][Nil]) <=> ~(T.kind = "tuple" /\ T.each # <<>>)
<1>1. Convert[T][Nil] = GetAs(Nil, T) /\ IsReply(Nil)
  BY Unfolds, ReplyAssumption, RepliesAreReplies
<1>2. Nil.type = "nil" /\ Size(Nil) = 0
  BY DEF Nil, Size
<1>3. CASE T.kind \in {"number", "byte", "string", "string_view"}
  <2>1. \E v : GetAs(Nil, T) = Value(v)
    BY <1>2, <1>3 DEF GetAs, Overload, ToNumber, ToByte, ToText, ToView
  <2> QED  BY <1>1, <1>3, <2>1, Outcomes
<1>4. CASE IsContainer(T)
  BY <1>1, <1>2, <1>4, ContainerOfScalar, Outcomes DEF IsContainer
<1>5. CASE T.kind = "tuple"
  <2>1. T.each \in Seq(Types) /\ (T.each = <<>> <=> Len(T.each) = 0)
    BY <1>5, TypeAssumption
  <2>2. Returned(GetAs(Nil, T)) <=>
          Len(T.each) = 0 /\ \A i \in 1..Len(T.each) : Returned(PartOutcome(Nil, T, i))
    BY <1>2, <1>5, TupleOfReply
  <2>3. Returned(GetAs(Nil, T)) <=> Len(T.each) = 0
    BY <2>2
  <2> QED  BY <1>1, <1>5, <2>1, <2>3
<1> QED  BY <1>3, <1>4, <1>5, TypeAssumption DEF IsContainer

LEMMA NilInPlace ==
  ASSUME NEW r, IsReply(r), r.type = "array", NEW T \in Types, Returned(GetAs(r, T)),
         NEW i \in 1..Len(r.elems)
  PROVE  LET U == ElementType(T, i)
         IN  Returned(GetAs(WithNil(r, i), T)) <=> ~(U.kind = "tuple" /\ U.each # <<>>)
<1> DEFINE q == WithNil(r, i)
           n == Len(r.elems)
<1>1. /\ IsReply(q) /\ q.type = "array" /\ Len(q.elems) = n /\ n \in Nat
      /\ q.elems[i] = Nil
      /\ \A j \in 1..n : j # i => q.elems[j] = r.elems[j]
  BY ReplyAssumption DEF WithNil, Array, IsReply
<1> HIDE DEF q, n
<1>2. CASE IsContainer(T)
  <2>1. \A j \in 1..n : Returned(ElementOutcome(r, T, j))
    BY <1>2, ContainerOfArray DEF n
  <2>2. T.kind = "map" => n % 2 = 0
    BY <1>2, ContainerOfArray DEF n
  <2>3. \A j \in 1..n : j # i => Returned(ElementOutcome(q, T, j))
    BY <1>1, <2>1 DEF ElementOutcome
  <2>4. Returned(GetAs(q, T)) <=> \A j \in 1..n : Returned(ElementOutcome(q, T, j))
    BY <1>1, <1>2, <2>2, ContainerOfArray
  <2>5. Returned(GetAs(q, T)) <=> Returned(ElementOutcome(q, T, i))
    BY <2>3, <2>4 DEF n
  <2>6. ElementOutcome(q, T, i) = Convert[ElementType(T, i)][Nil]
    BY <1>1 DEF ElementOutcome
  <2>7. ElementType(T, i) \in Types
    BY <1>2, ElementTypes, TypeAssumption DEF IsContainer
  <2> QED  BY <2>5, <2>6, <2>7, NilIsRead DEF q
<1>3. CASE T.kind = "tuple"
  <2>1. Len(T.each) = n /\ \A j \in 1..n : Returned(PartOutcome(r, T, j))
    BY <1>3, TupleOfReply DEF Size, n
  <2>2. \A j \in 1..n : j # i => Returned(PartOutcome(q, T, j))
    BY <1>1, <2>1 DEF PartOutcome
  <2>3. Returned(GetAs(q, T)) <=> \A j \in 1..n : Returned(PartOutcome(q, T, j))
    BY <1>1, <1>3, <2>1, TupleOfReply DEF Size
  <2>4. Returned(GetAs(q, T)) <=> Returned(PartOutcome(q, T, i))
    BY <2>2, <2>3 DEF n
  <2>5. i \in DOMAIN T.each
    BY <1>3, <2>1, TypeAssumption DEF n
  <2>6. ElementType(T, i) = T.each[i] /\ T.each[i] \in Types
    BY <1>3, <2>5, ElementTypes, TypeAssumption
  <2>7. PartOutcome(q, T, i) = Convert[T.each[i]][Nil]
    BY <1>1 DEF PartOutcome
  <2> QED  BY <2>4, <2>6, <2>7, NilIsRead DEF q
<1> QED  BY <1>2, <1>3, NoScalarFromArray

(* A nil in the place of an element makes Get throw just when that element *)
(* is read as a tuple with elements, for every reply that can be read.     *)
THEOREM MissingIsRead == Spec => []NilNeverThrows
<1>1. GetInv => NilNeverThrows
  <2> SUFFICES ASSUME GetInv, reply.type = "array", Returned(Get),
                      NEW i \in DOMAIN reply.elems
               PROVE  LET U == ElementType(target, i)
                      IN  Returned(GetAs(WithNil(reply, i), target))
                            <=> ~(U.kind = "tuple" /\ U.each # <<>>)
    BY DEF NilNeverThrows
  <2>1. i \in 1..Len(reply.elems)
    BY DEF GetInv, IsReply
  <2> QED  BY <2>1, NilInPlace DEF GetInv, Get
<1> QED  BY <1>1, GetTypes, PTL

-------------------------------------------------------------------------------
(* Places. *)

LEMMA VectorPlaces ==
  ASSUME NEW r, IsReply(r), r.type = "array", NEW T \in Types, T.kind = "vector",
         Returned(GetAs(r, T))
  PROVE  /\ Len(GetAs(r, T).val) = Len(r.elems)
         /\ \A i \in 1..Len(r.elems) :
              Value(GetAs(r, T).val[i]) = Convert[T.of][r.elems[i]]
<1> DEFINE n == Len(r.elems)
           vals == [i \in 1..n |-> ElementOutcome(r, T, i).val]
<1>1. n \in Nat /\ \A i \in 1..n : r.elems[i] \in Replies
  BY DEF IsReply
<1>2. /\ GetAs(r, T) = Value(Filled("vector", vals))
      /\ \A i \in 1..n : Returned(ElementOutcome(r, T, i))
  BY ContainerOfArray DEF IsContainer
<1>3. GetAs(r, T).val = vals
  BY <1>2, Outcomes DEF Filled
<1>4. T.of \in Types /\ \A i : ElementType(T, i) = T.of
  BY TypeAssumption DEF ElementType, Components
<1>5. ASSUME NEW i \in 1..n PROVE Value(vals[i]) = Convert[T.of][r.elems[i]]
  <2>1. vals[i] = Convert[T.of][r.elems[i]].val /\ Returned(Convert[T.of][r.elems[i]])
    BY <1>2, <1>4 DEF ElementOutcome
  <2> QED  BY <1>1, <1>4, <2>1, ConvertedValue
<1>6. Len(vals) = n
  BY <1>1
<1> HIDE DEF vals
<1> QED  BY <1>3, <1>5, <1>6

LEMMA TuplePlaces ==
  ASSUME NEW r, IsReply(r), NEW T \in Types, T.kind = "tuple", Returned(GetAs(r, T))
  PROVE  /\ DOMAIN GetAs(r, T).val = 1..Size(r)
         /\ \A i \in DOMAIN T.each : Value(GetAs(r, T).val[i]) = PartOutcome(r, T, i)
<1> DEFINE n == Len(T.each)
           vals == [i \in 1..n |-> PartOutcome(r, T, i).val]
<1>1. T.each \in Seq(Types) /\ n \in Nat /\ DOMAIN T.each = 1..n
  BY TypeAssumption
<1>2. /\ n = Size(r) /\ \A i \in 1..n : Returned(PartOutcome(r, T, i))
      /\ GetAs(r, T) = Value(vals)
  BY TupleOfReply
<1>3. GetAs(r, T).val = vals
  BY <1>2, Outcomes
<1>4. ASSUME NEW i \in 1..n PROVE Value(vals[i]) = PartOutcome(r, T, i)
  <2>1. vals[i] = PartOutcome(r, T, i).val /\ Returned(PartOutcome(r, T, i))
    BY <1>2
  <2>2. T.each[i] \in Types
    BY <1>1
  <2>3. r.type = "array" => r.elems[i] \in Replies
    BY <1>2 DEF IsReply, Size
  <2> QED  BY <2>1, <2>2, <2>3, ConvertedValue, ReplyAssumption DEF PartOutcome
<1>5. DOMAIN vals = 1..n
  OBVIOUS
<1> HIDE DEF vals
<1> QED  BY <1>1, <1>2, <1>3, <1>4, <1>5

(* Element i of a vector or a tuple is what Get returns for element i of   *)
(* the reply alone, for any number of elements of any type.                *)
THEOREM PlacesKept == Spec => []ElementsKeepTheirPlaces
<1>1. GetInv => ElementsKeepTheirPlaces
  <2> SUFFICES ASSUME GetInv, Returned(Get)
               PROVE  ElementsKeepTheirPlaces
    BY DEF ElementsKeepTheirPlaces
  <2>1. CASE target.kind = "vector" /\ reply.type = "array"
    <3>1. DOMAIN reply.elems = 1..Len(reply.elems)
      BY <2>1 DEF GetInv, IsReply
    <3> QED  BY <2>1, <3>1, VectorPlaces DEF GetInv, Get, ElementsKeepTheirPlaces
  <2>2. CASE target.kind = "tuple"
    BY <2>2, TuplePlaces DEF GetInv, Get, ElementsKeepTheirPlaces, PartOutcome
  <2> QED  BY <2>1, <2>2 DEF ElementsKeepTheirPlaces
<1> QED  BY <1>1, GetTypes, PTL

-------------------------------------------------------------------------------
(* What comes later. *)

(* The values of the first n elements, and of all. *)
LEMMA BeginningOfVector ==
  ASSUME NEW N \in Nat, NEW n \in 0..N, NEW v, v = [i \in 1..N |-> v[i]],
         NEW w, w = [i \in 1..n |-> v[i]]
  PROVE  BeginsWith("vector", v, w)
<1>0. N \in Nat /\ n \in Nat
  BY n \in 0..N
<1> DEFINE S == {v[i] : i \in 1..N}
<1>1. v \in Seq(S) /\ w \in Seq(S) /\ Len(v) = N /\ Len(w) = n
  <2>1. \A i \in 1..N : v[i] \in S
    OBVIOUS
  <2>2. DOMAIN v = 1..N /\ DOMAIN w = 1..n
    OBVIOUS
  <2>3. v \in [1..N -> S] /\ w \in [1..n -> S]
    <3> HIDE DEF S
    <3> QED  BY <2>1
  <2> HIDE DEF S
  <2>4. \A m \in Nat : [1..m -> S] \subseteq Seq(S)
    BY SeqDef
  <2>5. v \in Seq(S) /\ w \in Seq(S)
    BY <1>0, <2>3, <2>4, Zenon
  <2> QED  BY <2>2, <2>5
<1> HIDE DEF S
<1>2. ASSUME NEW s \in Seq(S), n <= Len(s)
      PROVE  SubSeq(s, 1, n) = [i \in 1..n |-> s[i]]
  BY <1>2
<1>3. SubSeq(w, 1, n) = w /\ SubSeq(v, 1, n) = w
  BY <1>1, <1>2
<1> QED  BY <1>1, <1>3 DEF BeginsWith, IsPrefix

LEMMA BeginningOfSet ==
  ASSUME NEW N \in Nat, NEW n \in 0..N, NEW v, v = [i \in 1..N |-> v[i]],
         NEW w, w = [i \in 1..n |-> v[i]]
  PROVE  BeginsWith("set", Range(v), Range(w))
BY DEF BeginsWith, Range

(* The first pair of a key is the first, however many follow. *)
LEMMA BeginningOfMap ==
  ASSUME NEW N \in Nat, NEW n \in 0..N, NEW v, v = [i \in 1..N |-> v[i]],
         NEW w, w = [i \in 1..n |-> v[i]], N % 2 = 0, n % 2 = 0
  PROVE  BeginsWith("map", Emplaced(v), Emplaced(w))
<1> DEFINE H == N \div 2
           h == n \div 2
           AtV(k) == {i \in 1..H : v[2 * i - 1] = k}
           AtW(k) == {i \in 1..h : w[2 * i - 1] = k}
<1>1. /\ H \in Nat /\ h \in 0..H /\ 2 * H = N /\ 2 * h = n
  OBVIOUS
<1>2. \A i \in 1..h : /\ i \in 1..H
                      /\ w[2 * i - 1] = v[2 * i - 1] /\ w[2 * i] = v[2 * i]
  <2> TAKE i \in 1..h
  <2>1. i \in 1..H /\ 2 * i - 1 \in 1..n /\ 2 * i \in 1..n
    BY <1>1
  <2> HIDE DEF H, h
  <2> QED  BY <2>1
<1>3. Len(v) = N /\ Len(w) = n
  OBVIOUS
<1>4. Emplaced(v) = [k \in {v[2 * i - 1] : i \in 1..H} |-> v[2 * Min(AtV(k))]]
  BY <1>3 DEF Emplaced
<1>5. Emplaced(w) = [k \in {w[2 * i - 1] : i \in 1..h} |-> w[2 * Min(AtW(k))]]
  BY <1>3 DEF Emplaced
<1> HIDE DEF H, h
<1>6. ASSUME NEW i \in 1..h
      PROVE  LET k == w[2 * i - 1]
             IN  /\ k \in {v[2 * j - 1] : j \in 1..H}
                 /\ w[2 * Min(AtW(k))] = v[2 * Min(AtV(k))]
  <2> DEFINE k == w[2 * i - 1]
             W == AtW(k)
             V == AtV(k)
  <2>1. k \in {v[2 * j - 1] : j \in 1..H}
    BY <1>2
  <2>2. W # {} /\ V # {} /\ W \subseteq V /\ W \subseteq 1..h /\ V \subseteq 1..H
    BY <1>2
  <2>3. \A j \in V : j <= h => j \in W
    BY <1>1, <1>2
  <2> HIDE DEF W, V
  <2>4. Min(W) \in W /\ \A j \in W : Min(W) <= j
    BY <2>2, <1>1, LeastNatural
  <2>5. Min(V) \in V /\ \A j \in V : Min(V) <= j
    BY <2>2, <1>1, LeastNatural
  <2>6. Min(V) = Min(W)
    BY <1>1, <2>2, <2>3, <2>4, <2>5
  <2>7. w[2 * Min(W)] = v[2 * Min(V)]
    BY <1>2, <2>2, <2>4, <2>6
  <2> QED  BY <2>1, <2>7 DEF W, V
<1> HIDE DEF AtV, AtW
<1>7. ASSUME NEW k \in {w[2 * i - 1] : i \in 1..h}
      PROVE  k \in {v[2 * i - 1] : i \in 1..H} /\ w[2 * Min(AtW(k))] = v[2 * Min(AtV(k))]
  BY <1>6
<1> QED  BY <1>4, <1>5, <1>7 DEF BeginsWith

LEMMA LaterChangesNothing ==
  ASSUME NEW r, IsReply(r), r.type = "array", NEW T \in Types, Returned(GetAs(r, T)),
         NEW n \in 0..Len(r.elems),
         Returned(GetAs(Array(SubSeq(r.elems, 1, n)), T))
  PROVE  BeginsWith(T.kind, GetAs(r, T).val, GetAs(Array(SubSeq(r.elems, 1, n)), T).val)
<1> DEFINE q == Array(SubSeq(r.elems, 1, n))
           N == Len(r.elems)
<1>1. /\ IsReply(q) /\ q.type = "array" /\ Len(q.elems) = n
      /\ N \in Nat /\ n \in 0..N /\ \A i \in 1..n : q.elems[i] = r.elems[i]
  BY DEF Array, IsReply
<1> HIDE DEF q
<1>2. CASE IsContainer(T)
  <2> DEFINE v == [i \in 1..N |-> ElementOutcome(r, T, i).val]
             w == [i \in 1..n |-> ElementOutcome(q, T, i).val]
  <2>1. /\ GetAs(r, T) = Value(Filled(T.kind, v))
        /\ T.kind = "map" => N % 2 = 0
    BY <1>2, ContainerOfArray
  <2>2. /\ GetAs(q, T) = Value(Filled(T.kind, w))
        /\ T.kind = "map" => n % 2 = 0
    BY <1>1, <1>2, ContainerOfArray DEF q
  <2>3. w = [i \in 1..n |-> v[i]] /\ v = [i \in 1..N |-> v[i]]
    BY <1>1 DEF ElementOutcome
  <2>4. GetAs(r, T).val = Filled(T.kind, v) /\ GetAs(q, T).val = Filled(T.kind, w)
    BY <2>1, <2>2, Outcomes
  <2> HIDE DEF v, w, N
  <2>5. CASE T.kind = "vector"
    <3>1. BeginsWith("vector", v, w)
      BY <1>1, <2>3, BeginningOfVector
    <3> QED  BY <2>4, <2>5, <3>1 DEF Filled, q
  <2>6. CASE T.kind = "set"
    <3>1. BeginsWith("set", Range(v), Range(w))
      BY <1>1, <2>3, BeginningOfSet
    <3> QED  BY <2>4, <2>6, <3>1 DEF Filled, q
  <2>7. CASE T.kind = "map"
    <3>1. BeginsWith("map", Emplaced(v), Emplaced(w))
      BY <1>1, <2>1, <2>2, <2>3, <2>7, BeginningOfMap
    <3> QED  BY <2>4, <2>7, <3>1 DEF Filled, q
  <2> QED  BY <1>2, <2>5, <2>6, <2>7 DEF IsContainer
<1>3. CASE T.kind = "tuple"
  <2> DEFINE v == [i \in 1..N |-> PartOutcome(r, T, i).val]
             w == [i \in 1..n |-> PartOutcome(q, T, i).val]
  <2>1. GetAs(r, T) = Value(v) /\ Len(T.each) = N
    BY <1>3, TupleOfReply DEF Size
  <2>2. GetAs(q, T) = Value(w) /\ Len(T.each) = n
    BY <1>1, <1>3, TupleOfReply DEF Size, q
  <2>3. w = [i \in 1..n |-> v[i]] /\ v = [i \in 1..N |-> v[i]]
    BY <1>1 DEF PartOutcome
  <2>4. GetAs(r, T).val = v /\ GetAs(q, T).val = w
    BY <2>1, <2>2, Outcomes
  <2> HIDE DEF v, w, N
  <2>5. BeginsWith("vector", v, w)
    BY <1>1, <2>3, BeginningOfVector
  <2> QED  BY <1>3, <2>4, <2>5 DEF BeginsWith, q
<1> QED  BY <1>2, <1>3, NoScalarFromArray

(* Elements that come later change nothing in what was read before them,   *)
(* for any reply and type: a second value of a key is not even looked at.  *)
THEOREM FirstStays == Spec => []LaterElementsChangeNothing
<1>1. GetInv => LaterElementsChangeNothing
  BY LaterChangesNothing DEF GetInv, LaterElementsChangeNothing, Get
<1> QED  BY <1>1, GetTypes, PTL

-------------------------------------------------------------------------------
(* 8-bit integers read characters: what they agree on with the wider types *)
(* is a missing value, for every number and every text.                    *)
THEOREM Characters == Spec => []NarrowReadsCharacters
<1>1. GetInv => NarrowReadsCharacters
  <2> DEFINE wide == GetAs(reply, [kind |-> "number"])
  <2> SUFFICES ASSUME GetInv, target.kind = "byte", reply.type # "array",
                      Returned(Get), Returned(wide)
               PROVE  Get.val = wide.val <=> reply.type = "nil"
    BY DEF NarrowReadsCharacters
  <2>1. Get = ToByte(reply) /\ wide = ToNumber(reply)
    BY DEF Get, GetAs, Overload
  <2> HIDE DEF wide
  <2>2. CASE reply.type = "nil"
    BY <2>1, <2>2 DEF ToByte, ToNumber
  <2>3. CASE reply.type = "error"
    BY <2>1, <2>3, Outcomes DEF ToNumber
  <2>4. CASE reply.type = "string"
    <3>1. wide = Value(Parsed[reply.val]) /\ reply.val \in DOMAIN Parsed
      BY <2>1, <2>4, Outcomes DEF ToNumber
    <3>2. Get = Value(Code[reply.val]) /\ reply.val \in DOMAIN Code
      BY <2>1, <2>4, Outcomes DEF ToByte
    <3> QED  BY <2>4, <3>1, <3>2, Outcomes, DigitAssumption
  <2>5. CASE reply.type = "integer"
    <3>1. wide = Value(reply.val) /\ reply.val \in Fits
      BY <2>1, <2>5, Outcomes DEF ToNumber
    <3>2. Get = Value(Code[ToString(reply.val)]) /\ ToString(reply.val) \in DOMAIN Code
      BY <2>1, <2>5, Outcomes DEF ToByte
    <3> QED  BY <2>5, <3>1, <3>2, Outcomes, DigitAssumption
  <2>6. CASE reply.type = "status"
    <3>1. wide = Value(IF reply.val = "OK" THEN 1 ELSE 0)
      BY <2>1, <2>6 DEF ToNumber
    <3>2. Get = Value(IF reply.val = "OK" THEN 49 ELSE 48)
      BY <2>1, <2>6, DigitAssumption DEF ToByte
    <3> QED  BY <2>6, <3>1, <3>2, Outcomes
  <2> QED  BY <2>2, <2>3, <2>4, <2>5, <2>6 DEF GetInv, IsReply
<1> QED  BY <1>1, GetTypes, PTL

===============================================================================
