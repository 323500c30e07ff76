-------------------------------- MODULE HashSlot --------------------------------
(* The slot of a key: keyHashSlot of src/detail/hashslot.cpp with crc16 of *)
(* src/detail/crc16.cpp.  Keys are those of HashTag.  A uint16_t is here   *)
(* the set of its bits that are 1, 0 the lowest.                           *)
EXTENDS HashTag, FiniteSetsExt

CONSTANT Others   \* strings of bytes that CrcIsXmodem looks at besides the keys

(* The bytes are chars, which are signed where this client is built.       *)
ASSUME CharAssumption ==
  Byte \subseteq -128..127 /\ Others \subseteq Seq(-128..127)

-------------------------------------------------------------------------------
(* Integers as words, in two's complement, and words as integers.          *)
Word(n) == { i \in 0..15 : (n \div 2^i) % 2 = 1 }
Number(w) == MapThenSumSet(LAMBDA i : 2^i, w)

(* w << n, w >> n and w & 0x00FF; ^ is SymDiff.                            *)
Left(w, n) == { i \in n..15 : i - n \in w }
Right(w, n) == { i \in 0..15 : i + n \in w }
LowByte(w) == w \cap 0..7

(* crc16tab *)
crc16tab ==
<<
   0, 4129, 8258, 12387, 16516, 20645, 24774, 28903, 33032, 37161, 41290, 45419,
   49548, 53677, 57806, 61935, 4657, 528, 12915, 8786, 21173, 17044, 29431, 25302,
   37689, 33560, 45947, 41818, 54205, 50076, 62463, 58334, 9314, 13379, 1056, 5121,
   25830, 29895, 17572, 21637, 42346, 46411, 34088, 38153, 58862, 62927, 50604, 54669,
   13907, 9842, 5649, 1584, 30423, 26358, 22165, 18100, 46939, 42874, 38681, 34616,
   63455, 59390, 55197, 51132, 18628, 22757, 26758, 30887, 2112, 6241, 10242, 14371,
   51660, 55789, 59790, 63919, 35144, 39273, 43274, 47403, 23285, 19156, 31415, 27286,
   6769, 2640, 14899, 10770, 56317, 52188, 64447, 60318, 39801, 35672, 47931, 43802,
   27814, 31879, 19684, 23749, 11298, 15363, 3168, 7233, 60846, 64911, 52716, 56781,
   44330, 48395, 36200, 40265, 32407, 28342, 24277, 20212, 15891, 11826, 7761, 3696,
   65439, 61374, 57309, 53244, 48923, 44858, 40793, 36728, 37256, 33193, 45514, 41451,
   53516, 49453, 61774, 57711, 4224, 161, 12482, 8419, 20484, 16421, 28742, 24679,
   33721, 37784, 41979, 46042, 49981, 54044, 58239, 62302, 689, 4752, 8947, 13010,
   16949, 21012, 25207, 29270, 46570, 42443, 38312, 34185, 62830, 58703, 54572, 50445,
   13538, 9411, 5280, 1153, 29798, 25671, 21540, 17413, 42971, 47098, 34713, 38840,
   59231, 63358, 50973, 55100, 9939, 14066, 1681, 5808, 26199, 30326, 17941, 22068,
   55628, 51565, 63758, 59695, 39368, 35305, 47498, 43435, 22596, 18533, 30726, 26663,
   6336, 2273, 14466, 10403, 52093, 56156, 60223, 64286, 35833, 39896, 43963, 48026,
   19061, 23124, 27191, 31254, 2801, 6864, 10931, 14994, 64814, 60687, 56684, 52557,
   48554, 44427, 40424, 36297, 31782, 27655, 23652, 19525, 15522, 11395, 7392, 3265,
   61215, 65342, 53085, 57212, 44955, 49082, 36825, 40952, 28183, 32310, 20053, 24180,
   11923, 16050, 3793, 7920
>>

(* Mutant: the low byte of the register selects the entry. *)
AddToLowByte(crc, c) ==
  SymDiff(Left(crc, 8), Word(crc16tab[Number(LowByte(SymDiff(crc, Word(c)))) + 1]))

(* One round of crc16.  The char is widened with its sign.                 *)
AddByte(crc, c) ==
  LET index == LowByte(SymDiff(Right(crc, 8), Word(c)))
  IN SymDiff(Left(crc, 8), Word(crc16tab[Number(index) + 1]))

crc16(buf) ==
  LET crc[counter \in 0..Len(buf)] ==
        IF counter = 0 THEN {} ELSE AddByte(crc[counter - 1], buf[counter])
  IN crc[Len(buf)]

(* & 0x3FFF *)
LowBits(crc) == Number(crc \cap 0..13)

keyHashSlot(k) == LowBits(crc16(HashedPart(k)))

-------------------------------------------------------------------------------
(* The CRC by its definition: a register of 16 bits divided, one bit of    *)
(* the message after the other and the highest first, by                   *)
(* x^16 + x^12 + x^5 + 1.                                                  *)
Shift(reg) == IF 15 \in reg THEN SymDiff(Left(reg, 1), {12, 5, 0}) ELSE Left(reg, 1)
ShiftByte(reg) == Shift(Shift(Shift(Shift(Shift(Shift(Shift(Shift(reg))))))))
Divide(reg, c) == ShiftByte(SymDiff(reg, Left(Word(c), 8)))
Xmodem(bytes) ==
  LET reg[n \in 0..Len(bytes)] ==
        IF n = 0 THEN {} ELSE Divide(reg[n - 1], bytes[n])
  IN reg[Len(bytes)]

(* Each entry of the table is what becomes of its index when it is shifted *)
(* out of the register: a fact about 256 numbers.                          *)
ASSUME TableAssumption ==
  \A index \in SUBSET (0..7) :
    Word(crc16tab[Number(index) + 1]) = ShiftByte(Left(index, 8))

(* The line of the comment over the table: of "123456789" the CRC is 31C3. *)
ASSUME CheckAssumption == Number(Xmodem([i \in 1..9 |-> 48 + i])) = 12739

(* crc16 is the XMODEM CRC that its comment names, for every byte at every *)
(* place, the ones above 127 that a char makes negative included, and the  *)
(* slot has its low 14 bits: it is the one the servers compute.            *)
CrcIsXmodem ==
  /\ key = <<>> => \A bytes \in Others : crc16(bytes) = Xmodem(bytes)
  /\ keyHashSlot(key) = Number({ i \in Xmodem(HashedPart(key)) : i < 14 })
===============================================================================
