------------------------------ MODULE Bytes_proofs ------------------------------
(***********************************************************************************)
(* Facts about bytes, bits and flags that the proofs of the other modules cite.     *)
(* The sets Byte and Word are used through the two membership lemmas only: a range  *)
(* between two numerals is spelled out number by number for the SMT solver.         *)
(***********************************************************************************)
EXTENDS Bytes, TLAPS

(* Membership in an interval is two inequalities.                                      *)
LEMMA RangeMember ==
    ASSUME NEW low \in Int, NEW high \in Int, NEW n
    PROVE  n \in low .. high <=> n \in Int /\ low <= n /\ n <= high
BY SMT

(* uint8_t: the numbers from 0 to 255.                                                 *)
LEMMA ByteMember ==
    ASSUME NEW n
    PROVE  n \in Byte <=> n \in Int /\ 0 <= n /\ n <= 255
<1>1. UINT8_MAX \in Int
    BY DEF UINT8_MAX
<1>2. n \in Byte <=> n \in Int /\ 0 <= n /\ n <= UINT8_MAX
    BY <1>1, RangeMember DEF Byte
<1> QED
    BY <1>2 DEF UINT8_MAX

(* uint16_t: the numbers from 0 to 65535.                                              *)
LEMMA WordMember ==
    ASSUME NEW n
    PROVE  n \in Word <=> n \in Int /\ 0 <= n /\ n <= 65535
<1>1. UINT16_MAX \in Int
    BY DEF UINT16_MAX
<1>2. n \in Word <=> n \in Int /\ 0 <= n /\ n <= UINT16_MAX
    BY <1>1, RangeMember DEF Word
<1> QED
    BY <1>2 DEF UINT16_MAX

-----------------------------------------------------------------------------------
(* A set of masks makes a byte.                                                        *)
LEMMA ByteOfType ==
    ASSUME NEW S
    PROVE  ByteOf(S) \in Byte
BY ByteMember DEF ByteOf

(* The bits of that byte are the masks of the set: bytes and sets of bits stand for    *)
(* one another, so that & is intersection and | is union.                              *)
LEMMA BitsOfByteOf ==
    ASSUME NEW S \in SUBSET Masks, NEW k \in Masks
    PROVE  Has(ByteOf(S), k) <=> k \in S
BY DEF ByteOf, Has, Masks

(* Writing a flag leaves a byte (status |= mask, status &= ~mask).                     *)
LEMMA PutType ==
    ASSUME NEW b, NEW mask, NEW on
    PROVE  Put(b, mask, on) \in Byte
BY ByteOfType DEF Put

(* Writing a flag writes that flag and no other.                                       *)
LEMMA PutHas ==
    ASSUME NEW b, NEW mask \in Masks, NEW on \in BOOLEAN, NEW k \in Masks
    PROVE  Has(Put(b, mask, on), k) <=> IF k = mask THEN on ELSE Has(b, k)
<1> DEFINE S == IF on THEN Ones(b) \cup {mask} ELSE Ones(b) \ {mask}
<1>1. S \in SUBSET Masks
    BY DEF Ones
<1>2. Has(ByteOf(S), k) <=> k \in S
    BY <1>1, BitsOfByteOf
<1>3. k \in S <=> IF k = mask THEN on ELSE Has(b, k)
    BY DEF Ones
<1> QED
    BY <1>2, <1>3 DEF Put

-----------------------------------------------------------------------------------
(* A word from two bytes (hi << 8 | lo), and the two halves of a word.                 *)
LEMMA JoinType ==
    ASSUME NEW h \in Byte, NEW l \in Byte
    PROVE  Join(h, l) \in Word
BY ByteMember, WordMember DEF Join

(* The two halves of a word are bytes that make it up.                                 *)
LEMMA HalvesType ==
    ASSUME NEW w \in Word
    PROVE  Lo(w) \in Byte /\ Hi(w) \in Byte /\ Join(Hi(w), Lo(w)) = w
<1>1. w \in Int /\ 0 <= w /\ w <= 65535
    BY WordMember
<1>2. (w \div 256) % 256 = w \div 256 /\ 256 * (w \div 256) + (w % 256) = w
    BY <1>1, SMT
<1>3. w % 256 \in Int /\ 0 <= w % 256 /\ w % 256 <= 255
    BY <1>1, SMT
<1>4. w \div 256 \in Int /\ 0 <= w \div 256 /\ w \div 256 <= 255
    BY <1>1, SMT
<1> QED
    BY <1>2, <1>3, <1>4, ByteMember DEF Lo, Hi, Join

(* A narrowing assignment fits.                                                        *)
LEMMA NarrowType ==
    ASSUME NEW n \in Int
    PROVE  U8(n) \in Byte /\ U16(n) \in Word
BY ByteMember, WordMember DEF U8, U16

(* The carry as a number is the carry as a bit.                                        *)
LEMMA CarryOfHas ==
    ASSUME NEW b \in Byte
    PROVE  CarryOf(b) = IF Has(b, CARRY) THEN 1 ELSE 0
BY ByteMember DEF CarryOf, Has, CARRY

-----------------------------------------------------------------------------------
(* The top bit tells the upper half of the range.                                      *)
LEMMA TopBit ==
    ASSUME NEW v \in Byte
    PROVE  Has(v, 128) <=> v >= 128
BY ByteMember DEF Has

(* What a mask weighs in a set of bits.                                                *)
Weight(S, k) == IF k \in S THEN k ELSE 0

(* A byte is the sum of its bits.                                                      *)
LEMMA ByteOfOnes ==
    ASSUME NEW v \in Byte
    PROVE  ByteOf(Ones(v)) = v
<1>1. v \in Int /\ 0 <= v /\ v <= 255
    BY ByteMember
<1>2. /\ Weight(Ones(v), 1) = v - 2 * (v \div 2)
      /\ Weight(Ones(v), 2) = 2 * (v \div 2) - 4 * (v \div 4)
    BY <1>1 DEF Weight, Ones, Masks, Has
<1>3. /\ Weight(Ones(v), 4) = 4 * (v \div 4) - 8 * (v \div 8)
      /\ Weight(Ones(v), 8) = 8 * (v \div 8) - 16 * (v \div 16)
    BY <1>1 DEF Weight, Ones, Masks, Has
<1>4. /\ Weight(Ones(v), 16) = 16 * (v \div 16) - 32 * (v \div 32)
      /\ Weight(Ones(v), 32) = 32 * (v \div 32) - 64 * (v \div 64)
    BY <1>1 DEF Weight, Ones, Masks, Has
<1>5. /\ Weight(Ones(v), 64) = 64 * (v \div 64) - 128 * (v \div 128)
      /\ Weight(Ones(v), 128) = 128 * (v \div 128)
    BY <1>1 DEF Weight, Ones, Masks, Has
<1>6. ByteOf(Ones(v)) = Weight(Ones(v), 1) + Weight(Ones(v), 2) + Weight(Ones(v), 4)
                        + Weight(Ones(v), 8) + Weight(Ones(v), 16) + Weight(Ones(v), 32)
                        + Weight(Ones(v), 64) + Weight(Ones(v), 128)
    BY DEF ByteOf, Weight
<1>7. /\ v \div 2 \in Int /\ v \div 4 \in Int /\ v \div 8 \in Int /\ v \div 16 \in Int
      /\ v \div 32 \in Int /\ v \div 64 \in Int /\ v \div 128 \in Int
    BY <1>1
<1> QED
    BY <1>1, <1>2, <1>3, <1>4, <1>5, <1>6, <1>7

(* A set of masks is the set of bits of its byte.                                      *)
LEMMA OnesByteOf ==
    ASSUME NEW S \in SUBSET Masks
    PROVE  Ones(ByteOf(S)) = S
BY BitsOfByteOf DEF Ones

(* The bits of a byte after a flag was written.                                        *)
LEMMA OnesPut ==
    ASSUME NEW b, NEW mask \in Masks, NEW on
    PROVE  Ones(Put(b, mask, on)) = (Ones(b) \ {mask}) \cup (IF on THEN {mask} ELSE {})
<1> DEFINE S == IF on THEN Ones(b) \cup {mask} ELSE Ones(b) \ {mask}
<1>1. S \in SUBSET Masks
    BY DEF Ones
<1>2. Ones(ByteOf(S)) = S
    BY <1>1, OnesByteOf
<1> QED
    BY <1>2 DEF Put
==================================================================================
