-------------------------------- MODULE Alu_proofs --------------------------------
(***********************************************************************************)
(* The arithmetic of Alu.tla for every accumulator, every operand and every status *)
(* byte: the properties of Arithmetic.tla, checked with all flags clear or set.     *)
(***********************************************************************************)
EXTENDS Arithmetic, Bytes_proofs, TLAPS

Operands == inputs \in [a : Byte, status : Byte] /\ operand \in Byte

-----------------------------------------------------------------------------------
(* updateStatusFlags writes Z and N and keeps the other flags.                         *)
LEMMA FlagsHas ==
    ASSUME NEW s, NEW v \in Byte, NEW k \in Masks
    PROVE  Has(UpdateStatusFlags(s, v), k) <=>
               IF k = NEGATIVE THEN v >= 128 ELSE IF k = ZERO THEN v = 0 ELSE Has(s, k)
<1>1. NEGATIVE \in Masks /\ ZERO \in Masks /\ NEGATIVE # ZERO
    BY DEF NEGATIVE, ZERO, Masks
<1>2. (v = 0) \in BOOLEAN /\ Has(v, 128) \in BOOLEAN
    BY DEF Has
<1>3. Has(Put(s, ZERO, v = 0), k) <=> IF k = ZERO THEN v = 0 ELSE Has(s, k)
    BY <1>1, <1>2, PutHas
<1>4. Has(UpdateStatusFlags(s, v), k) <=>
          IF k = NEGATIVE THEN Has(v, 128) ELSE Has(Put(s, ZERO, v = 0), k)
    BY <1>1, <1>2, PutHas DEF UpdateStatusFlags
<1> QED
    BY <1>1, <1>3, <1>4, TopBit

(* The flags after an operation that writes C, Z and N.                                *)
LEMMA WritesCZN ==
    ASSUME NEW v \in Byte, NEW c \in BOOLEAN, NEW after,
           after.status = UpdateStatusFlags(Put(inputs.status, CARRY, c), v)
    PROVE  /\ FlagsFollow(after, v, CZN)
           /\ CarryOf(after.status) = IF c THEN 1 ELSE 0
           /\ Has(after.status, CARRY) <=> c
<1>1. /\ CARRY \in Masks /\ ZERO \in Masks /\ NEGATIVE \in Masks
      /\ CARRY # ZERO /\ CARRY # NEGATIVE /\ ZERO # NEGATIVE
    BY DEF CARRY, ZERO, NEGATIVE, Masks
<1>2. \A k \in Masks : Has(after.status, k) <=>
          IF k = NEGATIVE THEN v >= 128 ELSE IF k = ZERO THEN v = 0
          ELSE IF k = CARRY THEN c ELSE Has(inputs.status, k)
    BY <1>1, FlagsHas, PutHas
<1>3. Has(after.status, ZERO) = (v = 0) /\ Has(after.status, NEGATIVE) = (v >= 128)
    <2>1. Has(after.status, ZERO) <=> v = 0
        BY <1>1, <1>2
    <2>2. Has(after.status, NEGATIVE) <=> v >= 128
        BY <1>1, <1>2
    <2> QED
        BY <2>1, <2>2, ByteMember DEF Has
<1>4. Ones(after.status) \ CZN = Ones(inputs.status) \ CZN
    BY <1>2 DEF Ones, CZN
<1>5. Has(after.status, CARRY) <=> c
    BY <1>1, <1>2
<1>6. after.status \in Byte
    BY PutType DEF UpdateStatusFlags
<1> QED
    BY <1>3, <1>4, <1>5, <1>6, CarryOfHas DEF FlagsFollow

-----------------------------------------------------------------------------------
(* ADC is exact: accumulator and carry together are the sum (doADC).                   *)
LEMMA SumExact ==
    ASSUME Operands
    PROVE  LET sum == doADC(inputs, operand)
           IN  /\ sum.a + 256 * CarryOf(sum.status) = inputs.a + operand + CarryOf(inputs.status)
               /\ FlagsFollow(sum, sum.a, CZN)
<1> DEFINE result == inputs.a + operand + CarryOf(inputs.status)
           sum == doADC(inputs, operand)
<1>1. /\ inputs.a \in Int /\ 0 <= inputs.a /\ inputs.a <= 255
      /\ operand \in Int /\ 0 <= operand /\ operand <= 255
      /\ CarryOf(inputs.status) = 0 \/ CarryOf(inputs.status) = 1
    BY ByteMember, CarryOfHas DEF Operands
<1>2. result \in Int /\ 0 <= result /\ result <= 511
    BY <1>1, SMT
<1>3. sum.a = U8(result) /\ sum.status = UpdateStatusFlags(
                                Put(inputs.status, CARRY, result > 255), U8(result))
    BY DEF doADC, SetA, Operands
<1>4. U8(result) \in Byte /\ (result > 255) \in BOOLEAN
    BY <1>2, NarrowType
<1>5. FlagsFollow(sum, U8(result), CZN)
      /\ CarryOf(sum.status) = IF result > 255 THEN 1 ELSE 0
    <2> HIDE DEF result, sum
    <2> QED
        BY <1>3, <1>4, WritesCZN, Zenon
<1>6. U8(result) + 256 * (IF result > 255 THEN 1 ELSE 0) = result
    <2> HIDE DEF result
    <2> QED
        BY <1>2, SMT DEF U8
<1> QED
    BY <1>3, <1>5, <1>6

(* SBC is exact: accumulator and borrow together are the difference (doSBC).           *)
LEMMA DifferenceExact ==
    ASSUME Operands
    PROVE  LET difference == doSBC(inputs, operand)
           IN  /\ difference.a - 256 * (1 - CarryOf(difference.status))
                    = inputs.a - operand - (1 - CarryOf(inputs.status))
               /\ FlagsFollow(difference, difference.a, CZN)
<1> DEFINE exact == inputs.a - operand - (1 - CarryOf(inputs.status))
           result == U16(exact)
           difference == doSBC(inputs, operand)
<1>1. /\ inputs.a \in Int /\ 0 <= inputs.a /\ inputs.a <= 255
      /\ operand \in Int /\ 0 <= operand /\ operand <= 255
      /\ CarryOf(inputs.status) = 0 \/ CarryOf(inputs.status) = 1
    BY ByteMember, CarryOfHas DEF Operands
<1>2. exact \in Int /\ -256 <= exact /\ exact <= 255
    BY <1>1, SMT
<1>3. difference.a = U8(result) /\ difference.status = UpdateStatusFlags(
                                Put(inputs.status, CARRY, result <= 255), U8(result))
    BY DEF doSBC, SetA, Operands
<1>4. result \in Int /\ result = IF exact < 0 THEN exact + 65536 ELSE exact
    <2> HIDE DEF exact
    <2> QED
        BY <1>2, SMT DEF U16
<1>5. U8(result) \in Byte /\ (result <= 255) \in BOOLEAN
    BY <1>4, NarrowType
<1>6. FlagsFollow(difference, U8(result), CZN)
      /\ CarryOf(difference.status) = IF result <= 255 THEN 1 ELSE 0
    <2> HIDE DEF result, difference
    <2> QED
        BY <1>3, <1>5, WritesCZN, Zenon
<1>7. U8(result) - 256 * (1 - IF result <= 255 THEN 1 ELSE 0) = exact
    <2> HIDE DEF exact, result
    <2>1. CASE exact < 0
        BY <1>2, <1>4, <2>1, SMT DEF U8
    <2>2. CASE ~(exact < 0)
        BY <1>2, <1>4, <2>2, SMT DEF U8
    <2> QED
        BY <2>1, <2>2
<1> QED
    BY <1>3, <1>6, <1>7

(* Addition and subtraction lose nothing, whatever the accumulator, the operand and    *)
(* the flags: the carry makes up for the eight bits (doADC, doSBC).                    *)
THEOREM ArithmeticIsExact ==
    ASSUME Operands
    PROVE  ArithmeticExact
BY SumExact, DifferenceExact DEF ArithmeticExact

-----------------------------------------------------------------------------------
(* A comparison leaves the status byte of a subtraction with the carry set, and C      *)
(* orders the two bytes as unsigned numbers (doCMP).                                   *)
THEOREM ComparisonIsSubtraction ==
    ASSUME Operands
    PROVE  CompareIsSubtract
<1> DEFINE set == [inputs EXCEPT !.status = Put(@, CARRY, TRUE)]
           result == U16(inputs.a - operand)
           compared == doCMP(inputs, inputs.a, operand)
           subtracted == doSBC(set, operand)
<1>1. /\ inputs.a \in Int /\ 0 <= inputs.a /\ inputs.a <= 255
      /\ operand \in Int /\ 0 <= operand /\ operand <= 255
    BY ByteMember DEF Operands
<1>2. CARRY \in Masks
    BY DEF CARRY, Masks
<1>3. set.status = Put(inputs.status, CARRY, TRUE) /\ set.a = inputs.a
    BY DEF Operands
<1>4. CarryOf(set.status) = 1
    <2>1. Has(Put(inputs.status, CARRY, TRUE), CARRY)
        BY <1>2, PutHas
    <2>2. Put(inputs.status, CARRY, TRUE) \in Byte
        BY PutType
    <2>3. CarryOf(Put(inputs.status, CARRY, TRUE)) = 1
        BY <2>1, <2>2, CarryOfHas
    <2> QED
        BY <1>3, <2>3
<1>5. inputs.a - operand - (1 - 1) = inputs.a - operand
    BY <1>1, SMT
<1>6. subtracted.status = UpdateStatusFlags(
            Put(Put(inputs.status, CARRY, TRUE), CARRY, result <= 255), U8(result))
    BY <1>3, <1>4, <1>5 DEF doSBC, SetA, Operands
<1>7. compared.a = inputs.a /\ compared.status = UpdateStatusFlags(
            Put(inputs.status, CARRY, result <= 255), U8(result))
    BY DEF doCMP, Operands
<1>8. Put(Put(inputs.status, CARRY, TRUE), CARRY, result <= 255)
        = Put(inputs.status, CARRY, result <= 255)
    <2> HIDE DEF result
    <2>1. \A k \in Masks : Has(Put(inputs.status, CARRY, TRUE), k) <=>
                               IF k = CARRY THEN TRUE ELSE Has(inputs.status, k)
        BY <1>2, PutHas
    <2>2. Ones(Put(inputs.status, CARRY, TRUE)) = Ones(inputs.status) \cup {CARRY}
        BY <1>2, <2>1 DEF Ones
    <2> QED
        BY <2>2 DEF Put
<1>9. result \in Int /\ (result <= 255 <=> inputs.a >= operand)
    BY <1>1, SMT DEF U16
<1>10. Has(compared.status, CARRY) <=> result <= 255
    <2>1. U8(result) \in Byte /\ (result <= 255) \in BOOLEAN
        BY <1>9, NarrowType
    <2> HIDE DEF result, compared
    <2> QED
        BY <1>7, <2>1, WritesCZN, Zenon
<1>11. Has(compared.status, CARRY) = (inputs.a >= operand)
    <2> HIDE DEF result, compared
    <2> QED
        BY <1>1, <1>9, <1>10 DEF Has
<1> QED
    BY <1>6, <1>7, <1>8, <1>11 DEF CompareIsSubtract

-----------------------------------------------------------------------------------
(* A carry of either operation, written to the status, is the carry of the next one.   *)
LEMMA CarryWritten ==
    ASSUME NEW s, NEW c \in BOOLEAN
    PROVE  CarryOf(Put(s, CARRY, c)) = IF c THEN 1 ELSE 0
<1>1. CARRY \in Masks
    BY DEF CARRY, Masks
<1>2. Has(Put(s, CARRY, c), CARRY) <=> c
    BY <1>1, PutHas
<1> QED
    BY <1>2, PutType, CarryOfHas

(* The lost bits of the two rotations.                                                 *)
LEMMA LostBits ==
    ASSUME Operands, NEW c \in {0, 1}
    PROVE  /\ 128 * (IF operand >= 128 THEN 1 ELSE 0) + (U8(2 * operand) + c) \div 2 = operand
           /\ (U8(2 * operand) + c) % 2 = c
           /\ U8(2 * (128 * c + operand \div 2)) + (operand % 2) = operand
           /\ 128 * c + operand \div 2 >= 128 <=> c = 1
           /\ U8(2 * operand) + c \in Byte
           /\ 128 * c + operand \div 2 \in Byte
           /\ U8(2 * operand) \div 2 = operand % 128
           /\ U8(2 * (operand \div 2)) = operand - (operand % 2)
<1>1. operand \in Int /\ 0 <= operand /\ operand <= 255
    BY ByteMember DEF Operands
<1>2. U8(2 * operand) = IF operand >= 128 THEN 2 * operand - 256 ELSE 2 * operand
    BY <1>1, SMT DEF U8
<1>3. operand = 2 * (operand \div 2) + (operand % 2) /\ operand % 2 \in {0, 1} /\ operand \div 2 \in Int
    BY <1>1, SMT
<1>4. 0 <= operand \div 2 /\ operand \div 2 <= 127
    BY <1>1, <1>3, SMT
<1>5. U8(2 * (128 * c + operand \div 2)) = 2 * (operand \div 2) /\ U8(2 * (operand \div 2)) = 2 * (operand \div 2)
    <2> DEFINE h == operand \div 2
    <2>1. h \in Int /\ 0 <= h /\ h <= 127
        BY <1>3, <1>4
    <2> HIDE DEF h
    <2>2. U8(2 * (128 * c + h)) = 2 * h /\ U8(2 * h) = 2 * h
        BY <2>1, SMT DEF U8
    <2> QED
        BY <2>2 DEF h
<1>6. CASE operand >= 128
    <2>1. U8(2 * operand) = 2 * operand - 256 /\ operand % 128 = operand - 128
        BY <1>1, <1>2, <1>6, SMT
    <2>2. (2 * operand - 256 + c) \div 2 = operand - 128 /\ (2 * operand - 256 + c) % 2 = c
        BY <1>1, SMT
    <2>3. (2 * operand - 256) \div 2 = operand - 128
        BY <1>1, SMT
    <2>4. 2 * operand - 256 + c \in Byte /\ 128 * c + operand \div 2 \in Byte
        BY <1>1, <1>3, <1>4, <1>6, ByteMember
    <2> QED
        BY <1>1, <1>3, <1>4, <1>5, <1>6, <2>1, <2>2, <2>3, <2>4
<1>7. CASE ~(operand >= 128)
    <2>1. U8(2 * operand) = 2 * operand /\ operand % 128 = operand
        BY <1>1, <1>2, <1>7, SMT
    <2>2. (2 * operand + c) \div 2 = operand /\ (2 * operand + c) % 2 = c /\ (2 * operand) \div 2 = operand
        BY <1>1, SMT
    <2>3. 2 * operand + c \in Byte /\ 128 * c + operand \div 2 \in Byte
        BY <1>1, <1>3, <1>4, <1>7, ByteMember
    <2> QED
        BY <1>1, <1>3, <1>4, <1>5, <1>7, <2>1, <2>2, <2>3
<1> QED
    BY <1>6, <1>7

(* ROL and ROR undo one another through the carry, for every byte and every status;     *)
(* ASL doubles and LSR halves what the other made (doROL, doROR, doASL, doLSR).        *)
THEOREM RotationsInvert ==
    ASSUME Operands
    PROVE  RotatesInvert
<1> DEFINE c == CarryOf(inputs.status)
           left == ROL(inputs.status, operand)
           right == ROR(inputs.status, operand)
           leftStatus == Put(inputs.status, CARRY, left.carry)
           rightStatus == Put(inputs.status, CARRY, right.carry)
<1>1. c \in {0, 1} /\ (c = 1 <=> Has(inputs.status, CARRY))
    BY CarryOfHas DEF Operands
<1>2. /\ left.value = U8(2 * operand) + c /\ left.carry = Has(operand, 128)
      /\ right.value = 128 * c + operand \div 2 /\ right.carry = Has(operand, 1)
    BY DEF ROL, ROR
<1>3. /\ 128 * (IF operand >= 128 THEN 1 ELSE 0) + (U8(2 * operand) + c) \div 2 = operand
      /\ (U8(2 * operand) + c) % 2 = c
      /\ U8(2 * (128 * c + operand \div 2)) + (operand % 2) = operand
      /\ 128 * c + operand \div 2 >= 128 <=> c = 1
      /\ U8(2 * operand) + c \in Byte
      /\ 128 * c + operand \div 2 \in Byte
      /\ U8(2 * operand) \div 2 = operand % 128
      /\ U8(2 * (operand \div 2)) = operand - (operand % 2)
    BY <1>1, LostBits
<1>4. CarryOf(leftStatus) = IF operand >= 128 THEN 1 ELSE 0
    <2>1. Has(operand, 128) \in BOOLEAN /\ (Has(operand, 128) <=> operand >= 128)
        BY TopBit DEF Has, Operands
    <2>2. CarryOf(Put(inputs.status, CARRY, Has(operand, 128))) = IF Has(operand, 128) THEN 1 ELSE 0
        BY <2>1, CarryWritten
    <2> QED
        BY <1>2, <2>1, <2>2
<1>5. CarryOf(rightStatus) = operand % 2
    <2>1. Has(operand, 1) \in BOOLEAN /\ (Has(operand, 1) <=> operand % 2 = 1) /\ operand % 2 \in {0, 1}
        BY ByteMember DEF Has, Operands
    <2>2. CarryOf(Put(inputs.status, CARRY, Has(operand, 1))) = IF Has(operand, 1) THEN 1 ELSE 0
        BY <2>1, CarryWritten
    <2> QED
        BY <1>2, <2>1, <2>2
<1>6. ROR(leftStatus, left.value) = [value |-> operand, carry |-> Has(inputs.status, CARRY)]
    <2>1. ROR(leftStatus, left.value) =
              [value |-> 128 * CarryOf(leftStatus) + left.value \div 2,
               carry |-> Has(left.value, 1)]
        BY DEF ROR
    <2>2. 128 * CarryOf(leftStatus) + left.value \div 2 = operand
        BY <1>2, <1>3, <1>4
    <2>3. Has(left.value, 1) <=> left.value % 2 = 1
        BY <1>2, <1>3, ByteMember DEF Has
    <2>4. Has(left.value, 1) = Has(inputs.status, CARRY)
        <3>1. Has(left.value, 1) <=> Has(inputs.status, CARRY)
            BY <1>1, <1>2, <1>3, <2>3
        <3> QED
            BY <3>1 DEF Has
    <2> QED
        BY <2>1, <2>2, <2>4, Zenon
<1>7. ROL(rightStatus, right.value) = [value |-> operand, carry |-> Has(inputs.status, CARRY)]
    <2>1. ROL(rightStatus, right.value) =
              [value |-> U8(2 * right.value) + CarryOf(rightStatus),
               carry |-> Has(right.value, 128)]
        BY DEF ROL
    <2>2. U8(2 * right.value) + CarryOf(rightStatus) = operand
        BY <1>2, <1>3, <1>5
    <2>3. Has(right.value, 128) <=> right.value >= 128
        BY <1>2, <1>3, TopBit
    <2>4. Has(right.value, 128) = Has(inputs.status, CARRY)
        <3>1. Has(right.value, 128) <=> Has(inputs.status, CARRY)
            BY <1>1, <1>2, <1>3, <2>3
        <3> QED
            BY <3>1 DEF Has
    <2> QED
        BY <2>1, <2>2, <2>4, Zenon
<1>8. /\ LSR(0, ASL(0, operand).value).value = operand % 128
      /\ ASL(0, LSR(0, operand).value).value = operand - (operand % 2)
    BY <1>3 DEF LSR, ASL
<1> QED
    BY <1>6, <1>7, <1>8, Zenon DEF RotatesInvert

-----------------------------------------------------------------------------------
(* The common and the present bits weigh what the bits of both bytes weigh.             *)
LEMMA CommonAndPresent ==
    ASSUME NEW S, NEW T
    PROVE  /\ ByteOf(S \cap T) + ByteOf(S \cup T) = ByteOf(S) + ByteOf(T)
           /\ ByteOf((S \cup T) \ (S \cap T)) = ByteOf(S \cup T) - ByteOf(S \cap T)
<1> DEFINE D == (S \cup T) \ (S \cap T)
           C == S \cap T
           P == S \cup T
           Split(k) == /\ Weight(C, k) + Weight(P, k) = Weight(S, k) + Weight(T, k)
                       /\ Weight(D, k) = Weight(P, k) - Weight(C, k)
                       /\ Weight(S, k) \in Int /\ Weight(T, k) \in Int
                       /\ Weight(C, k) \in Int /\ Weight(P, k) \in Int
<1>1. ASSUME NEW k \in Int
      PROVE  Split(k)
    BY DEF Weight
<1> HIDE DEF D, C, P
<1>2. Split(1) /\ Split(2) /\ Split(4) /\ Split(8)
    BY <1>1
<1>3. Split(16) /\ Split(32) /\ Split(64) /\ Split(128)
    BY <1>1
<1>4. \A U : ByteOf(U) = Weight(U, 1) + Weight(U, 2) + Weight(U, 4) + Weight(U, 8)
                         + Weight(U, 16) + Weight(U, 32) + Weight(U, 64) + Weight(U, 128)
    BY DEF ByteOf, Weight
<1>5. ByteOf(C) + ByteOf(P) = ByteOf(S) + ByteOf(T)
    BY <1>2, <1>3, <1>4, SMTT(60)
<1>6. ByteOf(D) = ByteOf(P) - ByteOf(C)
    BY <1>2, <1>3, <1>4, SMTT(60)
<1> QED
    BY <1>5, <1>6 DEF D, C, P

(* The flags after an operation that writes Z and N only.                              *)
LEMMA WritesZN ==
    ASSUME NEW v \in Byte, NEW after, after.status = UpdateStatusFlags(inputs.status, v)
    PROVE  FlagsFollow(after, v, {ZERO, NEGATIVE})
<1>1. ZERO \in Masks /\ NEGATIVE \in Masks /\ ZERO # NEGATIVE
    BY DEF ZERO, NEGATIVE, Masks
<1>2. \A k \in Masks : Has(after.status, k) <=>
          IF k = NEGATIVE THEN v >= 128 ELSE IF k = ZERO THEN v = 0 ELSE Has(inputs.status, k)
    BY FlagsHas
<1>3. Has(after.status, ZERO) = (v = 0) /\ Has(after.status, NEGATIVE) = (v >= 128)
    <2>1. Has(after.status, ZERO) <=> v = 0
        BY <1>1, <1>2
    <2>2. Has(after.status, NEGATIVE) <=> v >= 128
        BY <1>1, <1>2
    <2> QED
        BY <2>1, <2>2, ByteMember DEF Has
<1>4. Ones(after.status) \ {ZERO, NEGATIVE} = Ones(inputs.status) \ {ZERO, NEGATIVE}
    BY <1>2 DEF Ones
<1> QED
    BY <1>3, <1>4 DEF FlagsFollow

(* AND, ORA and EOR split the bits of accumulator and operand into the common, the      *)
(* present and the differing ones, and BIT sees the common ones (doAND, doORA, doEOR,  *)
(* doBIT), for every pair of bytes.                                                    *)
THEOREM BitwiseIsExact ==
    ASSUME Operands
    PROVE  BitwiseExact
<1> DEFINE S == Ones(inputs.a)
           T == Ones(operand)
           differing == doEOR(inputs, operand)
<1>1. inputs.a \in Byte /\ operand \in Byte /\ ByteOf(S) = inputs.a /\ ByteOf(T) = operand
    BY ByteOfOnes DEF Operands
<1>2. /\ doAND(inputs, operand).a = ByteOf(S \cap T)
      /\ doORA(inputs, operand).a = ByteOf(S \cup T)
      /\ differing.a = ByteOf((S \cup T) \ (S \cap T))
      /\ differing.status = UpdateStatusFlags(inputs.status, differing.a)
    BY DEF doAND, doORA, doEOR, SetA, BitAnd, BitOr, BitXor, Operands
<1>3. /\ doAND(inputs, operand).a + doORA(inputs, operand).a = inputs.a + operand
      /\ differing.a = doORA(inputs, operand).a - doAND(inputs, operand).a
    BY <1>1, <1>2, CommonAndPresent
<1>4. FlagsFollow(differing, differing.a, {ZERO, NEGATIVE})
    <2>1. differing.a \in Byte
        BY <1>2, ByteOfType
    <2> HIDE DEF differing
    <2> QED
        BY <1>2, <2>1, WritesZN
<1>5. Has(doBIT(inputs, operand).status, ZERO) = (doAND(inputs, operand).a = 0)
    <2> DEFINE common == BitAnd(operand, inputs.a) = 0
               others == Put(Put(inputs.status, OVERFLOW, Has(operand, 64)), NEGATIVE, Has(operand, 128))
    <2>1. common = (doAND(inputs, operand).a = 0)
        <3>1. S \cap T = T \cap S
            OBVIOUS
        <3> QED
            BY <1>2, <3>1 DEF BitAnd
    <2>2. doBIT(inputs, operand).status = Put(others, ZERO, common)
        BY DEF doBIT, Operands
    <2>3. common \in BOOLEAN /\ ZERO \in Masks
        BY DEF ZERO, Masks
    <2>4. Has(Put(others, ZERO, common), ZERO) <=> common
        <3> HIDE DEF common, others
        <3> QED
            BY <2>3, PutHas
    <2>5. Has(Put(others, ZERO, common), ZERO) = common
        BY <2>4 DEF Has
    <2> HIDE DEF common, others
    <2> QED
        BY <2>1, <2>2, <2>5, Zenon
<1> QED
    BY <1>3, <1>4, <1>5 DEF BitwiseExact
==================================================================================
