----------------------------------- MODULE Alu -----------------------------------
(***********************************************************************************)
(* The arithmetic of devices/W65C02S/W65C02S.cpp: the do... members, each as the    *)
(* register file it leaves behind. c is the register file (a record with at least   *)
(* the fields a, x, y and status) and m the byte fetchByte() returned.              *)
(***********************************************************************************)
EXTENDS Bytes

(* updateStatusFlags(value): Z and N follow the value, the other flags stay. *)
UpdateStatusFlags(status, value) ==
    Put(Put(status, ZERO, value = 0), NEGATIVE, Has(value, 128))

(* The accumulator takes v, and Z and N with it. *)
SetA(c, v) == [c EXCEPT !.a = v, !.status = UpdateStatusFlags(c.status, v)]
SetX(c, v) == [c EXCEPT !.x = v, !.status = UpdateStatusFlags(c.status, v)]
SetY(c, v) == [c EXCEPT !.y = v, !.status = UpdateStatusFlags(c.status, v)]

doAND(c, m) == SetA(c, BitAnd(c.a, m))
doORA(c, m) == SetA(c, BitOr(c.a, m))

(* A slip the runs must notice: the wrong operator.                                   *)
doEOROr(c, m) == SetA(c, BitOr(c.a, m))

doEOR(c, m) == SetA(c, BitXor(c.a, m))

(* Binary arithmetic whatever the D flag says; V is left as it was. The sum and the  *)
(* difference are uint16_t, so a borrow shows as a result above 0xFF.                *)
(* A slip the runs must notice: the carry comes one too late.                         *)
doADCLate(c, m) ==
    LET result == c.a + m + CarryOf(c.status)
        carried == [c EXCEPT !.status = Put(c.status, CARRY, result > 256)]
    IN  SetA(carried, U8(result))

doADC(c, m) ==
    LET result == c.a + m + CarryOf(c.status)
        carried == [c EXCEPT !.status = Put(c.status, CARRY, result > 255)]
    IN  SetA(carried, U8(result))

doSBC(c, m) ==
    LET result == U16(c.a - m - (1 - CarryOf(c.status)))
        carried == [c EXCEPT !.status = Put(c.status, CARRY, result <= 255)]
    IN  SetA(carried, U8(result))

(* reg is the register _ir selects. *)
(* A slip the runs must notice: equal bytes compare as below.                         *)
doCMPStrict(c, reg, m) ==
    LET result == U16(reg - m)
    IN  [c EXCEPT !.status =
            UpdateStatusFlags(Put(c.status, CARRY, result \in 1 .. 255), U8(result))]

doCMP(c, reg, m) ==
    LET result == U16(reg - m)
    IN  [c EXCEPT !.status =
            UpdateStatusFlags(Put(c.status, CARRY, result <= 255), U8(result))]

doBIT(c, m) ==
    [c EXCEPT !.status =
        Put(Put(Put(c.status, OVERFLOW, Has(m, 64)), NEGATIVE, Has(m, 128)),
            ZERO, BitAnd(m, c.a) = 0)]

-----------------------------------------------------------------------------------
(* The read-modify-write operations on a byte v: the byte written back and the carry. *)
(* ASL and LSR only ever set the carry (_status |= ...): one that was set stays set.  *)
ASL(status, v) == [value |-> U8(2 * v), carry |-> Has(status, CARRY) \/ Has(v, 128)]
LSR(status, v) == [value |-> v \div 2,  carry |-> Has(status, CARRY) \/ Has(v, 1)]

(* Slips the runs must notice: ROL takes the carry from the bit next to the top, ROR    *)
(* shifts in a zero.                                                                  *)
ROLNextBit(status, v) == [value |-> U8(2 * v) + CarryOf(status), carry |-> Has(v, 64)]
RORShifts(status, v)  == [value |-> v \div 2, carry |-> Has(v, 1)]

ROL(status, v) == [value |-> U8(2 * v) + CarryOf(status), carry |-> Has(v, 128)]
ROR(status, v) == [value |-> 128 * CarryOf(status) + v \div 2, carry |-> Has(v, 1)]
INC(status, v) == [value |-> U8(v + 1), carry |-> Has(status, CARRY)]
DEC(status, v) == [value |-> U8(v - 1), carry |-> Has(status, CARRY)]

(* doASL(true) ... doDEC(true): the result goes to the accumulator. *)
ToAccumulator(c, r) ==
    SetA([c EXCEPT !.status = Put(c.status, CARRY, r.carry)], r.value)

(* doASL(false) ... doROR(false): the result goes to memory, and Z and N are taken   *)
(* from the accumulator. doINC(false) and doDEC(false) take them from the result.    *)
ShiftedInMemory(c, r) ==
    [c EXCEPT !.status = UpdateStatusFlags(Put(c.status, CARRY, r.carry), c.a)]

CountedInMemory(c, r) ==
    [c EXCEPT !.status = UpdateStatusFlags(c.status, r.value)]

-----------------------------------------------------------------------------------
(* The switch on the opcode in a mode's handler, by what the operation does with it:  *)
(* read a byte m into the registers c,                                                *)
ReadResult(op, c, m) ==
    CASE op = "LDA" -> SetA(c, m)
      [] op = "LDX" -> SetX(c, m)
      [] op = "LDY" -> SetY(c, m)
      [] op = "AND" -> doAND(c, m)
      [] op = "ORA" -> doORA(c, m)
      [] op = "EOR" -> doEOR(c, m)
      [] op = "ADC" -> doADC(c, m)
      [] op = "SBC" -> doSBC(c, m)
      [] op = "CMP" -> doCMP(c, c.a, m)
      [] op = "CPX" -> doCMP(c, c.x, m)
      [] op = "CPY" -> doCMP(c, c.y, m)
      [] op = "BIT" -> doBIT(c, m)

(* shift or count a byte v, and tell of the result r in the flags,                     *)
ModifyResult(op, status, v) ==
    CASE op = "ASL" -> ASL(status, v)
      [] op = "LSR" -> LSR(status, v)
      [] op = "ROL" -> ROL(status, v)
      [] op = "ROR" -> ROR(status, v)
      [] op = "INC" -> INC(status, v)
      [] op = "DEC" -> DEC(status, v)

InMemory(op, c, r) ==
    IF op \in {"INC", "DEC"} THEN CountedInMemory(c, r) ELSE ShiftedInMemory(c, r)

(* store a register,                                                                   *)
StoredByte(op, c) ==
    CASE op = "STA" -> c.a
      [] op = "STX" -> c.x
      [] op = "STY" -> c.y

(* or work on registers alone.                                                         *)
RegisterResult(op, c) ==
    CASE op = "CLC" -> [c EXCEPT !.status = Put(c.status, CARRY, FALSE)]
      [] op = "SEC" -> [c EXCEPT !.status = Put(c.status, CARRY, TRUE)]
      [] op = "CLI" -> [c EXCEPT !.status = Put(c.status, INTERRUPT, FALSE)]
      [] op = "SEI" -> [c EXCEPT !.status = Put(c.status, INTERRUPT, TRUE)]
      [] op = "CLV" -> [c EXCEPT !.status = Put(c.status, OVERFLOW, FALSE)]
      [] op = "CLD" -> [c EXCEPT !.status = Put(c.status, DECIMAL, FALSE)]
      [] op = "SED" -> [c EXCEPT !.status = Put(c.status, DECIMAL, TRUE)]
      [] op = "TAX" -> SetX(c, c.a)
      [] op = "TXA" -> SetA(c, c.x)
      [] op = "TAY" -> SetY(c, c.a)
      [] op = "TYA" -> SetA(c, c.y)
      [] op = "TXS" -> [c EXCEPT !.sp = c.x]
      [] op = "TSX" -> SetX(c, c.sp)
      [] op = "INX" -> SetX(c, U8(c.x + 1))
      [] op = "DEX" -> SetX(c, U8(c.x - 1))
      [] op = "INY" -> SetY(c, U8(c.y + 1))
      [] op = "DEY" -> SetY(c, U8(c.y - 1))
      [] OTHER -> c
==================================================================================
