-------------------------------- MODULE Arithmetic --------------------------------
(***********************************************************************************)
(* The arithmetic of Alu.tla over every accumulator and every operand byte, with    *)
(* all flags clear and with all flags set. The operand is counted up; the           *)
(* properties compare what the operators return with plain integers.                *)
(***********************************************************************************)
EXTENDS Alu

VARIABLES
    inputs,     \* accumulator and status
    operand     \* the operand byte

OperandsInit == inputs \in [a : Byte, status : {0, 255}] /\ operand = 0

NextOperand == operand < 255 /\ operand' = operand + 1 /\ UNCHANGED inputs

-----------------------------------------------------------------------------------
(* Z and N tell the result; the flags outside touched are as they were.                *)
FlagsFollow(after, result, touched) ==
    /\ Has(after.status, ZERO) = (result = 0)
    /\ Has(after.status, NEGATIVE) = (result >= 128)
    /\ Ones(after.status) \ touched = Ones(inputs.status) \ touched

CZN == {CARRY, ZERO, NEGATIVE}

(* ADC and SBC lose nothing: accumulator and carry together are the sum and the        *)
(* difference, so that operations on several bytes, chained through C, are exact       *)
(* (doADC, doSBC; binary mode).                                                        *)
ArithmeticExact ==
    LET sum == doADC(inputs, operand)
        difference == doSBC(inputs, operand)
    IN  /\ sum.a + 256 * CarryOf(sum.status) = inputs.a + operand + CarryOf(inputs.status)
        /\ FlagsFollow(sum, sum.a, CZN)
        /\ difference.a - 256 * (1 - CarryOf(difference.status))
             = inputs.a - operand - (1 - CarryOf(inputs.status))
        /\ FlagsFollow(difference, difference.a, CZN)

(* CMP leaves the flags that SBC would leave with the carry set, and orders the bytes  *)
(* as unsigned numbers: C after it means "not below" (doCMP).                          *)
CompareIsSubtract ==
    LET compared == doCMP(inputs, inputs.a, operand)
        subtracted == doSBC([inputs EXCEPT !.status = Put(@, CARRY, TRUE)], operand)
    IN  /\ compared.a = inputs.a
        /\ compared.status = subtracted.status
        /\ Has(compared.status, CARRY) = (inputs.a >= operand)

(* Through the carry, ROL and ROR undo one another in either order; on a byte whose    *)
(* lost bit is 0 ASL doubles and LSR halves what the other made.                       *)
RotatesInvert ==
    LET status(r) == Put(inputs.status, CARRY, r.carry)
        left == ROL(inputs.status, operand)
        right == ROR(inputs.status, operand)
        start == [value |-> operand, carry |-> Has(inputs.status, CARRY)]
    IN  /\ ROR(status(left), left.value) = start
        /\ ROL(status(right), right.value) = start
        /\ LSR(0, ASL(0, operand).value).value = operand % 128
        /\ ASL(0, LSR(0, operand).value).value = operand - (operand % 2)

(* AND, ORA and EOR split the bits of the two bytes into the common, the present and   *)
(* the differing ones; BIT sees the common ones without storing them.                  *)
BitwiseExact ==
    LET both == doAND(inputs, operand)
        any == doORA(inputs, operand)
        differing == doEOR(inputs, operand)
    IN  /\ both.a + any.a = inputs.a + operand
        /\ differing.a = any.a - both.a
        /\ FlagsFollow(differing, differing.a, {ZERO, NEGATIVE})
        /\ Has(doBIT(inputs, operand).status, ZERO) = (both.a = 0)
==================================================================================
