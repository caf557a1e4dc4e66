----------------------------------- MODULE ISA -----------------------------------
(***********************************************************************************)
(* What a program may rely on: the instruction set as a programmer's manual states  *)
(* it, one instruction or one interrupt entry per step, with no clock, no bus and no *)
(* latches. W65C02S_Trace shows that the clocked machine of W65C02S implements it.  *)
(*                                                                                  *)
(* Nothing here follows the emulator's code: addresses are computed with the        *)
(* arithmetic of the manual, results with integer arithmetic, and the flags as sets. *)
(* Where the repository's tests fix a choice of their own it is taken from them: BRK *)
(* pushes the address after its opcode byte (interrupt_test.cpp) and PHP pushes the *)
(* status byte as it is (test_stack.cpp).                                           *)
(*                                                                                  *)
(* The emulator is known to differ in a few places. Each has a name; the constant   *)
(* Waived says which of them this specification tolerates, and for a waived one     *)
(* only what the difference touches is left open.                                   *)
(*                                                                                  *)
(* An instruction may load from, store to or modify a device register: what it       *)
(* finds there is any byte. Code and pointers are taken from SRAM and EEPROM.        *)
(***********************************************************************************)
EXTENDS Bytes

CONSTANTS
    OpcodeMap,      \* opcode byte -> [op, mode, cycles]
    Waived          \* the names of the tolerated differences

VARIABLES
    regs,           \* [a, x, y, sp, pc, status]
    mem,            \* the SRAM: a function of the bytes written, 0 elsewhere
    image           \* the EEPROM

isaVars == <<regs, mem, image>>

Differences ==
    {"StickyCarry",     \* ASL and LSR never clear the carry
     "ShiftFlags",      \* memory shifts and rotates take Z and N from the accumulator
     "NoOverflow",      \* ADC and SBC leave V alone
     "Decimal",         \* ADC and SBC are binary whatever D says
     "PointerCarry",    \* (zp),Y loses the carry into the high byte
     "PointerWrap",     \* a zero page pointer at 0xFF takes its high byte from 0x100
     "JumpIndirect",    \* JMP (xxFF) may take its high byte from the wrong page
     "CountZPX",        \* INC zp,X and DEC zp,X do nothing
     "BVS",             \* BVS branches on V clear
     "ReturnB",         \* RTI loads B from the stack
     "InterruptB",      \* an interrupt may push a status byte with B set
     "NMIMask"}         \* an NMI does not set I

-----------------------------------------------------------------------------------
At(f, a) == IF a \in DOMAIN f THEN f[a] ELSE 0

PeekIn(f, a) == IF a < 32768 THEN At(f, a) ELSE At(image, a)

Peek(a) == PeekIn(mem, a)

(* A store reaches the SRAM only. *)
Poke(f, a, v) ==
    IF a < 16384 THEN [b \in DOMAIN f \cup {a} |-> IF b = a THEN v ELSE f[b]] ELSE f

Opcode == Peek(regs.pc)
Known  == Opcode \in DOMAIN OpcodeMap
Op     == OpcodeMap[Opcode].op
Mode   == OpcodeMap[Opcode].mode
Byte1  == Peek(U16(regs.pc + 1))
Byte2  == Peek(U16(regs.pc + 2))

Length ==
    CASE Mode \in {"IMP", "ACC"} -> 1
      [] Mode \in {"ABS", "ABSX", "ABSY", "IND"} -> 3
      [] OTHER -> 2

(* The word a zero page pointer holds, and the effective address of each mode. *)
Pointer(z) == Join(Peek(U8(z + 1)), Peek(U8(z)))

EffectiveAddress ==
    CASE Mode = "IMM"  -> U16(regs.pc + 1)
      [] Mode = "ZP"   -> Byte1
      [] Mode = "ZPX"  -> U8(Byte1 + regs.x)
      [] Mode = "ZPY"  -> U8(Byte1 + regs.y)
      [] Mode = "ABS"  -> Join(Byte2, Byte1)
      [] Mode = "ABSX" -> U16(Join(Byte2, Byte1) + regs.x)
      [] Mode = "ABSY" -> U16(Join(Byte2, Byte1) + regs.y)
      [] Mode = "INDX" -> Pointer(Byte1 + regs.x)
      [] Mode = "INDY" -> U16(Pointer(Byte1) + regs.y)
      [] Mode = "IND"  -> LET p == Join(Byte2, Byte1)
                          IN  Join(Peek(U16(p + 1)), Peek(p))

(* What the operand may be: the byte of a memory cell, or whatever a device answers. *)
Found(a) == IF a < 16384 \/ a >= 32768 THEN {Peek(a)} ELSE Byte

Operands ==
    CASE Mode = "ACC" -> {regs.a}
      [] Mode \in {"IMP", "IND", "REL"} -> {}
      [] OTHER -> Found(EffectiveAddress)

Then == [regs EXCEPT !.pc = U16(regs.pc + Length)]

-----------------------------------------------------------------------------------
(* Flags as sets of masks: the ones a byte sets, and a status byte with the flags of  *)
(* written replaced by those of on.                                                   *)
If(flag, condition) == IF condition THEN {flag} ELSE {}
NZ(v) == If(NEGATIVE, v >= 128) \cup If(ZERO, v = 0)

Status(written, on) == ByteOf((Ones(regs.status) \ written) \cup on)

SameMemory(f, g) == \A a \in DOMAIN f \cup DOMAIN g : At(f, a) = At(g, a)

(* The step leads to the registers r and the memory f; the flags of open are not said. *)
Becomes(r, f, open) ==
    /\ regs' = [r EXCEPT !.status = regs'.status]
    /\ Ones(regs'.status) \ open = Ones(r.status) \ open
    /\ SameMemory(mem', f)

Waive(name, flags) == IF name \in Waived THEN flags ELSE {}

Load(register, v) ==
    Becomes([Then EXCEPT ![register] = v, !.status = Status({ZERO, NEGATIVE}, NZ(v))], mem, {})

(* Decimal mode: two binary-coded digits. The flags other than C are not said, nor the *)
(* result for a byte that is not a pair of digits.                                     *)
IsBCD(v)   == v % 16 < 10 /\ v \div 16 < 10
FromBCD(v) == 10 * (v \div 16) + (v % 16)
ToBCD(n)   == 16 * (n \div 10) + (n % 10)

DecimalMode == Has(regs.status, DECIMAL) /\ "Decimal" \notin Waived

AddDecimal(n, m) ==
    \/ /\ IsBCD(regs.a) /\ IsBCD(m)
       /\ Becomes([Then EXCEPT !.a = ToBCD(n % 100),
                               !.status = Status({CARRY}, If(CARRY, n >= 100))],
                  mem, {ZERO, NEGATIVE, OVERFLOW})
    \/ /\ ~(IsBCD(regs.a) /\ IsBCD(m))
       /\ regs' = [Then EXCEPT !.a = regs'.a, !.status = regs'.status]
       /\ SameMemory(mem', mem)

(* a + v + carry in two's complement. *)
Add(v) ==
    LET c == CarryOf(regs.status)
        sum == regs.a + v + c
        signed == Signed(regs.a) + Signed(v) + c
        on == NZ(U8(sum)) \cup If(CARRY, sum > 255) \cup If(OVERFLOW, signed \notin -128 .. 127)
    IN  Becomes([Then EXCEPT !.a = U8(sum),
                             !.status = Status({ZERO, NEGATIVE, CARRY, OVERFLOW}, on)],
                mem, Waive("NoOverflow", {OVERFLOW}))

Compare(reg, m) ==
    Becomes([Then EXCEPT !.status = Status({ZERO, NEGATIVE, CARRY},
                                           NZ(U8(reg - m)) \cup If(CARRY, reg >= m))],
            mem, {})

TestBits(m) ==
    Becomes([Then EXCEPT !.status =
                Status({ZERO, NEGATIVE, OVERFLOW},
                       (Ones(m) \cap {NEGATIVE, OVERFLOW})
                         \cup If(ZERO, Ones(m) \cap Ones(regs.a) = {}))],
            mem, {})

ReadInstruction(m) ==
    \/ Op = "LDA" /\ Load("a", m)
    \/ Op = "LDX" /\ Load("x", m)
    \/ Op = "LDY" /\ Load("y", m)
    \/ Op = "AND" /\ Load("a", ByteOf(Ones(regs.a) \cap Ones(m)))
    \/ Op = "ORA" /\ Load("a", ByteOf(Ones(regs.a) \cup Ones(m)))
    \/ Op = "EOR" /\ Load("a", ByteOf({k \in Masks : Has(regs.a, k) # Has(m, k)}))
    \/ Op = "ADC" /\ ~DecimalMode /\ Add(m)
    \/ Op = "SBC" /\ ~DecimalMode /\ Add(255 - m)
    \/ /\ Op = "ADC" /\ DecimalMode
       /\ AddDecimal(FromBCD(regs.a) + FromBCD(m) + CarryOf(regs.status), m)
    \/ /\ Op = "SBC" /\ DecimalMode
       /\ AddDecimal(FromBCD(regs.a) + 99 - FromBCD(m) + CarryOf(regs.status), m)
    \/ Op = "CMP" /\ Compare(regs.a, m)
    \/ Op = "CPX" /\ Compare(regs.x, m)
    \/ Op = "CPY" /\ Compare(regs.y, m)
    \/ Op = "BIT" /\ TestBits(m)

StoreInstruction ==
    \/ Op = "STA" /\ Becomes(Then, Poke(mem, EffectiveAddress, regs.a), {})
    \/ Op = "STX" /\ Becomes(Then, Poke(mem, EffectiveAddress, regs.x), {})
    \/ Op = "STY" /\ Becomes(Then, Poke(mem, EffectiveAddress, regs.y), {})

(* A shift, rotate or count of the accumulator or of memory: the result v, and the     *)
(* carry it leaves.                                                                   *)
Modify(v, carry, open) ==
    LET after == [Then EXCEPT !.status =
                    Status({ZERO, NEGATIVE, CARRY}, NZ(v) \cup If(CARRY, carry))]
    IN  IF Mode = "ACC"
        THEN Becomes([after EXCEPT !.a = v], mem, open)
        ELSE Becomes(after, Poke(mem, EffectiveAddress, v), open)

Carry == Has(regs.status, CARRY)

OpenFlags ==
    LET sticky == IF Op \in {"ASL", "LSR"} THEN Waive("StickyCarry", If(CARRY, Carry)) ELSE {}
        memory == IF Mode # "ACC" /\ Op \in {"ASL", "LSR", "ROL", "ROR"}
                  THEN Waive("ShiftFlags", {ZERO, NEGATIVE}) ELSE {}
    IN  sticky \cup memory

ModifyInstruction(v) ==
    \/ Op = "ASL" /\ Modify((2 * v) % 256, v >= 128, OpenFlags)
    \/ Op = "LSR" /\ Modify(v \div 2, v % 2 = 1, OpenFlags)
    \/ Op = "ROL" /\ Modify((2 * v + CarryOf(regs.status)) % 256, v >= 128, OpenFlags)
    \/ Op = "ROR" /\ Modify((v + 256 * CarryOf(regs.status)) \div 2, v % 2 = 1, OpenFlags)
    \/ Op = "INC" /\ Modify((v + 1) % 256, Carry, OpenFlags)
    \/ Op = "DEC" /\ Modify((v + 255) % 256, Carry, OpenFlags)

RegisterInstruction ==
    \/ Op = "TAX" /\ Load("x", regs.a)
    \/ Op = "TAY" /\ Load("y", regs.a)
    \/ Op = "TXA" /\ Load("a", regs.x)
    \/ Op = "TYA" /\ Load("a", regs.y)
    \/ Op = "TSX" /\ Load("x", regs.sp)
    \/ Op = "TXS" /\ Becomes([Then EXCEPT !.sp = regs.x], mem, {})
    \/ Op = "INX" /\ Load("x", (regs.x + 1) % 256)
    \/ Op = "INY" /\ Load("y", (regs.y + 1) % 256)
    \/ Op = "DEX" /\ Load("x", (regs.x + 255) % 256)
    \/ Op = "DEY" /\ Load("y", (regs.y + 255) % 256)
    \/ Op = "NOP" /\ Becomes(Then, mem, {})
    \/ Op = "CLC" /\ Becomes([Then EXCEPT !.status = Status({CARRY}, {})], mem, {})
    \/ Op = "SEC" /\ Becomes([Then EXCEPT !.status = Status({}, {CARRY})], mem, {})
    \/ Op = "CLI" /\ Becomes([Then EXCEPT !.status = Status({INTERRUPT}, {})], mem, {})
    \/ Op = "SEI" /\ Becomes([Then EXCEPT !.status = Status({}, {INTERRUPT})], mem, {})
    \/ Op = "CLV" /\ Becomes([Then EXCEPT !.status = Status({OVERFLOW}, {})], mem, {})
    \/ Op = "CLD" /\ Becomes([Then EXCEPT !.status = Status({DECIMAL}, {})], mem, {})
    \/ Op = "SED" /\ Becomes([Then EXCEPT !.status = Status({}, {DECIMAL})], mem, {})

-----------------------------------------------------------------------------------
(* The stack grows down through page 1 and wraps within it. *)
Slot(n) == 256 + U8(regs.sp - n)
Pulled(n) == Peek(256 + U8(regs.sp + n))
Sp(n) == U8(regs.sp + n)

StackInstruction ==
    \/ Op = "PHA" /\ Becomes([Then EXCEPT !.sp = Sp(-1)], Poke(mem, Slot(0), regs.a), {})
    \/ Op = "PHP" /\ Becomes([Then EXCEPT !.sp = Sp(-1)], Poke(mem, Slot(0), regs.status), {})
    \/ /\ Op = "PLA"
       /\ Becomes([Then EXCEPT !.sp = Sp(1), !.a = Pulled(1),
                               !.status = Status({ZERO, NEGATIVE}, NZ(Pulled(1)))], mem, {})
    \/ /\ Op = "PLP"
       /\ Becomes([Then EXCEPT !.sp = Sp(1), !.status = ByteOf(Ones(Pulled(1)) \ {BREAK})],
                  mem, {})

(* JSR pushes the address of its own last byte, and RTS returns behind it. The 6502     *)
(* reads that byte after it has pushed.                                                *)
JumpInstruction ==
    LET last == U16(regs.pc + 2)
        pushed == Poke(Poke(mem, Slot(0), Hi(last)), Slot(1), Lo(last))
    IN  \/ Op = "JMP" /\ Becomes([regs EXCEPT !.pc = EffectiveAddress], mem, {})
        \/ /\ Op = "JSR"
           /\ Becomes([regs EXCEPT !.pc = Join(PeekIn(pushed, last), Byte1), !.sp = Sp(-2)],
                      pushed, {})
        \/ /\ Op = "RTS"
           /\ Becomes([regs EXCEPT !.pc = U16(Join(Pulled(2), Pulled(1)) + 1), !.sp = Sp(2)],
                      mem, {})
        \/ /\ Op = "RTI"
           /\ Becomes([regs EXCEPT !.pc = Join(Pulled(3), Pulled(2)), !.sp = Sp(3),
                          !.status = ByteOf((Ones(Pulled(1)) \ {BREAK})
                                              \cup (Ones(regs.status) \cap {BREAK}))],
                      mem, Waive("ReturnB", {BREAK}))

Branch(flag, value) ==
    Becomes([Then EXCEPT !.pc = IF Has(regs.status, flag) = value
                                THEN U16(Then.pc + Signed(Byte1)) ELSE @], mem, {})

BranchInstruction ==
    \/ Op = "BEQ" /\ Branch(ZERO, TRUE)
    \/ Op = "BNE" /\ Branch(ZERO, FALSE)
    \/ Op = "BMI" /\ Branch(NEGATIVE, TRUE)
    \/ Op = "BPL" /\ Branch(NEGATIVE, FALSE)
    \/ Op = "BCS" /\ Branch(CARRY, TRUE)
    \/ Op = "BCC" /\ Branch(CARRY, FALSE)
    \/ Op = "BVS" /\ Branch(OVERFLOW, TRUE)
    \/ Op = "BVC" /\ Branch(OVERFLOW, FALSE)

(* An interrupt frame: return address and status byte, then the handler runs with     *)
(* interrupts masked. soft says whether B is to be set in the byte pushed; the open    *)
(* flags of the two status bytes are not said.                                        *)
Enter(vector, return, soft, openPushed, openLive) ==
    LET pushed == ByteOf((Ones(regs.status) \ {BREAK}) \cup If(BREAK, soft))
        frame(v) == Poke(Poke(Poke(mem, Slot(0), Hi(return)), Slot(1), Lo(return)), Slot(2), v)
    IN  \E open \in SUBSET openPushed :
            Becomes([regs EXCEPT !.pc = Join(Peek(vector + 1), Peek(vector)), !.sp = Sp(-3),
                                 !.status = Status({}, {INTERRUPT})],
                    frame(ByteOf((Ones(pushed) \ openPushed) \cup open)), openLive)

IRQVector == 65534
NMIVector == 65530

Break ==
    Op = "BRK" /\ Enter(IRQVector, U16(regs.pc + 1), TRUE, {}, {})

IRQ ==
    /\ ~Has(regs.status, INTERRUPT)
    /\ Enter(IRQVector, regs.pc, FALSE, Waive("InterruptB", {BREAK}), {})

NMI == Enter(NMIVector, regs.pc, FALSE, Waive("InterruptB", {BREAK}), Waive("NMIMask", {INTERRUPT}))

-----------------------------------------------------------------------------------
(* The waived differences that do more than leave a flag open. The program still       *)
(* continues at the next instruction, with the stack pointer where it was; for the two *)
(* that are jumps, only the program counter is left open.                              *)
WrongOperand ==
    \/ /\ "PointerCarry" \in Waived
       /\ Mode = "INDY"
       /\ Peek(Byte1) + regs.y > 255
    \/ /\ "PointerWrap" \in Waived
       /\ \/ Mode = "INDY" /\ Byte1 = 255
          \/ Mode = "INDX" /\ U8(Byte1 + regs.x) = 255
    \/ "CountZPX" \in Waived /\ Mode = "ZPX" /\ Op \in {"INC", "DEC"}

WrongTarget ==
    \/ "JumpIndirect" \in Waived /\ Mode = "IND" /\ Byte1 = 255 /\ Byte2 % 2 = 1
    \/ "BVS" \in Waived /\ Op = "BVS"

Difference ==
    \/ /\ WrongOperand
       /\ regs'.pc = Then.pc
       /\ regs'.sp = regs.sp
       /\ regs'.x = regs.x
       /\ regs'.y = regs.y
    \/ /\ WrongTarget
       /\ regs' = [regs EXCEPT !.pc = regs'.pc]
       /\ SameMemory(mem', mem)

Instruction ==
    /\ Known
    /\ \/ \E m \in Operands : ReadInstruction(m) \/ ModifyInstruction(m)
       \/ StoreInstruction \/ RegisterInstruction \/ StackInstruction
       \/ JumpInstruction \/ BranchInstruction \/ Break \/ Difference

(* After reset: registers cleared, and execution starts at the reset vector. *)
Cleared ==
    [a |-> 0, x |-> 0, y |-> 0, sp |-> 255, status |-> 0,
     pc |-> Join(At(image, 65533), At(image, 65532))]

Init ==
    /\ regs = Cleared
    /\ mem = [a \in {} |-> 0]

RES == regs' = Cleared /\ SameMemory(mem', mem)

Next == (Instruction \/ IRQ \/ NMI \/ RES) /\ UNCHANGED image

Spec == Init /\ [][Next]_isaVars

(* From any state of the registers and the memory. *)
Steps == [][Next]_isaVars
==================================================================================
