----------------------------- MODULE W65C02S_Cycles -----------------------------
(***********************************************************************************)
(* How far an instruction has come: for every addressing mode, what the registers,   *)
(* the latches, the bus and the SRAM hold in each of its cycles, in terms of the      *)
(* state the instruction started from. OnCourse is the inductive invariant behind    *)
(* ImplementsISA.                                                                    *)
(*                                                                                  *)
(* In a course, k is the cycle, told before its LOW phase (edge = "LOW") and between  *)
(* its two phases (edge = "HIGH"); s is the state at the start.                       *)
(***********************************************************************************)
EXTENDS W65C02S_Trace

(* The rows of the opcode table that the handlers can carry out, with cycles enough to *)
(* do it: the work is done in the cycle named, counted from 0.                         *)
Branches == {"BEQ", "BNE", "BMI", "BPL", "BCS", "BCC", "BVS", "BVC"}

MemoryOps == ReadOps \cup ModifyOps \cup StoreOps

RegisterOps ==
    {"CLC", "SEC", "CLI", "SEI", "CLV", "CLD", "SED", "TAX", "TXA", "TAY", "TYA",
     "TXS", "TSX", "INX", "DEX", "INY", "DEY"}

ImpliedWork(op) ==
    CASE op \in RegisterOps \cup {"NOP"} -> 1
      [] op \in {"PHA", "PHP"} -> 2
      [] op \in {"PLA", "PLP"} -> 3
      [] op = "RTS" -> 5
      [] op = "RTI" -> 5
      [] op = "BRK" -> 6

Row(i) ==
    \/ i.mode = "ACC" /\ i.op \in ModifyOps
    \/ /\ i.mode = "IMP"
       /\ i.op \in RegisterOps \cup StackOps \cup {"NOP"}
       /\ i.cycles > ImpliedWork(i.op)
    \/ i.mode = "IMM" /\ i.op \in ReadOps \ {"BIT"}
    \/ i.mode = "ZP"  /\ i.op \in MemoryOps /\ i.cycles > 2
    \/ /\ i.mode = "ZPX"
       /\ i.op \in MemoryOps \ {"BIT", "CPX", "CPY"}
       /\ i.cycles > 3
    \/ i.mode = "ZPY" /\ i.op \in {"LDX", "STX"} /\ i.cycles > 3
    \/ i.mode = "ABS"  /\ i.op \in MemoryOps /\ i.cycles > 3
    \/ i.mode = "ABSX" /\ i.op \in MemoryOps \ {"LDX"} /\ i.cycles > 3
    \/ i.mode = "ABSY" /\ i.op \in MemoryOps \ {"LDY"} /\ i.cycles > 3
    \/ i.mode = "ABS" /\ i.op = "JMP" /\ i.cycles = 3
    \/ i.mode = "ABS" /\ i.op = "JSR" /\ i.cycles > 5
    \/ i.mode = "IND" /\ i.op = "JMP" /\ i.cycles > 4
    \/ i.mode \in {"INDX", "INDY"} /\ i.op \in PointerOps /\ i.cycles > 4
    \/ i.mode = "REL" /\ i.op \in Branches /\ i.cycles > 2

ASSUME RowsAssumption == \A b \in DOMAIN OpcodeMap : Row(OpcodeMap[b])

-----------------------------------------------------------------------------------
(* The state an instruction starts from, and what the machine makes of it.             *)
Origin == [regs |-> boundary.regs, ram |-> boundary.ram, rom |-> rom]

Peek(s, a) == IF a < EEPROM_FIRST THEN ByteAt(s.ram, a) ELSE ByteAt(s.rom, a)

(* What may be read at an address: elsewhere than in the memories, any byte.           *)
InMemorySpace(a) == SRAMSelected(a) \/ EEPROMSelected(a)

Readable(s, a) == IF InMemorySpace(a) THEN {Peek(s, a)} ELSE Byte

PCAfter(s, n)  == U16(s.regs.pc + n)
CodeByte(s, n) == Peek(s, PCAfter(s, n))
CodeWord(s)    == Join(CodeByte(s, 2), CodeByte(s, 1))
Behind(s, n)   == [s.regs EXCEPT !.pc = PCAfter(s, n)]

(* The stack pointer n bytes up or down, and the slot it then stands at.               *)
Moved(s, n) == U8(s.regs.sp + n)
SlotAt(s, n) == 256 + Moved(s, n)

Index(s, mode) == IF mode \in {"ZPX", "ABSX"} THEN s.regs.x ELSE s.regs.y

(* The zero page pointer of (zp,X) and (zp),Y.                                         *)
PointerAt(s, mode) ==
    IF mode = "INDX" THEN U8(CodeByte(s, 1) + s.regs.x) ELSE CodeByte(s, 1)

(* The address the operation is carried out at.                                        *)
Target(s, mode) ==
    CASE mode = "IMM" -> PCAfter(s, 1)
      [] mode = "ZP"  -> CodeByte(s, 1)
      [] mode \in {"ZPX", "ZPY"} -> U8(CodeByte(s, 1) + Index(s, mode))
      [] mode = "ABS" -> CodeWord(s)
      [] mode \in {"ABSX", "ABSY"} -> U16(CodeWord(s) + Index(s, mode))
      [] mode = "INDX" -> LET p == PointerAt(s, mode) IN Join(Peek(s, p + 1), Peek(s, p))
      [] mode = "INDY" -> LET p == PointerAt(s, mode)
                          IN  Join(Peek(s, p + 1), U8(Peek(s, p) + s.regs.y))

-----------------------------------------------------------------------------------
(* The registers are those of c, and the SRAM is f.                                    *)
Holds(c, f) == Architectural(cpu) = c /\ sram = f

Driving(a) == edge = "HIGH" => address = a

(* The instruction's byte number n is being fetched: LOW drives its address and moves  *)
(* the program counter past it.                                                        *)
Fetching(s, n) ==
    IF edge = "LOW" THEN Holds(Behind(s, n), s.ram)
    ELSE Holds(Behind(s, n + 1), s.ram) /\ address = PCAfter(s, n)

(* n bytes of the instruction have been fetched, and nothing done yet; the address a    *)
(* is on the bus in the HIGH phase.                                                    *)
Ready(s, n, a) == Holds(Behind(s, n), s.ram) /\ Driving(a)

(* A memory instruction of n bytes has been carried out at the address t, and has      *)
(* found the byte m there.                                                             *)
PerformedOn(s, op, n, t, m) ==
    \/ /\ op \in ReadOps
       /\ Holds(ReadResult(op, Behind(s, n), m), s.ram)
    \/ /\ op \in ModifyOps
       /\ LET r == ModifyResult(op, s.regs.status, m)
          IN  Holds(InMemory(op, Behind(s, n), r), AfterWrite(s.ram, t, r.value))
    \/ /\ op \in StoreOps
       /\ Holds(Behind(s, n), AfterWrite(s.ram, t, StoredByte(op, s.regs)))

Performed(s, op, n, t) == \E m \in Readable(s, t) : PerformedOn(s, op, n, t, m)

-----------------------------------------------------------------------------------
(* The memory instructions.                                                            *)
ImmediateCourse(s, op, k) ==
    \/ k = 1 /\ Fetching(s, 1)
    \/ k > 1 /\ Performed(s, op, 2, PCAfter(s, 1))

ZeroPageCourse(s, op, k) ==
    \/ k = 1 /\ Fetching(s, 1)
    \/ k = 2 /\ Ready(s, 2, Target(s, "ZP")) /\ cpu.adl = CodeByte(s, 1)
    \/ k > 2 /\ Performed(s, op, 2, Target(s, "ZP"))

(* INC zp,X and DEC zp,X fall through the handler's switch.                            *)
ZeroPageIndexedCourse(s, op, mode, k) ==
    \/ k = 1 /\ Fetching(s, 1)
    \/ k = 2 /\ Ready(s, 2, CodeByte(s, 1)) /\ cpu.adl = CodeByte(s, 1)
    \/ k = 3 /\ Ready(s, 2, Target(s, mode)) /\ cpu.adh = Target(s, mode)
    \/ k > 3 /\ op \notin {"INC", "DEC"} /\ Performed(s, op, 2, Target(s, mode))
    \/ k > 3 /\ op \in {"INC", "DEC"} /\ Holds(Behind(s, 2), s.ram)

AbsoluteCourse(s, op, mode, k) ==
    \/ k = 1 /\ Fetching(s, 1)
    \/ k = 2 /\ Fetching(s, 2) /\ cpu.adl = CodeByte(s, 1)
    \/ /\ k = 3
       /\ Ready(s, 3, Target(s, mode))
       /\ cpu.adl = CodeByte(s, 1) /\ cpu.adh = CodeByte(s, 2)
    \/ k > 3 /\ Performed(s, op, 3, Target(s, mode))

(* The two bytes the pointer p points at; (zp),Y adds Y to the low one as it comes in.  *)
PointerCourse(s, op, mode, k) ==
    LET p == PointerAt(s, mode)
        low == IF mode = "INDX" THEN Peek(s, p) ELSE U8(Peek(s, p) + s.regs.y)
    IN  \/ k = 1 /\ Fetching(s, 1)
        \/ k = 2 /\ Ready(s, 2, p) /\ cpu.add = p
        \/ k = 3 /\ Ready(s, 2, p + 1) /\ cpu.add = p /\ cpu.adl = low
        \/ /\ k = 4
           /\ Ready(s, 2, Target(s, mode))
           /\ cpu.adl = low /\ cpu.adh = Peek(s, p + 1)
        \/ k > 4 /\ Performed(s, op, 2, Target(s, mode))

-----------------------------------------------------------------------------------
(* The instructions that work on registers: on the accumulator, and the implied ones.  *)
AccumulatorCourse(s, op, k) ==
    \/ k = 1 /\ Holds(Behind(s, 1), s.ram)
    \/ /\ k > 1
       /\ Holds(ToAccumulator(Behind(s, 1), ModifyResult(op, s.regs.status, s.regs.a)), s.ram)

RegisterCourse(s, op, k) ==
    \/ k = 1 /\ Holds(Behind(s, 1), s.ram)
    \/ k > 1 /\ Holds(RegisterResult(op, Behind(s, 1)), s.ram)

(* The jumps and branches.                                                             *)
JumpCourse(s, k) ==
    \/ k = 1 /\ Fetching(s, 1)
    \/ k = 2 /\ Fetching(s, 2) /\ cpu.adl = CodeByte(s, 1)
    \/ k > 2 /\ Holds([s.regs EXCEPT !.pc = CodeWord(s)], s.ram)

(* Where JMP (xxxx) looks for the high byte of its target.                             *)
SecondCell(s) ==
    LET low == CodeByte(s, 1)
        high == CodeByte(s, 2)
    IN  IF low < 255 THEN CodeWord(s) + 1
        ELSE Join(IF high % 2 = 1 THEN high ELSE high + 1, 0)

IndirectCourse(s, k) ==
    \/ k = 1 /\ Fetching(s, 1)
    \/ k = 2 /\ Fetching(s, 2) /\ cpu.adl = CodeByte(s, 1)
    \/ /\ k = 3
       /\ Ready(s, 3, CodeWord(s))
       /\ cpu.adl = CodeByte(s, 1) /\ cpu.adh = CodeByte(s, 2)
    \/ /\ k = 4
       /\ Ready(s, 3, SecondCell(s))
       /\ cpu.adl = CodeByte(s, 1) /\ cpu.adh = CodeByte(s, 2)
       /\ cpu.add = Peek(s, CodeWord(s))
    \/ /\ k > 4
       /\ Holds([s.regs EXCEPT !.pc = Join(Peek(s, SecondCell(s)), Peek(s, CodeWord(s)))], s.ram)

Taken(op, status) ==
    \/ op = "BEQ" /\ Has(status, ZERO)
    \/ op = "BNE" /\ ~Has(status, ZERO)
    \/ op = "BPL" /\ ~Has(status, NEGATIVE)
    \/ op = "BMI" /\ Has(status, NEGATIVE)
    \/ op = "BCS" /\ Has(status, CARRY)
    \/ op = "BCC" /\ ~Has(status, CARRY)
    \/ op = "BVS" /\ ~Has(status, OVERFLOW)
    \/ op = "BVC" /\ ~Has(status, OVERFLOW)

RelativeCourse(s, op, k) ==
    \/ k = 1 /\ Ready(s, 1, PCAfter(s, 1))
    \/ k = 2 /\ Holds(Behind(s, 2), s.ram) /\ cpu.adl = CodeByte(s, 1)
    \/ /\ k > 2
       /\ Holds([s.regs EXCEPT !.pc = IF Taken(op, s.regs.status)
                                      THEN U16(PCAfter(s, 2) + Signed(CodeByte(s, 1)))
                                      ELSE PCAfter(s, 2)], s.ram)

-----------------------------------------------------------------------------------
(* The instructions that use the stack. JSR fetches its last byte after its pushes.    *)
Pushed1(s, w)    == AfterWrite(s.ram, SlotAt(s, 0), Hi(w))
Pushed2(s, w)    == AfterWrite(Pushed1(s, w), SlotAt(s, -1), Lo(w))
Pushed3(s, w, v) == AfterWrite(Pushed2(s, w), SlotAt(s, -2), v)

WithPC(s, w, n) == [s.regs EXCEPT !.pc = w, !.sp = Moved(s, n)]

WithStatus(c, v) == [c EXCEPT !.status = v]

CallCourse(s, k) ==
    LET last == PCAfter(s, 2)
    IN  \/ k = 1 /\ Fetching(s, 1)
        \/ k = 2 /\ Holds(Behind(s, 2), s.ram) /\ cpu.adl = CodeByte(s, 1)
        \/ k = 3 /\ Ready(s, 2, SlotAt(s, 0)) /\ cpu.adl = CodeByte(s, 1)
        \/ /\ k = 4
           /\ Holds(WithPC(s, last, -1), Pushed1(s, last)) /\ Driving(SlotAt(s, -1))
           /\ cpu.adl = CodeByte(s, 1)
        \/ /\ k = 5
           /\ Holds(WithPC(s, last, -2), Pushed2(s, last)) /\ Driving(last)
           /\ cpu.adl = CodeByte(s, 1)
        \/ /\ k > 5
           /\ LET high == Peek([s EXCEPT !.ram = Pushed2(s, last)], last)
              IN  Holds(WithPC(s, Join(high, CodeByte(s, 1)), -2), Pushed2(s, last))

PushCourse(s, op, k) ==
    \/ k = 1 /\ Holds(Behind(s, 1), s.ram)
    \/ k = 2 /\ Ready(s, 1, SlotAt(s, 0))
    \/ /\ k > 2
       /\ Holds(WithPC(s, PCAfter(s, 1), -1),
                AfterWrite(s.ram, SlotAt(s, 0), IF op = "PHA" THEN s.regs.a ELSE s.regs.status))

(* The registers c after PLA or PLP has pulled the byte m.                             *)
AfterPull(op, c, m) ==
    IF op = "PLA" THEN SetA(c, m) ELSE WithStatus(c, Put(m, BREAK, FALSE))

PullCourse(s, op, k) ==
    LET popped == WithPC(s, PCAfter(s, 1), 1)
        m == Peek(s, SlotAt(s, 1))
    IN  \/ k \in 1 .. 2 /\ Holds(Behind(s, 1), s.ram)
        \/ k = 3 /\ Holds(popped, s.ram) /\ Driving(SlotAt(s, 1))
        \/ k > 3 /\ Holds(AfterPull(op, popped, m), s.ram)

ReturnCourse(s, k) ==
    LET target == Join(Peek(s, SlotAt(s, 2)), Peek(s, SlotAt(s, 1)))
    IN  \/ k \in 1 .. 2 /\ Holds(Behind(s, 1), s.ram)
        \/ k = 3 /\ Holds(WithPC(s, PCAfter(s, 1), 1), s.ram) /\ Driving(SlotAt(s, 1))
        \/ /\ k = 4
           /\ Holds(WithPC(s, PCAfter(s, 1), 2), s.ram) /\ Driving(SlotAt(s, 2))
           /\ cpu.adl = Peek(s, SlotAt(s, 1))
        \/ k = 5 /\ Holds(WithPC(s, target, 2), s.ram)
        \/ k > 5 /\ Holds(WithPC(s, U16(target + 1), 2), s.ram)

InterruptReturnCourse(s, k) ==
    LET status == Peek(s, SlotAt(s, 1))
        restored(w, n) == WithStatus(WithPC(s, w, n), status)
        target == Join(Peek(s, SlotAt(s, 3)), Peek(s, SlotAt(s, 2)))
    IN  \/ k \in 1 .. 2 /\ Holds(Behind(s, 1), s.ram)
        \/ k = 3 /\ Holds(WithPC(s, PCAfter(s, 1), 1), s.ram) /\ Driving(SlotAt(s, 1))
        \/ k = 4 /\ Holds(restored(PCAfter(s, 1), 2), s.ram) /\ Driving(SlotAt(s, 2))
        \/ /\ k = 5
           /\ Holds(restored(PCAfter(s, 1), 3), s.ram) /\ Driving(SlotAt(s, 3))
           /\ cpu.adl = Peek(s, SlotAt(s, 2))
        \/ k > 5 /\ Holds(restored(target, 3), s.ram)

-----------------------------------------------------------------------------------
(* BRK and the two interrupts: soft is _interruptFromSW, v the vector.                  *)
ReturnAddress(s, soft, v) == PCAfter(s, IF soft /\ v = IRQ_BRK_VECTOR THEN 1 ELSE 0)

PushedBy(s, soft) ==
    IF soft THEN Put(s.regs.status, BREAK, TRUE) ELSE s.regs.status

StatusAfter(s, v) ==
    Put(s.regs.status, INTERRUPT, v = IRQ_BRK_VECTOR \/ Has(s.regs.status, INTERRUPT))

EntryCourse(s, soft, v, k) ==
    LET w == ReturnAddress(s, soft, v)
        frame == Pushed3(s, w, PushedBy(s, soft))
        handler == Join(Peek(s, v + 1), Peek(s, v))
    IN  \/ k = 1 /\ Holds([s.regs EXCEPT !.pc = w], s.ram)
        \/ k = 2 /\ Holds([s.regs EXCEPT !.pc = w], s.ram) /\ Driving(SlotAt(s, 0))
        \/ k = 3 /\ Holds(WithPC(s, w, -1), Pushed1(s, w)) /\ Driving(SlotAt(s, -1))
        \/ k = 4 /\ Holds(WithPC(s, w, -2), Pushed2(s, w)) /\ Driving(SlotAt(s, -2))
        \/ k = 5 /\ Holds(WithPC(s, w, -3), frame) /\ Driving(v)
        \/ /\ k = 6
           /\ Holds(WithPC(s, w, -3), frame) /\ Driving(v + 1)
           /\ cpu.adl = Peek(s, v)
        \/ /\ k > 6
           /\ Holds(WithStatus(WithPC(s, handler, -3), StatusAfter(s, v)), frame)

-----------------------------------------------------------------------------------
Course(s, op, mode, soft, v, k) ==
    \/ mode = "ACC" /\ AccumulatorCourse(s, op, k)
    \/ mode = "IMM" /\ ImmediateCourse(s, op, k)
    \/ mode = "ZP" /\ ZeroPageCourse(s, op, k)
    \/ mode \in {"ZPX", "ZPY"} /\ ZeroPageIndexedCourse(s, op, mode, k)
    \/ /\ mode \in {"ABS", "ABSX", "ABSY"}
       /\ op \in MemoryOps
       /\ AbsoluteCourse(s, op, mode, k)
    \/ mode = "ABS" /\ op = "JMP" /\ JumpCourse(s, k)
    \/ mode = "ABS" /\ op = "JSR" /\ CallCourse(s, k)
    \/ mode = "IND" /\ IndirectCourse(s, k)
    \/ mode \in {"INDX", "INDY"} /\ PointerCourse(s, op, mode, k)
    \/ mode = "REL" /\ RelativeCourse(s, op, k)
    \/ /\ mode = "IMP"
       /\ \/ op \in RegisterOps \cup {"NOP"} /\ RegisterCourse(s, op, k)
          \/ op \in {"PHA", "PHP"} /\ PushCourse(s, op, k)
          \/ op \in {"PLA", "PLP"} /\ PullCourse(s, op, k)
          \/ op = "RTS" /\ ReturnCourse(s, k)
          \/ op = "RTI" /\ InterruptReturnCourse(s, k)
          \/ op = "BRK" /\ EntryCourse(s, soft, v, k)

(* What the instruction under way is: the opcode at the program counter, or the BRK an *)
(* interrupt injects.                                                                  *)
Software == cpu.fromSW /\ cpu.vector = IRQ_BRK_VECTOR

Underway(s) ==
    \/ Software /\ cpu.ir = CodeByte(s, 0)
    \/ /\ ~Software
       /\ cpu.ir = BRK
       /\ \/ cpu.vector = NMI_VECTOR
          \/ cpu.vector = IRQ_BRK_VECTOR /\ ~Has(s.regs.status, INTERRUPT)

(* Between reset() and the first instruction.                                          *)
Resetting ==
    /\ Holds([AfterReset.regs EXCEPT !.pc = RESET_VECTOR + cpu.resetStage], boundary.ram)
    /\ cpu.cycle = 0
    /\ cpu.resetStage = 1 => cpu.adl = ByteAt(rom, RESET_VECTOR)

(* At every phase the instruction under way has done exactly the part of its work that *)
(* belongs to the cycles gone by: nothing an opcode handler of W65C02S.cpp leaves in a  *)
(* latch is lost or disturbed before the cycle that uses it.                           *)
OnCourse ==
    /\ cpu.resetStage < 2 => Resetting
    /\ cpu.resetStage = 2 /\ cpu.cycle = 0 => boundary = Snapshot
    /\ cpu.cycle > 0 /\ Known =>
          Underway(Origin) /\ Course(Origin, Op, Mode, cpu.fromSW, cpu.vector, cpu.cycle)

-----------------------------------------------------------------------------------
(* The program keeps its code in the SRAM and the EEPROM: whatever the CPU reads that is *)
(* not the operand of a load, a store or a shift comes from there. That operand may be  *)
(* anywhere, in a device or where no slave answers.                                    *)
OperandCycle ==
    CASE Mode = "IMM" -> 1
      [] Mode = "ZP"  -> 2
      [] Mode \in {"INDX", "INDY"} -> 4
      [] OTHER -> 3

Operating == Cycle > 0 /\ Known /\ Op \in MemoryOps /\ Cycle >= OperandCycle

CodeInMemory == edge = "HIGH" /\ cpu.started => InMemorySpace(address) \/ Operating

-----------------------------------------------------------------------------------
(* The same of the program itself, instruction by instruction: from the state s it goes *)
(* on with an instruction whose bytes lie in the memories, the bytes the CPU looks at   *)
(* ahead of it included; if it branches or jumps through a pointer, so do target and   *)
(* pointer; and what it loads from, stores to or modifies is decoded by some slave.     *)
Decoded(a) == InMemorySpace(a) \/ VIASelected(a) \/ ACIASelected(a)

BranchTarget(s) == U16(PCAfter(s, 2) + Signed(CodeByte(s, 1)))

Contained(s) ==
    LET i == OpcodeMap[CodeByte(s, 0)]
    IN  /\ \A n \in 0 .. 3 : InMemorySpace(PCAfter(s, n))
        /\ CodeByte(s, 0) \in DOMAIN OpcodeMap =>
              /\ i.mode = "REL" /\ Taken(i.op, s.regs.status) => InMemorySpace(BranchTarget(s))
              /\ i.mode = "IND" => InMemorySpace(CodeWord(s)) /\ InMemorySpace(SecondCell(s))
              /\ i.op \in MemoryOps /\ i.mode # "ACC" => Decoded(Target(s, i.mode))

StaysInside == Contained(Origin)

(* What the address latch holds while it does. The LOW phase of cycle 4 drives the      *)
(* address of an absolute indexed operand a second time, from latches and index as they *)
(* are then.                                                                           *)
OnTheBus ==
    /\ Decoded(address)
    /\ cpu.started /\ ~(edge = "LOW" /\ Cycle = 0) => InMemorySpace(address) \/ Operating

DrivenTwice ==
    Known /\ Mode \in {"ABSX", "ABSY"} /\ (Cycle = 4 \/ (Cycle = 3 /\ edge = "HIGH")) =>
        address = U16(Operand + IF Mode = "ABSX" THEN cpu.x ELSE cpu.y)
==================================================================================
