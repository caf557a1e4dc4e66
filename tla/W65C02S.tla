--------------------------------- MODULE W65C02S ---------------------------------
(***********************************************************************************)
(* The CPU of devices/W65C02S, clock phase by clock phase, with the bus and the     *)
(* memories it drives.                                                              *)
(*                                                                                  *)
(* main.cpp calls onClockStateChange(LOW) and onClockStateChange(HIGH) in turn. The *)
(* LOW handler puts an address on the bus, the HIGH handler does at most one        *)
(* transfer at that address (a read, a write, or a read and a write) and counts the *)
(* cycle. An instruction is spread over up to seven such cycles; between any two    *)
(* phases the interrupt pins may change.                                            *)
(*                                                                                  *)
(* cpu is the object's registers and latches; irq and nmi its pins; edge the phase  *)
(* main's loop delivers next.                                                       *)
(***********************************************************************************)
EXTENDS Bus, Alu, Opcodes

CONSTANTS
    OpcodeMap,      \* the decoder's table: opcode byte -> [op, mode, cycles]
    Images,         \* the EEPROM images the machine may be started with
    PowerUpBytes    \* what an uninitialised byte member may hold

ASSUME OpcodeMapAssumption ==
    /\ DOMAIN OpcodeMap \subseteq Byte
    /\ 0 \in DOMAIN OpcodeMap
    /\ OpcodeMap[0] = [op |-> "BRK", mode |-> "IMP", cycles |-> 7]
    /\ \A b \in DOMAIN OpcodeMap :
          /\ OpcodeMap[b].op \in STRING
          /\ OpcodeMap[b].mode \in AddressingMode
          /\ OpcodeMap[b].cycles \in 2 .. 7

ASSUME ImagesAssumption == \A image \in Images : IsMemory(image, EEPROMAddresses)

ASSUME PowerUpAssumption == PowerUpBytes \subseteq Byte

VARIABLES
    cpu,    \* registers and latches
    irq,    \* _irq
    nmi,    \* _nmi
    edge    \* the argument of the next onClockStateChange

busVars == <<address, data, sram, rom>>
vars == <<cpu, irq, nmi, edge, busVars>>

RESET_VECTOR   == 65532
IRQ_BRK_VECTOR == 65534
NMI_VECTOR     == 65530
BRK            == 0         \* Opcode::BRK

Pin == {"LOW", "HIGH"}

Registers ==
    [a : Byte, x : Byte, y : Byte, sp : Byte, pc : Word, status : Byte,
     ir : Byte, adl : Byte, adh : Byte, add : Byte,
     vector : Word, fromSW : BOOLEAN,
     cycle : 0 .. 7, started : BOOLEAN, resetStage : 0 .. 2]

TypeOK ==
    /\ BusTypeOK
    /\ cpu \in Registers
    /\ irq \in Pin
    /\ nmi \in Pin
    /\ edge \in Pin

-----------------------------------------------------------------------------------
(* The constructor leaves _ir and _add as it finds them; reset() sets the rest.       *)
PoweredUp(ir, add) ==
    [a |-> 0, x |-> 0, y |-> 0, sp |-> 0, pc |-> 0, status |-> 0,
     ir |-> ir, adl |-> 0, adh |-> 0, add |-> add,
     vector |-> RESET_VECTOR, fromSW |-> TRUE,
     cycle |-> 0, started |-> FALSE, resetStage |-> 0]

Reset(c) ==
    [c EXCEPT !.a = 0, !.x = 0, !.y = 0, !.sp = 255, !.pc = RESET_VECTOR,
              !.status = 0, !.adl = 0, !.adh = 0, !.resetStage = 0]

Init ==
    /\ \E i, d \in PowerUpBytes : cpu = Reset(PoweredUp(i, d))
    /\ irq = "HIGH"
    /\ nmi = "HIGH"
    /\ edge = "LOW"
    /\ BusInit(Images)

-----------------------------------------------------------------------------------
Known  == cpu.ir \in DOMAIN OpcodeMap
Op     == OpcodeMap[cpu.ir].op
Mode   == OpcodeMap[cpu.ir].mode
Cycle  == cpu.cycle

StackTop == 256 + cpu.sp
Operand  == Join(cpu.adh, cpu.adl)

(* A slip the runs must notice: the pointer wraps around within its page.              *)
OperandNextInPage == Join(cpu.adh, U8(cpu.adl + 1))

(* (adh << 8) | (adl + 1): the carry out of the low byte is or-ed into the high one. *)
OperandNext ==
    IF cpu.adl < 255 THEN Operand + 1
    ELSE Join(IF cpu.adh % 2 = 1 THEN cpu.adh ELSE cpu.adh + 1, 0)

AdvancePC(c) == [c EXCEPT !.pc = U16(c.pc + 1)]

(* setAddress and its two companions in the LOW handlers. *)
Drive(a)     == address' = a /\ UNCHANGED cpu
FetchOperand == address' = cpu.pc /\ cpu' = AdvancePC(cpu)

(* A slip the runs must notice: a cycle that should leave the bus alone drives the PC. *)
HoldDrivesPC == Drive(cpu.pc)

Hold == UNCHANGED <<address, cpu>>

ImpliedLow ==
    /\ Mode \in {"IMP", "ACC"}
    /\ \/ Cycle \in 2 .. 4 /\ Drive(StackTop)
       \/ Cycle = 5 /\ Op = "BRK" /\ Drive(cpu.vector)
       \/ Cycle = 5 /\ Op # "BRK" /\ Drive(StackTop)
       \/ Cycle = 6 /\ Op = "BRK" /\ Drive(U16(cpu.vector + 1))
       \/ (Cycle \in {1, 7} \/ (Cycle = 6 /\ Op # "BRK")) /\ Hold

ImmediateLow ==
    /\ Mode = "IMM"
    /\ \/ Cycle = 1 /\ FetchOperand
       \/ Cycle > 1 /\ Hold

AbsoluteLow ==
    /\ Mode = "ABS"
    /\ \/ (Cycle = 1 \/ (Cycle = 2 /\ Op # "JSR")) /\ FetchOperand
       \/ Cycle = 3 /\ Op # "JSR" /\ Drive(Operand)
       \/ ((Cycle \in 2 .. 3 /\ Op = "JSR") \/ Cycle = 4) /\ Drive(StackTop)
       \/ Cycle = 5 /\ Drive(cpu.pc)
       \/ Cycle > 5 /\ Hold

AbsoluteIndexedLow ==
    /\ Mode \in {"ABSX", "ABSY"}
    /\ \/ Cycle \in 1 .. 2 /\ FetchOperand
       \/ /\ Cycle \in 3 .. 4
          /\ Drive(U16(Operand + IF Mode = "ABSX" THEN cpu.x ELSE cpu.y))
       \/ Cycle > 4 /\ Hold

RelativeLow == Mode = "REL" /\ Drive(cpu.pc)

ZeroPageLow ==
    /\ Mode = "ZP"
    /\ \/ Cycle = 1 /\ FetchOperand
       \/ Cycle \in 2 .. 4 /\ Drive(cpu.adl)
       \/ Cycle > 4 /\ Hold

ZeroPageIndexedLow ==
    /\ Mode \in {"ZPX", "ZPY"}
    /\ \/ Cycle = 1 /\ FetchOperand
       \/ Cycle = 2 /\ Drive(cpu.adl)
       \/ Cycle = 3 /\ Drive(cpu.adh)
       \/ Cycle > 3 /\ Hold

IndirectLow ==
    /\ Mode = "IND"
    /\ \/ Cycle \in 1 .. 2 /\ FetchOperand
       \/ Cycle = 3 /\ Drive(Operand)
       \/ Cycle = 4 /\ Drive(OperandNext)
       \/ Cycle > 4 /\ Hold

(* (zp,X) and (zp),Y read the pointer at _add and _add + 1, an int that does not wrap  *)
(* at the end of the zero page.                                                        *)
PointerLow ==
    /\ Mode \in {"INDX", "INDY"}
    /\ \/ Cycle = 1 /\ FetchOperand
       \/ Cycle = 2 /\ Drive(cpu.add)
       \/ Cycle = 3 /\ Drive(cpu.add + 1)
       \/ Cycle = 4 /\ Drive(Operand)
       \/ Cycle > 4 /\ Hold

(* Cycle 0: the address of the next opcode, or of the reset vector's bytes.            *)
(* A slip the runs must notice: _pc++ already here, as in the operand fetches.         *)
OpcodeLowAdvances == address' = cpu.pc /\ cpu' = [AdvancePC(cpu) EXCEPT !.started = TRUE]

OpcodeLow == address' = cpu.pc /\ cpu' = [cpu EXCEPT !.started = TRUE]

(* handlePhi2Low. The opcode is looked up first: with an unknown byte in _ir not even  *)
(* cycle 0 drives the address, and _started stays as it is.                            *)
HandlePhi2Low ==
    \/ ~Known /\ Hold
    \/ Known /\ Cycle = 0 /\ OpcodeLow
    \/ /\ Known
       /\ Cycle # 0
       /\ \/ ImpliedLow \/ ImmediateLow \/ AbsoluteLow \/ AbsoluteIndexedLow
          \/ RelativeLow \/ ZeroPageLow \/ ZeroPageIndexedLow
          \/ IndirectLow \/ PointerLow

Phi2Low ==
    /\ edge = "LOW"
    /\ edge' = "HIGH"
    /\ HandlePhi2Low
    /\ UNCHANGED <<irq, nmi, data, sram, rom>>

-----------------------------------------------------------------------------------
(* The end of handlePhi2High: the handler leaves the registers c, and the cycle is    *)
(* counted. At the instruction's last cycle the count returns to 0.                   *)
(* Slips the runs must notice: one cycle too many, a count that never returns, and one  *)
(* that stays at the last cycle.                                                       *)
NextCycleOneMore(c) ==
    [c EXCEPT !.cycle = IF c.cycle = OpcodeMap[c.ir].cycles THEN 0 ELSE c.cycle + 1]

NextCycleNoReturn(c) == [c EXCEPT !.cycle = c.cycle + 1]

NextCycleStays(c) ==
    [c EXCEPT !.cycle = IF c.cycle + 1 = OpcodeMap[c.ir].cycles THEN @ ELSE c.cycle + 1]

NextCycle(c) ==
    [c EXCEPT !.cycle = IF c.cycle + 1 = OpcodeMap[c.ir].cycles THEN 0 ELSE c.cycle + 1]

Step(c) == cpu' = NextCycle(c)
Idle    == NoTransfer /\ Step(cpu)

Push(v) == WriteByte(v) /\ Step([cpu EXCEPT !.sp = U8(cpu.sp - 1)])
(* A slip the runs must notice: a pull does not move the stack pointer.                *)
PopNextStays == cpu
PopNext == [cpu EXCEPT !.sp = U8(cpu.sp + 1)]

(* The operations every memory addressing mode shares, by what they do on the bus. *)
ReadOps   == {"LDA", "LDX", "LDY", "AND", "ORA", "EOR", "ADC", "SBC",
              "CMP", "CPX", "CPY", "BIT"}
ModifyOps == {"ASL", "LSR", "ROL", "ROR", "INC", "DEC"}
StoreOps  == {"STA", "STX", "STY"}

Read(m) == Step(ReadResult(Op, cpu, m))

Modify(m) ==
    LET r == ModifyResult(Op, cpu.status, m)
    IN  WriteByte(r.value) /\ Step(InMemory(Op, cpu, r))

Store == WriteByte(StoredByte(Op, cpu)) /\ Step(cpu)

(* The cycle in which a mode's handler switches on the opcode; ops are its cases. A    *)
(* read-modify-write instruction reads and writes back in this one cycle.              *)
Execute(ops) ==
    \/ Op \in ops \cap ReadOps   /\ \E m \in ReadBytes : FetchByte(m) /\ Read(m)
    \/ Op \in ops \cap ModifyOps /\ \E m \in ReadBytes : Modify(m)
    \/ Op \in ops \cap StoreOps  /\ Store
    \/ Op \notin ops /\ Idle

FetchTo(field) ==
    \E m \in ReadBytes : FetchByte(m) /\ Step([cpu EXCEPT ![field] = m])

-----------------------------------------------------------------------------------
AccumulatorHigh ==
    /\ Mode = "ACC"
    /\ NoTransfer
    /\ \/ /\ Cycle = 1
          /\ Op \in ModifyOps
          /\ Step(ToAccumulator(cpu, ModifyResult(Op, cpu.status, cpu.a)))
       \/ (Cycle > 1 \/ Op \notin ModifyOps) /\ Step(cpu)

(* Cycle 1 of the implied instructions: the ones that work on registers alone. *)
RegisterOperation == NoTransfer /\ Step(RegisterResult(Op, cpu))

(* The status byte BRK pushes: B tells a BRK instruction from an interrupt, and       *)
(* whatever B the status register holds goes along.                                   *)
PushedStatus == IF cpu.fromSW THEN Put(cpu.status, BREAK, TRUE) ELSE cpu.status

(* Of BRK, IRQ and NMI only the two that go through the IRQ/BRK vector set the         *)
(* interrupt disable flag when their handler is entered.                              *)
(* A slip the runs must notice: no interrupt sequence sets the flag.                   *)
StatusUnmasked == cpu.status

StatusInHandler ==
    Put(cpu.status, INTERRUPT,
        cpu.vector = IRQ_BRK_VECTOR \/ Has(cpu.status, INTERRUPT))

HandlerEntered(high) ==
    [cpu EXCEPT !.pc = Join(high, cpu.adl), !.status = StatusInHandler]

(* BRK, and with it the NMI and IRQ sequences, which inject it.                        *)
BreakSequence ==
    /\ Op = "BRK"
    /\ \/ Cycle = 2 /\ Push(Hi(cpu.pc))
       \/ Cycle = 3 /\ Push(Lo(cpu.pc))
       \/ Cycle = 4 /\ Push(PushedStatus)
       \/ Cycle = 5 /\ FetchTo("adl")
       \/ /\ Cycle = 6
          /\ \E m \in ReadBytes : FetchByte(m) /\ Step(HandlerEntered(m))
       \/ Cycle > 6 /\ Idle

PushSequence ==
    /\ Op \in {"PHA", "PHP"}
    /\ \/ Cycle = 2 /\ Op = "PHA" /\ Push(cpu.a)
       \/ Cycle = 2 /\ Op = "PHP" /\ Push(cpu.status)
       \/ Cycle > 2 /\ Idle

PullSequence ==
    /\ Op \in {"PLA", "PLP"}
    /\ \/ Cycle = 2 /\ NoTransfer /\ Step(PopNext)
       \/ /\ Cycle = 3
          /\ \E m \in ReadBytes :
                /\ FetchByte(m)
                /\ \/ Op = "PLA" /\ Step(SetA(cpu, m))
                   \/ Op = "PLP" /\ Step([cpu EXCEPT !.status = Put(m, BREAK, FALSE)])
       \/ Cycle > 3 /\ Idle

ReturnSequence ==
    /\ Op = "RTS"
    /\ \/ Cycle = 2 /\ NoTransfer /\ Step(PopNext)
       \/ /\ Cycle = 3
          /\ \E m \in ReadBytes : FetchByte(m) /\ Step([PopNext EXCEPT !.adl = m])
       \/ /\ Cycle = 4
          /\ \E m \in ReadBytes :
                FetchByte(m) /\ Step([cpu EXCEPT !.pc = Join(m, cpu.adl)])
       \/ Cycle = 5 /\ NoTransfer /\ Step(AdvancePC(cpu))
       \/ Cycle > 5 /\ Idle

(* RTI takes the whole status byte from the stack, B included. *)
ReturnFromInterrupt ==
    /\ Op = "RTI"
    /\ \/ Cycle = 2 /\ NoTransfer /\ Step(PopNext)
       \/ /\ Cycle = 3
          /\ \E m \in ReadBytes : FetchByte(m) /\ Step([PopNext EXCEPT !.status = m])
       \/ /\ Cycle = 4
          /\ \E m \in ReadBytes : FetchByte(m) /\ Step([PopNext EXCEPT !.adl = m])
       \/ /\ Cycle = 5
          /\ \E m \in ReadBytes :
                FetchByte(m) /\ Step([cpu EXCEPT !.pc = Join(m, cpu.adl)])
       \/ Cycle > 5 /\ Idle

StackOps == {"BRK", "PHA", "PHP", "PLA", "PLP", "RTS", "RTI"}

ImpliedHigh ==
    /\ Mode = "IMP"
    /\ \/ Cycle = 1 /\ RegisterOperation
       \/ /\ Cycle > 1
          /\ \/ BreakSequence \/ PushSequence \/ PullSequence
             \/ ReturnSequence \/ ReturnFromInterrupt
             \/ Op \notin StackOps /\ Idle

-----------------------------------------------------------------------------------
ImmediateHigh ==
    /\ Mode = "IMM"
    /\ \/ Cycle = 1 /\ Execute(ReadOps \ {"BIT"})
       \/ Cycle > 1 /\ Idle

AbsoluteHigh ==
    /\ Mode \in {"ABS", "ABSX", "ABSY"}
    /\ \/ Cycle = 1 /\ FetchTo("adl")
       \/ Cycle = 2 /\ Op \notin {"JSR", "JMP"} /\ FetchTo("adh")
       \/ /\ \/ Cycle = 2 /\ Op = "JMP"
             \/ Cycle = 5 /\ Op = "JSR"
          /\ \E m \in ReadBytes :
                FetchByte(m) /\ Step([cpu EXCEPT !.pc = Join(m, cpu.adl)])
       \/ Cycle = 3 /\ Op = "JSR" /\ Push(Hi(cpu.pc))
       \/ Cycle = 4 /\ Op = "JSR" /\ Push(Lo(cpu.pc))
       \/ Cycle = 3 /\ Op # "JSR" /\ Execute(ReadOps \cup ModifyOps \cup StoreOps)
       \/ (Cycle > 5 \/ (Cycle = 2 /\ Op = "JSR") \/ (Cycle > 3 /\ Op # "JSR")) /\ Idle

(* Whether the branch in _ir is taken. *)
BranchTaken ==
    \/ Op = "BEQ" /\ Has(cpu.status, ZERO)
    \/ Op = "BNE" /\ ~Has(cpu.status, ZERO)
    \/ Op = "BPL" /\ ~Has(cpu.status, NEGATIVE)
    \/ Op = "BMI" /\ Has(cpu.status, NEGATIVE)
    \/ Op = "BCS" /\ Has(cpu.status, CARRY)
    \/ Op = "BCC" /\ ~Has(cpu.status, CARRY)
    \/ Op = "BVS" /\ ~Has(cpu.status, OVERFLOW)
    \/ Op = "BVC" /\ ~Has(cpu.status, OVERFLOW)

RelativeHigh ==
    /\ Mode = "REL"
    /\ \/ /\ Cycle = 1
          /\ \E m \in ReadBytes : FetchByte(m) /\ Step([AdvancePC(cpu) EXCEPT !.adl = m])
       \/ /\ Cycle = 2
          /\ BranchTaken
          /\ NoTransfer
          /\ Step([cpu EXCEPT !.pc = U16(cpu.pc + Signed(cpu.adl))])
       \/ ((Cycle = 2 /\ ~BranchTaken) \/ Cycle > 2) /\ Idle

ZeroPageHigh ==
    /\ Mode = "ZP"
    /\ \/ Cycle = 1 /\ FetchTo("adl")
       \/ Cycle = 2 /\ Execute(ReadOps \cup ModifyOps \cup StoreOps)
       \/ Cycle > 2 /\ Idle

(* There is no case for INC or DEC: zp,X variants of the two do nothing. *)
ZeroPageIndexedHigh ==
    /\ Mode \in {"ZPX", "ZPY"}
    /\ \/ Cycle = 1 /\ FetchTo("adl")
       \/ /\ Cycle = 2
          /\ NoTransfer
          /\ Step([cpu EXCEPT
                !.adh = U8(cpu.adl + IF Mode = "ZPX" THEN cpu.x ELSE cpu.y)])
       \/ /\ Cycle = 3
          /\ Execute((ReadOps \ {"BIT", "CPX", "CPY"})
                       \cup (ModifyOps \ {"INC", "DEC"}) \cup StoreOps)
       \/ Cycle > 3 /\ Idle

IndirectHigh ==
    /\ Mode = "IND"
    /\ \/ Cycle = 1 /\ FetchTo("adl")
       \/ Cycle = 2 /\ FetchTo("adh")
       \/ Cycle = 3 /\ FetchTo("add")
       \/ /\ Cycle = 4
          /\ Op = "JMP"
          /\ \E m \in ReadBytes :
                FetchByte(m) /\ Step([cpu EXCEPT !.pc = Join(m, cpu.add)])
       \/ ((Cycle = 4 /\ Op # "JMP") \/ Cycle > 4) /\ Idle

PointerOps == {"LDA", "AND", "ORA", "EOR", "ADC", "SBC", "CMP", "STA"}

IndexedIndirectHigh ==
    /\ Mode = "INDX"
    /\ \/ /\ Cycle = 1
          /\ \E m \in ReadBytes :
                FetchByte(m) /\ Step([cpu EXCEPT !.add = U8(m + cpu.x)])
       \/ Cycle = 2 /\ FetchTo("adl")
       \/ Cycle = 3 /\ FetchTo("adh")
       \/ Cycle = 4 /\ Execute(PointerOps)
       \/ Cycle > 4 /\ Idle

(* _adl is a byte: the carry of the low byte plus Y is lost. *)
IndirectIndexedHigh ==
    /\ Mode = "INDY"
    /\ \/ Cycle = 1 /\ FetchTo("add")
       \/ /\ Cycle = 2
          /\ \E m \in ReadBytes :
                FetchByte(m) /\ Step([cpu EXCEPT !.adl = U8(m + cpu.y)])
       \/ Cycle = 3 /\ FetchTo("adh")
       \/ Cycle = 4 /\ Execute(PointerOps)
       \/ Cycle > 4 /\ Idle

-----------------------------------------------------------------------------------
(* handleReset: the two bytes of the reset vector. *)
HandleReset ==
    \E m \in ReadBytes :
        /\ FetchByte(m)
        /\ \/ /\ cpu.resetStage = 0
              /\ cpu' = [AdvancePC(cpu) EXCEPT !.adl = m, !.resetStage = 1]
           \/ /\ cpu.resetStage = 1
              /\ cpu' = [cpu EXCEPT !.adh = m, !.resetStage = 2,
                                    !.pc = Join(m, cpu.adl)]

(* Cycle 0: NMI first, then an unmasked IRQ, then the next opcode. The pins are levels, *)
(* sampled here and nowhere else.                                                       *)
(* Slips the runs must notice: the mask ignored, and read the wrong way round.         *)
PendingUnmasked == irq = "LOW"
PendingInverted == irq = "LOW" /\ Has(cpu.status, INTERRUPT)

InterruptPending == irq = "LOW" /\ ~Has(cpu.status, INTERRUPT)

TakeNMI ==
    /\ nmi = "LOW"
    /\ NoTransfer
    /\ cpu' = [cpu EXCEPT !.ir = BRK, !.vector = NMI_VECTOR, !.cycle = 1]

(* A slip the runs must notice: the PC is advanced as if an opcode had been fetched.   *)
TakeIRQAdvances ==
    /\ nmi # "LOW"
    /\ InterruptPending
    /\ NoTransfer
    /\ cpu' = [AdvancePC(cpu) EXCEPT !.ir = BRK, !.vector = IRQ_BRK_VECTOR,
                                     !.fromSW = FALSE, !.cycle = 1]

TakeIRQ ==
    /\ nmi # "LOW"
    /\ InterruptPending
    /\ NoTransfer
    /\ cpu' = [cpu EXCEPT !.ir = BRK, !.vector = IRQ_BRK_VECTOR, !.fromSW = FALSE,
                          !.cycle = 1]

FetchOpcode ==
    /\ nmi # "LOW"
    /\ ~InterruptPending
    /\ \E m \in ReadBytes :
          /\ FetchByte(m)
          /\ cpu' = [AdvancePC(cpu) EXCEPT !.ir = m, !.vector = IRQ_BRK_VECTOR,
                                           !.fromSW = TRUE, !.cycle = 1]

(* The early return for an opcode the table does not list.                             *)
(* A slip the runs must notice: the opcode is skipped and the next cycle fetches.      *)
UnlistedHighSkips == NoTransfer /\ cpu' = [cpu EXCEPT !.cycle = 0]

UnlistedHigh == NoTransfer /\ UNCHANGED cpu

(* handlePhi2High. An unknown opcode returns before the cycle is counted. *)
HandlePhi2High ==
    \/ ~cpu.started /\ NoTransfer /\ UNCHANGED cpu
    \/ cpu.started /\ cpu.resetStage < 2 /\ HandleReset
    \/ /\ cpu.started
       /\ cpu.resetStage = 2
       /\ Cycle = 0
       /\ TakeNMI \/ TakeIRQ \/ FetchOpcode
    \/ /\ cpu.started
       /\ cpu.resetStage = 2
       /\ Cycle # 0
       /\ \/ ~Known /\ UnlistedHigh
          \/ /\ Known
             /\ \/ AccumulatorHigh \/ ImpliedHigh \/ ImmediateHigh \/ AbsoluteHigh
                \/ RelativeHigh \/ ZeroPageHigh \/ ZeroPageIndexedHigh
                \/ IndirectHigh \/ IndexedIndirectHigh \/ IndirectIndexedHigh

Phi2High ==
    /\ edge = "HIGH"
    /\ edge' = "LOW"
    /\ HandlePhi2High
    /\ UNCHANGED <<irq, nmi, address, rom>>

-----------------------------------------------------------------------------------
(* setIRQ and setNMI, called between two clock phases. *)
SetIRQ ==
    /\ \E level \in Pin : irq' = level /\ level # irq
    /\ UNCHANGED <<cpu, nmi, edge, busVars>>

SetNMI ==
    /\ \E level \in Pin : nmi' = level /\ level # nmi
    /\ UNCHANGED <<cpu, irq, edge, busVars>>

(* reset(), called as main and the tests call it: with no instruction under way, before *)
(* a LOW phase. It leaves _cycle, _ir, _started and the interrupt latches as they are.  *)
ResetBetweenInstructions ==
    /\ edge = "LOW"
    /\ cpu.cycle = 0
    /\ cpu' = Reset(cpu)
    /\ UNCHANGED <<irq, nmi, edge, busVars>>

Clock == Phi2Low \/ Phi2High

Next == Phi2Low \/ Phi2High \/ SetIRQ \/ SetNMI \/ ResetBetweenInstructions

(* main's loop never stops delivering phases. *)
Spec == Init /\ [][Next]_vars /\ WF_vars(Clock)

-----------------------------------------------------------------------------------
(* Where an instruction is under way: the CPU has been started and has read its reset   *)
(* vector. And cycle 0 always finds a listed opcode in _ir, the one of the instruction  *)
(* that is over: handlePhi2Low looks it up before it drives the address of the next.    *)
Sequencing ==
    /\ cpu.cycle > 0 => cpu.started /\ cpu.resetStage = 2
    /\ cpu.cycle = 0 /\ cpu.started => Known

(* The vector bytes and every opcode are fetched from where the program counter        *)
(* points: in the HIGH phase of cycle 0 the bus still carries the address that LOW     *)
(* drove, and nothing in between has moved either of the two.                          *)
FetchesAtPC ==
    edge = "HIGH" /\ cpu.started /\ cpu.cycle = 0 => address = cpu.pc

(* An instruction is never counted past its last cycle, so the count gets back to 0    *)
(* and the next opcode is fetched. The exact comparison with opcodeInfo.cycles would   *)
(* otherwise be missed for good.                                                       *)
CycleInRange ==
    cpu.cycle > 0 /\ Known => cpu.cycle < OpcodeMap[cpu.ir].cycles

(* From the moment an IRQ is taken until its handler is entered, the interrupt disable *)
(* flag stays clear, whatever the pins do meanwhile: the status byte on the stack is   *)
(* one that was interruptible, and RTI makes it so again.                              *)
TakingIRQ ==
    /\ cpu.cycle > 0
    /\ cpu.ir = BRK
    /\ cpu.vector = IRQ_BRK_VECTOR
    /\ ~cpu.fromSW

IRQFrameUnmasked == TakingIRQ => ~Has(cpu.status, INTERRUPT)

(* With a byte in _ir that is no opcode of the table the CPU never does anything again: *)
(* no bus transfer, no register change. An instruction under way hangs because the pins *)
(* are looked at in cycle 0 only, so that neither IRQ nor NMI gets it out. And a CPU    *)
(* whose uninitialised _ir powers up with such a byte never starts: reset() leaves _ir   *)
(* as it is, however often it is called.                                               *)
Hung == ~Known /\ (cpu.cycle > 0 \/ ~cpu.started)

HungForGood ==
    [][Hung => /\ Hung'
               /\ cpu' = cpu \/ ResetBetweenInstructions
               /\ UNCHANGED <<address, data, sram>>]_vars
==================================================================================
