----------------------------- MODULE W65C02S_proofs -----------------------------
(***********************************************************************************)
(* The clocked CPU for every opcode table, every EEPROM image and every power-up:   *)
(* types, the cycle counter, the program counter on the bus, and interrupts. The     *)
(* first part is about the bus: the slaves never collide, and a transfer keeps the   *)
(* memories and the latches well-formed.                                             *)
(*                                                                                  *)
(* Every handler of the HIGH phase changes some registers, does at most one         *)
(* transfer and leaves the counting of the cycle to the end of handlePhi2High:      *)
(* that is Advances, shown handler by handler. The invariant is then a matter of    *)
(* the few steps that touch the cycle counter, _ir and _resetStage.                 *)
(***********************************************************************************)
EXTENDS W65C02S, Bytes_proofs


(* The 16 KiB of the SRAM are the addresses below 0x4000.                              *)
LEMMA SRAMMember ==
    ASSUME NEW a
    PROVE  a \in SRAMAddresses <=> a \in Int /\ 0 <= a /\ a <= 16383
<1>1. SRAM_LAST \in Int
    BY DEF SRAM_LAST
<1>2. a \in SRAMAddresses <=> a \in Int /\ 0 <= a /\ a <= SRAM_LAST
    BY <1>1, RangeMember DEF SRAMAddresses
<1> QED
    BY <1>2 DEF SRAM_LAST

(* The 32 KiB of the EEPROM are the addresses from 0x8000 on.                          *)
LEMMA EEPROMMember ==
    ASSUME NEW a
    PROVE  a \in EEPROMAddresses <=> a \in Int /\ 32768 <= a /\ a <= 65535
<1>1. EEPROM_FIRST \in Int /\ UINT16_MAX \in Int
    BY DEF EEPROM_FIRST, UINT16_MAX
<1>2. a \in EEPROMAddresses <=> a \in Int /\ EEPROM_FIRST <= a /\ a <= UINT16_MAX
    BY <1>1, RangeMember DEF EEPROMAddresses
<1> QED
    BY <1>2 DEF EEPROM_FIRST, UINT16_MAX

-----------------------------------------------------------------------------------
(* The chip selects exclude one another: every address of the 64 KiB is decoded by at  *)
(* most one slave, so that a read is never driven by two and a write reaches one       *)
(* device only (shouldHandleAddress of the SRAM, the EEPROM, the VIA and the ACIA).    *)
THEOREM ChipSelectsExclusive ==
    ASSUME NEW a \in Word
    PROVE  /\ ~(SRAMSelected(a) /\ EEPROMSelected(a))
           /\ ~(SRAMSelected(a) /\ VIASelected(a))
           /\ ~(SRAMSelected(a) /\ ACIASelected(a))
           /\ ~(EEPROMSelected(a) /\ VIASelected(a))
           /\ ~(EEPROMSelected(a) /\ ACIASelected(a))
           /\ ~(VIASelected(a) /\ ACIASelected(a))
BY DEF SRAMSelected, EEPROMSelected, VIASelected, ACIASelected

(* The address lines a memory decodes are exactly its addresses: no mirror image of    *)
(* the SRAM, no address of the EEPROM outside its 32 KiB.                              *)
THEOREM MemoriesDecodeTheirRange ==
    ASSUME NEW a \in Word
    PROVE  /\ SRAMSelected(a) <=> a \in SRAMAddresses
           /\ EEPROMSelected(a) <=> a \in EEPROMAddresses
<1>1. a \in Int /\ 0 <= a /\ a <= 65535
    BY WordMember
<1>2. Has(a, A15) <=> a >= 32768
    BY <1>1 DEF Has, A15
<1>3. ~Has(a, A15) => (Has(a, A14) <=> a >= 16384)
    BY <1>1, <1>2 DEF Has, A14
<1> QED
    BY <1>1, <1>2, <1>3, SRAMMember, EEPROMMember DEF SRAMSelected, EEPROMSelected

-----------------------------------------------------------------------------------
(* What a read returns is a byte (Bus::getData after notifySlaves(READ)).              *)
LEMMA ByteAtType ==
    ASSUME NEW f, NEW range, IsMemory(f, range), NEW a
    PROVE  ByteAt(f, a) \in Byte
<1>1. 0 \in Byte
    BY ByteMember
<1> QED
    BY <1>1 DEF ByteAt, IsMemory

(* Every byte a read may return is a byte, and there is one.                           *)
LEMMA ReadBytesType ==
    ASSUME BusTypeOK
    PROVE  ReadBytes \subseteq Byte
<1>1. ByteAt(sram, address) \in Byte /\ ByteAt(rom, address) \in Byte
    BY ByteAtType DEF BusTypeOK
<1>2. DeviceBytes \subseteq Byte
    BY DeviceBytesAssumption
<1>3. Driven \subseteq Byte
    BY <1>1, <1>2 DEF Driven
<1> QED
    BY <1>3 DEF ReadBytes, BusTypeOK

(* A write changes the SRAM only inside its range, and only by a byte.                 *)
LEMMA WrittenType ==
    ASSUME NEW f, NEW range, IsMemory(f, range), NEW a \in range, NEW v \in Byte
    PROVE  IsMemory(Written(f, a, v), range)
BY DEF IsMemory, Written

TransferOK == data' \in Byte /\ IsMemory(sram', SRAMAddresses)

(* A write leaves the bus and the SRAM well-typed.                                     *)
LEMMA WriteByteType ==
    ASSUME BusTypeOK, NEW v \in Byte, WriteByte(v)
    PROVE  TransferOK
<1>1. CASE SRAMSelected(address)
    <2>1. address \in SRAMAddresses
        BY <1>1, MemoriesDecodeTheirRange DEF BusTypeOK
    <2>2. IsMemory(Written(sram, address, v), SRAMAddresses)
        BY <2>1, WrittenType DEF BusTypeOK
    <2> QED
        BY <1>1, <2>2 DEF WriteByte, AfterWrite, TransferOK
<1>2. CASE ~SRAMSelected(address)
    BY <1>2 DEF WriteByte, AfterWrite, TransferOK, BusTypeOK
<1> QED
    BY <1>1, <1>2

(* So does a read,                                                                     *)
LEMMA FetchByteType ==
    ASSUME BusTypeOK, NEW m, FetchByte(m)
    PROVE  m \in Byte /\ TransferOK
BY ReadBytesType DEF FetchByte, TransferOK, BusTypeOK

(* and a cycle without a transfer.                                                     *)
LEMMA NoTransferType ==
    ASSUME BusTypeOK, NoTransfer
    PROVE  TransferOK
BY DEF NoTransfer, TransferOK, BusTypeOK

(* The machine starts with a well-formed bus.                                          *)
LEMMA BusInitType ==
    ASSUME NEW images, \A image \in images : IsMemory(image, EEPROMAddresses),
           BusInit(images)
    PROVE  BusTypeOK
<1>1. 0 \in Byte /\ 0 \in Word
    BY ByteMember, WordMember
<1>2. IsMemory(Blank, SRAMAddresses)
    BY DEF IsMemory, Blank
<1> QED
    BY <1>1, <1>2 DEF BusInit, BusTypeOK

-----------------------------------------------------------------------------------

(* Registers a handler may leave before the cycle is counted. *)
Leaves(c) ==
    /\ c \in Registers
    /\ c.ir = cpu.ir
    /\ c.cycle = cpu.cycle
    /\ c.started = cpu.started
    /\ c.resetStage = cpu.resetStage
    /\ c.vector = cpu.vector
    /\ c.fromSW = cpu.fromSW

Advances == TransferOK /\ \E c : Leaves(c) /\ Step(c)

-----------------------------------------------------------------------------------
(* updateStatusFlags leaves a byte.                                                    *)
LEMMA FlagsType ==
    ASSUME NEW s, NEW v
    PROVE  UpdateStatusFlags(s, v) \in Byte
BY PutType DEF UpdateStatusFlags

(* A handler may leave the registers as they are.                                      *)
LEMMA LeavesCPU ==
    ASSUME TypeOK
    PROVE  Leaves(cpu)
BY DEF TypeOK, Leaves

(* The types of the registers and latches, one by one.                                 *)
LEMMA RegisterTypes ==
    ASSUME TypeOK
    PROVE  /\ cpu.a \in Byte /\ cpu.x \in Byte /\ cpu.y \in Byte /\ cpu.sp \in Byte
           /\ cpu.pc \in Word /\ cpu.status \in Byte /\ cpu.vector \in Word
           /\ cpu.adl \in Byte /\ cpu.adh \in Byte /\ cpu.add \in Byte
           /\ cpu.cycle \in 0 .. 7 /\ cpu.ir \in Byte
BY DEF TypeOK, Registers

(* One register or latch takes a new value.                                            *)
LEMMA LeavesByte ==
    ASSUME NEW c, Leaves(c), NEW v \in Byte
    PROVE  /\ Leaves([c EXCEPT !.adl = v])
           /\ Leaves([c EXCEPT !.adh = v])
           /\ Leaves([c EXCEPT !.add = v])
           /\ Leaves([c EXCEPT !.sp = v])
           /\ Leaves([c EXCEPT !.status = v])
<1>1. Leaves([c EXCEPT !.adl = v])
    BY DEF Leaves, Registers
<1>2. Leaves([c EXCEPT !.adh = v])
    BY DEF Leaves, Registers
<1>3. Leaves([c EXCEPT !.add = v])
    BY DEF Leaves, Registers
<1>4. Leaves([c EXCEPT !.sp = v])
    BY DEF Leaves, Registers
<1>5. Leaves([c EXCEPT !.status = v])
    BY DEF Leaves, Registers
<1> QED
    BY <1>1, <1>2, <1>3, <1>4, <1>5

(* The program counter takes a new value.                                              *)
LEMMA LeavesWord ==
    ASSUME NEW c, Leaves(c), NEW w \in Word
    PROVE  Leaves([c EXCEPT !.pc = w])
BY DEF Leaves, Registers

(* A register takes a result, and Z and N with it.                                     *)
LEMMA LeavesSet ==
    ASSUME NEW c, Leaves(c), NEW v \in Byte
    PROVE  Leaves(SetA(c, v)) /\ Leaves(SetX(c, v)) /\ Leaves(SetY(c, v))
<1>1. UpdateStatusFlags(c.status, v) \in Byte
    BY FlagsType
<1>2. Leaves(SetA(c, v))
    BY <1>1 DEF Leaves, Registers, SetA
<1>3. Leaves(SetX(c, v))
    BY <1>1 DEF Leaves, Registers, SetX
<1>4. Leaves(SetY(c, v))
    BY <1>1 DEF Leaves, Registers, SetY
<1> QED
    BY <1>2, <1>3, <1>4

-----------------------------------------------------------------------------------
(* A cycle without a transfer, and the three kinds of transfer.                        *)
LEMMA IdleAdvances ==
    ASSUME TypeOK, Idle
    PROVE  Advances
<1>1. TransferOK
    BY NoTransferType DEF TypeOK, Idle
<1> QED
    BY <1>1, LeavesCPU DEF Advances, Idle

(* A cycle that changes registers only.                                                *)
LEMMA SilentAdvances ==
    ASSUME TypeOK, NoTransfer, NEW c, Leaves(c), Step(c)
    PROVE  Advances
<1>1. TransferOK
    BY NoTransferType DEF TypeOK
<1> QED
    BY <1>1 DEF Advances

(* A read that leaves the registers c.                                                 *)
LEMMA FetchAdvances ==
    ASSUME TypeOK, NEW m, FetchByte(m), NEW c, m \in Byte => Leaves(c), Step(c)
    PROVE  Advances
<1>1. m \in Byte /\ TransferOK
    BY FetchByteType DEF TypeOK
<1> QED
    BY <1>1 DEF Advances

(* A write that leaves the registers c.                                                *)
LEMMA WriteAdvances ==
    ASSUME TypeOK, NEW v \in Byte, WriteByte(v), NEW c, Leaves(c), Step(c)
    PROVE  Advances
<1>1. TransferOK
    BY WriteByteType DEF TypeOK
<1> QED
    BY <1>1 DEF Advances

(* A push: a write and a decrement of SP.                                              *)
LEMMA PushAdvances ==
    ASSUME TypeOK, NEW v \in Byte, Push(v)
    PROVE  Advances
<1>1. U8(cpu.sp - 1) \in Byte
    BY RegisterTypes, ByteMember, NarrowType
<1>2. Leaves([cpu EXCEPT !.sp = U8(cpu.sp - 1)])
    BY <1>1, LeavesCPU, LeavesByte
<1> QED
    BY <1>2, WriteAdvances DEF Push

(* The increment of SP before a pull stays within a byte.                              *)
LEMMA PopLeaves ==
    ASSUME TypeOK
    PROVE  Leaves(PopNext)
<1>1. U8(cpu.sp + 1) \in Byte
    BY RegisterTypes, ByteMember, NarrowType
<1> QED
    BY <1>1, LeavesCPU, LeavesByte DEF PopNext

(* _pc++ stays within 16 bits.                                                         *)
LEMMA AdvancePCLeaves ==
    ASSUME TypeOK
    PROVE  Leaves(AdvancePC(cpu))
<1>1. U16(cpu.pc + 1) \in Word
    BY RegisterTypes, WordMember, NarrowType
<1> QED
    BY <1>1, LeavesCPU, LeavesWord DEF AdvancePC

(* A read into one of the three address latches.                                       *)
LEMMA FetchToAdvances ==
    ASSUME TypeOK, NEW field \in {"adl", "adh", "add"}, FetchTo(field)
    PROVE  Advances
<1>1. PICK m \in ReadBytes : FetchByte(m) /\ Step([cpu EXCEPT ![field] = m])
    BY DEF FetchTo
<1>2. m \in Byte => Leaves([cpu EXCEPT ![field] = m])
    BY LeavesCPU, LeavesByte
<1> QED
    BY <1>1, <1>2, FetchAdvances

(* Two bytes read one after the other become the program counter.                      *)
LEMMA JumpAdvances ==
    ASSUME TypeOK, NEW low \in Byte,
           \E m \in ReadBytes : FetchByte(m) /\ Step([cpu EXCEPT !.pc = Join(m, low)])
    PROVE  Advances
<1>1. PICK m \in ReadBytes : FetchByte(m) /\ Step([cpu EXCEPT !.pc = Join(m, low)])
    OBVIOUS
<1>2. m \in Byte => Leaves([cpu EXCEPT !.pc = Join(m, low)])
    BY JoinType, LeavesCPU, LeavesWord
<1> QED
    BY <1>1, <1>2, FetchAdvances

-----------------------------------------------------------------------------------
(* The operations of Alu.tla leave bytes.                                              *)
LEMMA CarryType ==
    ASSUME NEW s \in Byte
    PROVE  CarryOf(s) \in 0 .. 1
BY ByteMember DEF CarryOf

(* doADC and doSBC leave bytes in A and in the status register.                        *)
LEMMA ArithmeticLeaves ==
    ASSUME TypeOK, NEW m \in Byte
    PROVE  Leaves(doADC(cpu, m)) /\ Leaves(doSBC(cpu, m))
<1>1. cpu.a \in Int /\ m \in Int /\ CarryOf(cpu.status) \in Int
    BY RegisterTypes, ByteMember, CarryType
<1>2. \A on : Leaves([cpu EXCEPT !.status = Put(cpu.status, CARRY, on)])
    BY LeavesCPU, LeavesByte, PutType
<1>3. Leaves(doADC(cpu, m))
    <2>1. U8(cpu.a + m + CarryOf(cpu.status)) \in Byte
        BY <1>1, NarrowType
    <2> QED
        BY <1>2, <2>1, LeavesSet DEF doADC
<1>4. Leaves(doSBC(cpu, m))
    <2>1. U16(cpu.a - m - (1 - CarryOf(cpu.status))) \in Int
        BY <1>1, NarrowType, WordMember
    <2>2. U8(U16(cpu.a - m - (1 - CarryOf(cpu.status)))) \in Byte
        BY <2>1, NarrowType
    <2> QED
        BY <1>2, <2>2, LeavesSet DEF doSBC
<1> QED
    BY <1>3, <1>4

(* doAND, doORA and doEOR do.                                                          *)
LEMMA BitwiseLeaves ==
    ASSUME TypeOK, NEW m \in Byte
    PROVE  Leaves(doAND(cpu, m)) /\ Leaves(doORA(cpu, m)) /\ Leaves(doEOR(cpu, m))
<1>1. /\ BitAnd(cpu.a, m) \in Byte
      /\ BitOr(cpu.a, m) \in Byte
      /\ BitXor(cpu.a, m) \in Byte
    BY ByteOfType DEF BitAnd, BitOr, BitXor
<1> QED
    BY <1>1, LeavesCPU, LeavesSet DEF doAND, doORA, doEOR

(* doCMP and doBIT write the status register only.                                     *)
LEMMA FlagsLeave ==
    ASSUME TypeOK, NEW m \in Byte, NEW reg
    PROVE  Leaves(doCMP(cpu, reg, m)) /\ Leaves(doBIT(cpu, m))
<1>1. Leaves(doCMP(cpu, reg, m))
    BY FlagsType, LeavesCPU, LeavesByte, ZenonT(30) DEF doCMP
<1>2. Leaves(doBIT(cpu, m))
    BY PutType, LeavesCPU, LeavesByte, ZenonT(30) DEF doBIT
<1> QED
    BY <1>1, <1>2

(* The byte a shift or a count makes.                                                  *)
LEMMA ModifiedByte ==
    ASSUME NEW s \in Byte, NEW v \in Byte
    PROVE  /\ ASL(s, v).value \in Byte
           /\ LSR(s, v).value \in Byte
           /\ ROL(s, v).value \in Byte
           /\ ROR(s, v).value \in Byte
           /\ INC(s, v).value \in Byte
           /\ DEC(s, v).value \in Byte
<1>1. v \in Int /\ 0 <= v /\ v <= 255 /\ CarryOf(s) \in 0 .. 1
    BY ByteMember, CarryType
<1>2. U8(2 * v) \in Byte /\ U8(v + 1) \in Byte /\ U8(v - 1) \in Byte
    BY <1>1, NarrowType
<1>3. v \div 2 \in Int /\ 0 <= v \div 2 /\ v \div 2 <= 127
    BY <1>1, SMT
<1>4. v \div 2 \in Byte
    BY <1>3, ByteMember
<1>5. U8(2 * v) + CarryOf(s) \in Byte
    <2>1. U8(2 * v) \in Int /\ 0 <= U8(2 * v) /\ U8(2 * v) <= 254
        BY <1>1, SMT DEF U8
    <2> QED
        BY <1>1, <2>1, ByteMember
<1>6. 128 * CarryOf(s) + (v \div 2) \in Byte
    <2> DEFINE h == v \div 2
    <2> HIDE DEF h
    <2>1. h \in Int /\ 0 <= h /\ h <= 127
        BY <1>3 DEF h
    <2>2. CarryOf(s) = 0 \/ CarryOf(s) = 1
        BY <1>1
    <2>3. 128 * CarryOf(s) + h \in Int /\ 0 <= 128 * CarryOf(s) + h
             /\ 128 * CarryOf(s) + h <= 255
        BY <2>1, <2>2, SMT
    <2>4. 128 * CarryOf(s) + h \in Byte
        BY <2>3, ByteMember
    <2> QED
        BY <2>4 DEF h
<1> QED
    BY <1>2, <1>4, <1>5, <1>6 DEF ASL, LSR, ROL, ROR, INC, DEC

(* The result of a shift or a count, stored and told in the flags.                     *)
LEMMA ResultLeaves ==
    ASSUME TypeOK, NEW r, r.value \in Byte
    PROVE  /\ Leaves(ToAccumulator(cpu, r))
           /\ Leaves(ShiftedInMemory(cpu, r))
           /\ Leaves(CountedInMemory(cpu, r))
<1>1. Leaves([cpu EXCEPT !.status = Put(cpu.status, CARRY, r.carry)])
    BY LeavesCPU, LeavesByte, PutType
<1>2. Leaves(ToAccumulator(cpu, r))
    BY <1>1, LeavesSet DEF ToAccumulator
<1>3. Leaves(ShiftedInMemory(cpu, r))
    BY FlagsType, LeavesCPU, LeavesByte DEF ShiftedInMemory
<1>4. Leaves(CountedInMemory(cpu, r))
    BY FlagsType, LeavesCPU, LeavesByte DEF CountedInMemory
<1> QED
    BY <1>2, <1>3, <1>4

-----------------------------------------------------------------------------------
(* The operations of a memory instruction, whichever opcode selects them.              *)
LEMMA ReadResultLeaves ==
    ASSUME TypeOK, NEW m \in Byte, Op \in ReadOps
    PROVE  Leaves(ReadResult(Op, cpu, m))
<1>1. CASE Op \in {"LDA", "LDX", "LDY"}
    BY <1>1, LeavesCPU, LeavesSet DEF ReadResult
<1>2. CASE Op \in {"AND", "ORA", "EOR"}
    BY <1>2, BitwiseLeaves DEF ReadResult
<1>3. CASE Op \in {"ADC", "SBC"}
    BY <1>3, ArithmeticLeaves DEF ReadResult
<1>4. CASE Op \in {"CMP", "CPX", "CPY", "BIT"}
    BY <1>4, FlagsLeave DEF ReadResult
<1> QED
    BY <1>1, <1>2, <1>3, <1>4 DEF ReadOps

(* A shift or a count makes a byte.                                                    *)
LEMMA ModifyResultType ==
    ASSUME NEW op \in ModifyOps, NEW s \in Byte, NEW v \in Byte
    PROVE  ModifyResult(op, s, v).value \in Byte
BY ModifiedByte DEF ModifyResult, ModifyOps

(* A store takes a byte from a register.                                               *)
LEMMA StoredByteType ==
    ASSUME TypeOK, NEW op \in StoreOps
    PROVE  StoredByte(op, cpu) \in Byte
BY RegisterTypes DEF StoredByte, StoreOps

(* The implied instructions that work on registers alone.                              *)
LEMMA RegisterResultLeaves ==
    ASSUME TypeOK, NEW op
    PROVE  Leaves(RegisterResult(op, cpu))
<1>1. cpu.a \in Byte /\ cpu.x \in Byte /\ cpu.y \in Byte /\ cpu.sp \in Byte
    BY RegisterTypes
<1>2. /\ U8(cpu.x + 1) \in Byte /\ U8(cpu.x - 1) \in Byte
      /\ U8(cpu.y + 1) \in Byte /\ U8(cpu.y - 1) \in Byte
    BY <1>1, ByteMember, NarrowType
<1>3. \A flag, on : Leaves([cpu EXCEPT !.status = Put(cpu.status, flag, on)])
    BY LeavesCPU, LeavesByte, PutType
<1>4. CASE op \in {"CLC", "SEC", "CLI", "SEI", "CLV", "CLD", "SED"}
    BY <1>3, <1>4 DEF RegisterResult
<1>5. CASE op \in {"TAX", "TXA", "TAY", "TYA", "TXS", "TSX"}
    BY <1>1, <1>5, LeavesCPU, LeavesSet, LeavesByte DEF RegisterResult
<1>6. CASE op \in {"INX", "DEX", "INY", "DEY"}
    BY <1>2, <1>6, LeavesCPU, LeavesSet DEF RegisterResult
<1>7. CASE op \notin {"CLC", "SEC", "CLI", "SEI", "CLV", "CLD", "SED", "TAX", "TXA", "TAY",
                      "TYA", "TXS", "TSX", "INX", "DEX", "INY", "DEY"}
    BY <1>7, LeavesCPU DEF RegisterResult
<1> QED
    BY <1>4, <1>5, <1>6, <1>7

(* The cycle in which a memory instruction does its work.                              *)
LEMMA ReadAdvances ==
    ASSUME TypeOK, Op \in ReadOps, NEW m, FetchByte(m), Read(m)
    PROVE  Advances
<1>1. m \in Byte
    BY FetchByteType DEF TypeOK
<1>2. \E c : Leaves(c) /\ Step(c)
    BY <1>1, ReadResultLeaves DEF Read
<1> QED
    BY <1>2, FetchAdvances

(* A read-modify-write is one cycle.                                                   *)
LEMMA ModifyAdvances ==
    ASSUME TypeOK, Op \in ModifyOps, NEW m \in Byte, Modify(m)
    PROVE  Advances
<1> DEFINE r == ModifyResult(Op, cpu.status, m)
<1>1. r.value \in Byte
    BY RegisterTypes, ModifyResultType
<1>2. Leaves(InMemory(Op, cpu, r))
    BY <1>1, ResultLeaves DEF InMemory
<1>3. WriteByte(r.value) /\ Step(InMemory(Op, cpu, r))
    BY DEF Modify
<1> QED
    BY <1>1, <1>2, <1>3, WriteAdvances

(* A store is one cycle and changes no register.                                       *)
LEMMA StoreAdvances ==
    ASSUME TypeOK, Op \in StoreOps, Store
    PROVE  Advances
BY StoredByteType, LeavesCPU, WriteAdvances DEF Store

(* The cycle that switches on the opcode is one cycle, whichever cases it has.         *)
LEMMA ExecuteAdvances ==
    ASSUME TypeOK, NEW ops, Execute(ops)
    PROVE  Advances
<1>1. CASE Op \in ReadOps /\ \E m \in ReadBytes : FetchByte(m) /\ Read(m)
    BY <1>1, ReadAdvances
<1>2. CASE Op \in ModifyOps /\ \E m \in ReadBytes : Modify(m)
    <2>1. PICK m \in ReadBytes : Modify(m)
        BY <1>2
    <2>2. m \in Byte
        BY ReadBytesType DEF TypeOK
    <2> QED
        BY <1>2, <2>1, <2>2, ModifyAdvances
<1>3. CASE Op \in StoreOps /\ Store
    BY <1>3, StoreAdvances
<1>4. CASE Idle
    BY <1>4, IdleAdvances
<1> QED
    BY <1>1, <1>2, <1>3, <1>4 DEF Execute

-----------------------------------------------------------------------------------
(* The handlers of the HIGH phase, one addressing mode at a time.                      *)
LEMMA AccumulatorAdvances ==
    ASSUME TypeOK, AccumulatorHigh
    PROVE  Advances
<1>1. cpu.a \in Byte /\ cpu.status \in Byte /\ NoTransfer
    BY RegisterTypes DEF AccumulatorHigh
<1>2. CASE Op \in ModifyOps /\ Step(ToAccumulator(cpu, ModifyResult(Op, cpu.status, cpu.a)))
    BY <1>1, <1>2, ModifyResultType, ResultLeaves, SilentAdvances
<1>3. CASE Step(cpu)
    BY <1>1, <1>3, LeavesCPU, SilentAdvances
<1> QED
    BY <1>2, <1>3 DEF AccumulatorHigh

(* Cycle 1 of the implied instructions.                                                *)
LEMMA RegisterOperationAdvances ==
    ASSUME TypeOK, RegisterOperation
    PROVE  Advances
BY RegisterResultLeaves, SilentAdvances DEF RegisterOperation

(* BRK, and the interrupt sequences that inject it.                                    *)
LEMMA BreakAdvances ==
    ASSUME TypeOK, BreakSequence
    PROVE  Advances
<1>1. Hi(cpu.pc) \in Byte /\ Lo(cpu.pc) \in Byte /\ cpu.adl \in Byte
    BY RegisterTypes, HalvesType
<1>2. PushedStatus \in Byte
    BY RegisterTypes, PutType DEF PushedStatus
<1>3. CASE Push(Hi(cpu.pc)) \/ Push(Lo(cpu.pc)) \/ Push(PushedStatus)
    BY <1>1, <1>2, <1>3, PushAdvances
<1>4. CASE FetchTo("adl")
    BY <1>4, FetchToAdvances
<1>5. CASE \E m \in ReadBytes : FetchByte(m) /\ Step(HandlerEntered(m))
    <2>1. PICK m \in ReadBytes : FetchByte(m) /\ Step(HandlerEntered(m))
        BY <1>5
    <2>2. StatusInHandler \in Byte
        BY PutType DEF StatusInHandler
    <2>3. m \in Byte => Leaves(HandlerEntered(m))
        <3>1. m \in Byte => Join(m, cpu.adl) \in Word
            BY <1>1, JoinType
        <3> QED
            BY <2>2, <3>1, LeavesCPU DEF HandlerEntered, Leaves, Registers
    <2> QED
        BY <2>1, <2>3, FetchAdvances
<1>6. CASE Idle
    BY <1>6, IdleAdvances
<1> QED
    BY <1>3, <1>4, <1>5, <1>6 DEF BreakSequence

(* PHA, PHP, PLA and PLP.                                                              *)
LEMMA StackAdvances ==
    ASSUME TypeOK, PushSequence \/ PullSequence
    PROVE  Advances
<1>1. cpu.a \in Byte /\ cpu.status \in Byte
    BY RegisterTypes
<1>2. CASE Push(cpu.a) \/ Push(cpu.status)
    BY <1>1, <1>2, PushAdvances
<1>3. CASE NoTransfer /\ Step(PopNext)
    BY <1>3, PopLeaves, SilentAdvances
<1>4. CASE \E m \in ReadBytes :
              FetchByte(m) /\ \/ Step(SetA(cpu, m))
                              \/ Step([cpu EXCEPT !.status = Put(m, BREAK, FALSE)])
    BY <1>4, PutType, LeavesCPU, LeavesSet, LeavesByte, FetchAdvances
<1>5. CASE Idle
    BY <1>5, IdleAdvances
<1> QED
    BY <1>2, <1>3, <1>4, <1>5 DEF PushSequence, PullSequence

(* RTS and RTI.                                                                        *)
LEMMA ReturnAdvances ==
    ASSUME TypeOK, ReturnSequence \/ ReturnFromInterrupt
    PROVE  Advances
<1>1. cpu.adl \in Byte
    BY RegisterTypes
<1>2. CASE NoTransfer /\ (Step(PopNext) \/ Step(AdvancePC(cpu)))
    BY <1>2, PopLeaves, AdvancePCLeaves, SilentAdvances
<1>3. CASE \E m \in ReadBytes :
              FetchByte(m) /\ (\/ Step([PopNext EXCEPT !.adl = m])
                               \/ Step([PopNext EXCEPT !.status = m]))
    BY <1>3, PopLeaves, LeavesByte, FetchAdvances
<1>4. CASE \E m \in ReadBytes : FetchByte(m) /\ Step([cpu EXCEPT !.pc = Join(m, cpu.adl)])
    BY <1>1, <1>4, JumpAdvances
<1>5. CASE Idle
    BY <1>5, IdleAdvances
<1> QED
    BY <1>2, <1>3, <1>4, <1>5 DEF ReturnSequence, ReturnFromInterrupt

(* All of the implied instructions.                                                    *)
LEMMA ImpliedAdvances ==
    ASSUME TypeOK, ImpliedHigh
    PROVE  Advances
BY RegisterOperationAdvances, BreakAdvances, StackAdvances, ReturnAdvances, IdleAdvances
   DEF ImpliedHigh

(* Immediate operands.                                                                 *)
LEMMA ImmediateAdvances ==
    ASSUME TypeOK, ImmediateHigh
    PROVE  Advances
BY ExecuteAdvances, IdleAdvances DEF ImmediateHigh

(* Absolute and absolute indexed addressing, JMP and JSR.                              *)
LEMMA AbsoluteAdvances ==
    ASSUME TypeOK, AbsoluteHigh
    PROVE  Advances
<1>1. Hi(cpu.pc) \in Byte /\ Lo(cpu.pc) \in Byte /\ cpu.adl \in Byte
    BY RegisterTypes, HalvesType
<1>2. CASE FetchTo("adl") \/ FetchTo("adh")
    BY <1>2, FetchToAdvances
<1>3. CASE \E m \in ReadBytes : FetchByte(m) /\ Step([cpu EXCEPT !.pc = Join(m, cpu.adl)])
    BY <1>1, <1>3, JumpAdvances
<1>4. CASE Push(Hi(cpu.pc)) \/ Push(Lo(cpu.pc))
    BY <1>1, <1>4, PushAdvances
<1>5. CASE Execute(ReadOps \cup ModifyOps \cup StoreOps)
    BY <1>5, ExecuteAdvances
<1>6. CASE Idle
    BY <1>6, IdleAdvances
<1> QED
    BY <1>2, <1>3, <1>4, <1>5, <1>6 DEF AbsoluteHigh

(* The branches: the target stays within 16 bits.                                      *)
LEMMA RelativeAdvances ==
    ASSUME TypeOK, RelativeHigh
    PROVE  Advances
<1>1. CASE \E m \in ReadBytes : FetchByte(m) /\ Step([AdvancePC(cpu) EXCEPT !.adl = m])
    BY <1>1, AdvancePCLeaves, LeavesByte, FetchAdvances
<1>2. CASE NoTransfer /\ Step([cpu EXCEPT !.pc = U16(cpu.pc + Signed(cpu.adl))])
    <2>1. U16(cpu.pc + Signed(cpu.adl)) \in Word
        <3>1. Signed(cpu.adl) \in Int
            BY RegisterTypes, ByteMember DEF Signed
        <3>2. cpu.pc + Signed(cpu.adl) \in Int
            BY <3>1, RegisterTypes, WordMember
        <3> QED
            BY <3>2, NarrowType
    <2> QED
        BY <1>2, <2>1, LeavesCPU, LeavesWord, SilentAdvances
<1>3. CASE Idle
    BY <1>3, IdleAdvances
<1> QED
    BY <1>1, <1>2, <1>3 DEF RelativeHigh

(* Zero page operands.                                                                 *)
LEMMA ZeroPageAdvances ==
    ASSUME TypeOK, ZeroPageHigh
    PROVE  Advances
BY FetchToAdvances, ExecuteAdvances, IdleAdvances DEF ZeroPageHigh

(* Zero page operands indexed by X or Y.                                               *)
LEMMA ZeroPageIndexedAdvances ==
    ASSUME TypeOK, ZeroPageIndexedHigh
    PROVE  Advances
<1> DEFINE index == IF Mode = "ZPX" THEN cpu.x ELSE cpu.y
           ops == (ReadOps \ {"BIT", "CPX", "CPY"}) \cup (ModifyOps \ {"INC", "DEC"})
                    \cup StoreOps
<1>1. CASE NoTransfer /\ Step([cpu EXCEPT !.adh = U8(cpu.adl + index)])
    <2>1. U8(cpu.adl + index) \in Byte
        BY RegisterTypes, ByteMember, NarrowType
    <2> QED
        BY <1>1, <2>1, LeavesCPU, LeavesByte, SilentAdvances
<1>2. CASE FetchTo("adl")
    BY <1>2, FetchToAdvances
<1>3. CASE Execute(ops)
    BY <1>3, ExecuteAdvances
<1>4. CASE Idle
    BY <1>4, IdleAdvances
<1> QED
    BY <1>1, <1>2, <1>3, <1>4 DEF ZeroPageIndexedHigh

(* JMP through a pointer.                                                              *)
LEMMA IndirectAdvances ==
    ASSUME TypeOK, IndirectHigh
    PROVE  Advances
<1>1. CASE FetchTo("adl") \/ FetchTo("adh") \/ FetchTo("add")
    BY <1>1, FetchToAdvances
<1>2. CASE \E m \in ReadBytes : FetchByte(m) /\ Step([cpu EXCEPT !.pc = Join(m, cpu.add)])
    BY <1>2, RegisterTypes, JumpAdvances
<1>3. CASE Idle
    BY <1>3, IdleAdvances
<1> QED
    BY <1>1, <1>2, <1>3 DEF IndirectHigh

(* Operands behind a zero page pointer.                                                *)
LEMMA PointerAdvances ==
    ASSUME TypeOK, IndexedIndirectHigh \/ IndirectIndexedHigh
    PROVE  Advances
<1>1. CASE \E m \in ReadBytes :
              FetchByte(m) /\ (\/ Step([cpu EXCEPT !.add = U8(m + cpu.x)])
                               \/ Step([cpu EXCEPT !.adl = U8(m + cpu.y)]))
    <2>1. ASSUME NEW m \in Byte
          PROVE  U8(m + cpu.x) \in Byte /\ U8(m + cpu.y) \in Byte
        BY RegisterTypes, ByteMember, NarrowType
    <2> QED
        BY <1>1, <2>1, LeavesCPU, LeavesByte, FetchAdvances
<1>2. CASE FetchTo("adl") \/ FetchTo("adh") \/ FetchTo("add")
    BY <1>2, FetchToAdvances
<1>3. CASE Execute(PointerOps)
    BY <1>3, ExecuteAdvances
<1>4. CASE Idle
    BY <1>4, IdleAdvances
<1> QED
    BY <1>1, <1>2, <1>3, <1>4 DEF IndexedIndirectHigh, IndirectIndexedHigh

-----------------------------------------------------------------------------------
(* The LOW phase drives an address and moves nothing but the program counter.          *)
DrivesOnly ==
    /\ address' \in Word
    /\ cpu' \in {cpu, AdvancePC(cpu)}

(* What the LOW handlers drive is a 16-bit address.                                    *)
LEMMA DriveTypes ==
    ASSUME TypeOK
    PROVE  /\ StackTop \in Word /\ Operand \in Word /\ OperandNext \in Word
           /\ cpu.pc \in Word /\ cpu.vector \in Word /\ U16(cpu.vector + 1) \in Word
           /\ cpu.adl \in Word /\ cpu.adh \in Word
           /\ cpu.add \in Word /\ cpu.add + 1 \in Word
           /\ \A i \in Byte : U16(Operand + i) \in Word
<1>1. /\ cpu.adl \in Int /\ 0 <= cpu.adl /\ cpu.adl <= 255
      /\ cpu.adh \in Int /\ 0 <= cpu.adh /\ cpu.adh <= 255
      /\ cpu.add \in Int /\ 0 <= cpu.add /\ cpu.add <= 255
      /\ cpu.sp \in Int /\ 0 <= cpu.sp /\ cpu.sp <= 255
    BY RegisterTypes, ByteMember
<1>2. StackTop \in Word
    BY <1>1, WordMember DEF StackTop
<1>3. Operand \in Word
    BY RegisterTypes, JoinType DEF Operand
<1>4. OperandNext \in Word
    <2>1. CASE cpu.adl < 255
        BY <1>1, <2>1, WordMember DEF OperandNext, Operand, Join
    <2>2. CASE cpu.adl >= 255
        <3> DEFINE h == IF cpu.adh % 2 = 1 THEN cpu.adh ELSE cpu.adh + 1
        <3>1. h \in Byte /\ 0 \in Byte
            BY <1>1, ByteMember
        <3>2. Join(h, 0) \in Word
            BY <3>1, JoinType
        <3> QED
            BY <1>1, <2>2, <3>2 DEF OperandNext
    <2> QED
        BY <1>1, <2>1, <2>2
<1>5. cpu.pc \in Word /\ cpu.vector \in Word
    BY RegisterTypes
<1>6. U16(cpu.vector + 1) \in Word
    BY <1>5, WordMember, NarrowType
<1>7. cpu.adl \in Word /\ cpu.adh \in Word /\ cpu.add \in Word /\ cpu.add + 1 \in Word
    BY <1>1, WordMember
<1>8. ASSUME NEW i \in Byte
      PROVE  U16(Operand + i) \in Word
    <2>1. Operand + i \in Int
        BY <1>3, WordMember, ByteMember
    <2> QED
        BY <2>1, NarrowType
<1> QED
    BY <1>2, <1>3, <1>4, <1>5, <1>6, <1>7, <1>8

(* A LOW phase inside an instruction moves the address and at most the PC.             *)
LEMMA LowDrivesOnly ==
    ASSUME TypeOK, HandlePhi2Low, Cycle # 0 \/ ~Known
    PROVE  DrivesOnly
<1>1. ASSUME NEW a \in Word, Drive(a)
      PROVE  DrivesOnly
    BY <1>1 DEF Drive, DrivesOnly
<1>2. CASE FetchOperand
    BY <1>2, RegisterTypes DEF FetchOperand, DrivesOnly
<1>3. CASE Hold
    BY <1>3 DEF Hold, DrivesOnly, TypeOK, BusTypeOK
<1>4. CASE ImpliedLow
    BY <1>1, <1>3, <1>4, DriveTypes DEF ImpliedLow
<1>5. CASE ImmediateLow
    BY <1>2, <1>3, <1>5 DEF ImmediateLow
<1>6. CASE AbsoluteLow
    BY <1>1, <1>2, <1>3, <1>6, DriveTypes DEF AbsoluteLow
<1>7. CASE AbsoluteIndexedLow
    BY <1>1, <1>2, <1>3, <1>7, DriveTypes, RegisterTypes DEF AbsoluteIndexedLow
<1>8. CASE RelativeLow
    BY <1>1, <1>8, DriveTypes DEF RelativeLow
<1>9. CASE ZeroPageLow \/ ZeroPageIndexedLow
    BY <1>1, <1>2, <1>3, <1>9, DriveTypes DEF ZeroPageLow, ZeroPageIndexedLow
<1>10. CASE IndirectLow \/ PointerLow
    BY <1>1, <1>2, <1>3, <1>10, DriveTypes DEF IndirectLow, PointerLow
<1> QED
    BY <1>3, <1>4, <1>5, <1>6, <1>7, <1>8, <1>9, <1>10 DEF HandlePhi2Low, OpcodeLow

(* The HIGH phase of a cycle inside an instruction.                                    *)
InstructionHigh ==
    \/ AccumulatorHigh \/ ImpliedHigh \/ ImmediateHigh \/ AbsoluteHigh
    \/ RelativeHigh \/ ZeroPageHigh \/ ZeroPageIndexedHigh
    \/ IndirectHigh \/ IndexedIndirectHigh \/ IndirectIndexedHigh

(* Every HIGH handler of an addressing mode is one cycle.                              *)
LEMMA HighAdvances ==
    ASSUME TypeOK, InstructionHigh
    PROVE  Advances
BY AccumulatorAdvances, ImpliedAdvances, ImmediateAdvances, AbsoluteAdvances,
   RelativeAdvances, ZeroPageAdvances, ZeroPageIndexedAdvances, IndirectAdvances,
   PointerAdvances
   DEF InstructionHigh

(* The BRK sequence leaves the flags alone until its last cycle.                       *)
LEMMA BreakKeepsStatus ==
    ASSUME TypeOK, InstructionHigh, cpu.ir = BRK, Cycle > 0, Cycle # 6
    PROVE  cpu'.status = cpu.status
<1>1. Op = "BRK" /\ Mode = "IMP"
    BY OpcodeMapAssumption DEF Op, Mode, BRK
<1>2. ImpliedHigh
    BY <1>1 DEF InstructionHigh, AccumulatorHigh, ImmediateHigh, AbsoluteHigh,
                RelativeHigh, ZeroPageHigh, ZeroPageIndexedHigh, IndirectHigh,
                IndexedIndirectHigh, IndirectIndexedHigh
<1>3. ASSUME NEW c, Step(c), c \in Registers, c.status = cpu.status
      PROVE  cpu'.status = cpu.status
    BY <1>3 DEF Step, NextCycle, Registers
<1>4. cpu \in Registers
    BY DEF TypeOK
<1>5. CASE RegisterOperation
    <2>1. Step(cpu)
        BY <1>1, <1>5 DEF RegisterOperation, RegisterResult
    <2> QED
        BY <1>3, <1>4, <2>1
<1>6. CASE BreakSequence
    <2>1. ASSUME NEW v, Push(v)
          PROVE  cpu'.status = cpu.status
        <3>1. U8(cpu.sp - 1) \in Byte
            BY RegisterTypes, ByteMember, NarrowType
        <3> QED
            BY <2>1, <3>1, <1>4 DEF Push, Step, NextCycle, Registers
    <2>2. CASE FetchTo("adl")
        BY <2>2, <1>4 DEF FetchTo, Step, NextCycle, Registers
    <2>3. CASE Idle
        BY <2>3, <1>3, <1>4 DEF Idle
    <2> QED
        BY <1>6, <2>1, <2>2, <2>3 DEF BreakSequence
<1> QED
    BY <1>1, <1>2, <1>5, <1>6
       DEF ImpliedHigh, PushSequence, PullSequence, ReturnSequence, ReturnFromInterrupt,
           StackOps

-----------------------------------------------------------------------------------
(* The inductive invariant. TypeOK alone is not inductive: the count stays within 0..7  *)
(* because it never passes the opcode's last cycle (CycleInRange), and FetchesAtPC       *)
(* needs a listed opcode in _ir at cycle 0 (Sequencing), or the LOW phase would not      *)
(* drive the address.                                                                   *)
Inv == TypeOK /\ Sequencing /\ CycleInRange /\ FetchesAtPC /\ IRQFrameUnmasked

(* Register files after the steps that write several fields.                           *)
LEMMA NMIFields ==
    ASSUME NEW c \in Registers, NEW v \in Byte, NEW w \in Word, NEW n \in 0 .. 7
    PROVE  [c EXCEPT !.ir = v, !.vector = w, !.cycle = n] \in Registers
BY DEF Registers

(* The register file after an opcode fetch.                                            *)
LEMMA OpcodeFields ==
    ASSUME NEW c \in Registers, NEW v \in Byte, NEW w \in Word, NEW b \in BOOLEAN,
           NEW n \in 0 .. 7
    PROVE  [c EXCEPT !.ir = v, !.vector = w, !.fromSW = b, !.cycle = n] \in Registers
BY DEF Registers

(* The register file after each of the two bytes of the reset vector.                  *)
LEMMA ResetFields ==
    ASSUME NEW c \in Registers, NEW v \in Byte, NEW w \in Word, NEW stage \in 0 .. 2
    PROVE  /\ [c EXCEPT !.adl = v, !.resetStage = stage] \in Registers
           /\ [c EXCEPT !.adh = v, !.resetStage = stage, !.pc = w] \in Registers
<1>1. [c EXCEPT !.adl = v, !.resetStage = stage] \in Registers
    BY DEF Registers
<1>2. [c EXCEPT !.adh = v, !.resetStage = stage, !.pc = w] \in Registers
    BY DEF Registers
<1> QED
    BY <1>1, <1>2

(* The constructed object is well-typed, whatever it does not initialise.              *)
LEMMA PoweredUpType ==
    ASSUME NEW ir \in Byte, NEW add \in Byte
    PROVE  PoweredUp(ir, add) \in Registers
<1>1. ASSUME NEW z \in Byte, NEW zero \in Word, NEW w \in Word, NEW b \in BOOLEAN,
             NEW f \in BOOLEAN, NEW n \in 0 .. 7, NEW stage \in 0 .. 2
      PROVE  [a |-> z, x |-> z, y |-> z, sp |-> z, pc |-> zero, status |-> z,
              ir |-> ir, adl |-> z, adh |-> z, add |-> add,
              vector |-> w, fromSW |-> b,
              cycle |-> n, started |-> f, resetStage |-> stage] \in Registers
    BY DEF Registers
<1>2. 0 \in Byte /\ 0 \in Word /\ RESET_VECTOR \in Word /\ 0 \in 0 .. 7 /\ 0 \in 0 .. 2
    BY ByteMember, WordMember DEF RESET_VECTOR
<1> QED
    BY <1>1, <1>2 DEF PoweredUp

(* reset() keeps the registers well-typed.                                             *)
LEMMA ResetType ==
    ASSUME NEW c \in Registers
    PROVE  Reset(c) \in Registers
<1>1. ASSUME NEW z \in Byte, NEW s \in Byte, NEW w \in Word, NEW stage \in 0 .. 2
      PROVE  [c EXCEPT !.a = z, !.x = z, !.y = z, !.sp = s, !.pc = w,
                       !.status = z, !.adl = z, !.adh = z, !.resetStage = stage]
                \in Registers
    BY DEF Registers
<1>2. 0 \in Byte /\ 255 \in Byte /\ RESET_VECTOR \in Word /\ 0 \in 0 .. 2
    BY ByteMember, WordMember DEF RESET_VECTOR
<1> QED
    BY <1>1, <1>2 DEF Reset

(* A listed opcode takes two to seven cycles.                                          *)
LEMMA CyclesOf ==
    ASSUME Known
    PROVE  OpcodeMap[cpu.ir].cycles \in 2 .. 7
BY OpcodeMapAssumption DEF Known

(* The opcode the interrupts inject is listed, with seven cycles.                      *)
LEMMA BRKKnown == BRK \in DOMAIN OpcodeMap /\ OpcodeMap[BRK].cycles = 7
BY OpcodeMapAssumption DEF BRK

(* The invariant holds at power-up.                                                    *)
LEMMA InvInit == Init => Inv
<1> SUFFICES ASSUME Init PROVE Inv
    OBVIOUS
<1>1. PICK i \in PowerUpBytes, d \in PowerUpBytes : cpu = Reset(PoweredUp(i, d))
    BY DEF Init
<1>2. i \in Byte /\ d \in Byte
    BY PowerUpAssumption
<1>3. cpu \in Registers
    BY <1>1, <1>2, PoweredUpType, ResetType
<1>4. cpu.cycle = 0 /\ cpu.started = FALSE
    BY <1>1 DEF Reset, PoweredUp
<1>5. TypeOK
    BY <1>3, ImagesAssumption, BusInitType DEF Init, TypeOK, Pin
<1> QED
    BY <1>4, <1>5 DEF Inv, Sequencing, CycleInRange, FetchesAtPC, IRQFrameUnmasked, TakingIRQ

(* The LOW phase keeps the invariant.                                                  *)
LEMMA InvPhi2Low == Inv /\ Phi2Low => Inv'
<1> SUFFICES ASSUME Inv, Phi2Low PROVE Inv'
    OBVIOUS
<1> USE DEF Inv
<1>1. /\ edge = "LOW" /\ edge' = "HIGH" /\ HandlePhi2Low
      /\ UNCHANGED <<irq, nmi, data, sram, rom>>
    BY DEF Phi2Low
<1>2. CASE Known /\ Cycle = 0
    <2>1. address' = cpu.pc /\ cpu' = [cpu EXCEPT !.started = TRUE]
        BY <1>1, <1>2 DEF HandlePhi2Low, OpcodeLow
    <2>2. TypeOK'
        BY <1>1, <2>1 DEF TypeOK, BusTypeOK, Registers, Pin
    <2>3. cpu'.cycle = 0 /\ cpu'.ir = cpu.ir /\ cpu'.pc = cpu.pc
        BY <1>2, <2>1 DEF Cycle, TypeOK, Registers
    <2> QED
        BY <1>2, <2>1, <2>2, <2>3
           DEF Sequencing, CycleInRange, FetchesAtPC, IRQFrameUnmasked, TakingIRQ, Known
<1>3. CASE ~(Known /\ Cycle = 0)
    <2>1. DrivesOnly
        BY <1>1, <1>3, LowDrivesOnly
    <2>2. AdvancePC(cpu) \in Registers
        BY AdvancePCLeaves DEF Leaves
    <2>3. TypeOK'
        BY <1>1, <2>1, <2>2 DEF DrivesOnly, TypeOK, BusTypeOK, Pin
    <2>4. /\ cpu'.cycle = cpu.cycle /\ cpu'.ir = cpu.ir /\ cpu'.started = cpu.started
          /\ cpu'.resetStage = cpu.resetStage /\ cpu'.status = cpu.status
          /\ cpu'.vector = cpu.vector /\ cpu'.fromSW = cpu.fromSW
        BY <2>1 DEF DrivesOnly, AdvancePC, TypeOK, Registers
    <2>5. Sequencing' /\ CycleInRange' /\ IRQFrameUnmasked'
        BY <2>4 DEF Sequencing, CycleInRange, IRQFrameUnmasked, TakingIRQ, Known
    <2>6. FetchesAtPC'
        BY <1>3, <2>4 DEF FetchesAtPC, Sequencing, Cycle
    <2> QED
        BY <2>3, <2>5, <2>6
<1> QED
    BY <1>2, <1>3

(* A cycle inside an instruction: the count goes up or back to 0.                       *)
LEMMA InvInstruction ==
    ASSUME Inv, Phi2High, Cycle # 0, Known, InstructionHigh
    PROVE  Inv'
<1> USE DEF Inv
<1>1. edge' = "LOW" /\ UNCHANGED <<irq, nmi, address, rom>>
    BY DEF Phi2High
<1>2. TransferOK
    BY HighAdvances DEF Advances
<1>3. PICK c : Leaves(c) /\ Step(c)
    BY HighAdvances DEF Advances
<1>4. OpcodeMap[cpu.ir].cycles \in 2 .. 7 /\ cpu.cycle < OpcodeMap[cpu.ir].cycles
    BY CyclesOf DEF CycleInRange, Cycle, TypeOK, Registers
<1> DEFINE n == OpcodeMap[cpu.ir].cycles
<1>5. cpu' = [c EXCEPT !.cycle = IF cpu.cycle + 1 = n THEN 0 ELSE cpu.cycle + 1]
    BY <1>3 DEF Step, NextCycle, Leaves
<1>6. cpu.cycle \in 1 .. 6 /\ c \in Registers
    BY <1>3, <1>4 DEF Cycle, Leaves, TypeOK, Registers
<1>7. cpu' \in Registers
    BY <1>5, <1>6 DEF Registers
<1>8. /\ cpu'.ir = cpu.ir /\ cpu'.started = cpu.started /\ cpu'.resetStage = cpu.resetStage
      /\ cpu'.vector = cpu.vector /\ cpu'.fromSW = cpu.fromSW
      /\ cpu'.cycle = IF cpu.cycle + 1 = n THEN 0 ELSE cpu.cycle + 1
    BY <1>3, <1>5 DEF Leaves, Registers
<1>9. TypeOK'
    BY <1>1, <1>2, <1>7 DEF TypeOK, BusTypeOK, TransferOK, Pin
<1>10. Sequencing' /\ CycleInRange' /\ FetchesAtPC'
    BY <1>1, <1>4, <1>6, <1>8 DEF Sequencing, CycleInRange, FetchesAtPC, Known
<1>11. IRQFrameUnmasked'
    <2> SUFFICES ASSUME TakingIRQ' PROVE ~Has(cpu'.status, INTERRUPT)
        BY DEF IRQFrameUnmasked
    <2>1. TakingIRQ
        BY <1>6, <1>8 DEF TakingIRQ
    <2>2. n = 7 /\ cpu'.cycle # 0
        BY <1>8, BRKKnown, <2>1 DEF TakingIRQ
    <2>3. Cycle > 0 /\ Cycle # 6
        BY <1>6, <1>8, <2>2 DEF Cycle
    <2>4. cpu'.status = cpu.status
        BY <2>1, <2>3, BreakKeepsStatus DEF TakingIRQ
    <2> QED
        BY <2>1, <2>4 DEF IRQFrameUnmasked
<1> QED
    BY <1>9, <1>10, <1>11

(* The cycle that starts an instruction or an interrupt sequence.                       *)
LEMMA InvBoundary ==
    ASSUME Inv, Phi2High, cpu.started, cpu.resetStage = 2, Cycle = 0,
           TakeNMI \/ TakeIRQ \/ FetchOpcode
    PROVE  Inv'
<1> USE DEF Inv
<1>1. edge' = "LOW" /\ UNCHANGED <<irq, nmi, address, rom>>
    BY DEF Phi2High
<1>2. BRK \in Byte /\ NMI_VECTOR \in Word /\ IRQ_BRK_VECTOR \in Word
    BY ByteMember, WordMember DEF BRK, NMI_VECTOR, IRQ_BRK_VECTOR
<1>3. cpu \in Registers /\ 1 \in 0 .. 7
    BY DEF TypeOK
<1>4. CASE TakeNMI
    <2>1. TransferOK /\ cpu' \in Registers
        <3>1. [cpu EXCEPT !.ir = BRK, !.vector = NMI_VECTOR, !.cycle = 1] \in Registers
            BY <1>2, <1>3, NMIFields, Zenon
        <3> QED
            BY <1>4, <3>1, NoTransferType DEF TakeNMI, TypeOK
    <2>2. /\ cpu'.cycle = 1 /\ cpu'.ir = BRK /\ cpu'.vector = NMI_VECTOR
          /\ cpu'.started /\ cpu'.resetStage = 2
        BY <1>3, <1>4 DEF TakeNMI, Registers
    <2>3. TypeOK'
        BY <1>1, <2>1 DEF TypeOK, BusTypeOK, TransferOK, Pin
    <2> QED
        BY <1>1, <2>2, <2>3, BRKKnown
           DEF Sequencing, CycleInRange, FetchesAtPC, IRQFrameUnmasked, TakingIRQ,
               NMI_VECTOR, IRQ_BRK_VECTOR
<1>5. CASE TakeIRQ
    <2>1. TransferOK /\ cpu' \in Registers
        <3>1. [cpu EXCEPT !.ir = BRK, !.vector = IRQ_BRK_VECTOR, !.fromSW = FALSE,
                          !.cycle = 1] \in Registers
            BY <1>2, <1>3, OpcodeFields, Zenon
        <3> QED
            BY <1>5, <3>1, NoTransferType DEF TakeIRQ, TypeOK
    <2>2. /\ cpu'.cycle = 1 /\ cpu'.ir = BRK /\ cpu'.status = cpu.status
          /\ cpu'.started /\ cpu'.resetStage = 2
        BY <1>3, <1>5 DEF TakeIRQ, Registers
    <2>3. TypeOK'
        BY <1>1, <2>1 DEF TypeOK, BusTypeOK, TransferOK, Pin
    <2>4. ~Has(cpu'.status, INTERRUPT)
        BY <1>5, <2>2 DEF TakeIRQ, InterruptPending
    <2> QED
        BY <1>1, <2>2, <2>3, <2>4, BRKKnown
           DEF Sequencing, CycleInRange, FetchesAtPC, IRQFrameUnmasked
<1>6. CASE FetchOpcode
    <2>1. PICK m \in ReadBytes :
              /\ FetchByte(m)
              /\ cpu' = [AdvancePC(cpu) EXCEPT !.ir = m, !.vector = IRQ_BRK_VECTOR,
                                               !.fromSW = TRUE, !.cycle = 1]
        BY <1>6 DEF FetchOpcode
    <2>2. m \in Byte /\ TransferOK
        BY <2>1, FetchByteType DEF TypeOK
    <2>3. AdvancePC(cpu) \in Registers
        BY AdvancePCLeaves DEF Leaves
    <2>4. cpu' \in Registers
        <3>1. [AdvancePC(cpu) EXCEPT !.ir = m, !.vector = IRQ_BRK_VECTOR, !.fromSW = TRUE,
                                     !.cycle = 1] \in Registers
            BY <1>2, <1>3, <2>2, <2>3, OpcodeFields, Zenon
        <3> QED
            BY <2>1, <3>1, Zenon
    <2>5. /\ cpu'.cycle = 1 /\ cpu'.ir = m /\ cpu'.fromSW = TRUE
          /\ cpu'.started /\ cpu'.resetStage = 2
        BY <1>3, <2>1 DEF AdvancePC, Registers
    <2>6. TypeOK'
        BY <1>1, <2>2, <2>4 DEF TypeOK, BusTypeOK, TransferOK, Pin
    <2>7. CycleInRange'
        BY <2>5, OpcodeMapAssumption DEF CycleInRange, Known
    <2> QED
        BY <1>1, <2>5, <2>6, <2>7 DEF Sequencing, FetchesAtPC, IRQFrameUnmasked, TakingIRQ
<1> QED
    BY <1>4, <1>5, <1>6

(* The two cycles that read the reset vector.                                          *)
LEMMA InvReset ==
    ASSUME Inv, Phi2High, cpu.started, cpu.resetStage < 2, HandleReset
    PROVE  Inv'
<1> USE DEF Inv
<1>1. edge' = "LOW" /\ UNCHANGED <<irq, nmi, address, rom>>
    BY DEF Phi2High
<1>2. PICK m \in ReadBytes :
          /\ FetchByte(m)
          /\ \/ cpu' = [AdvancePC(cpu) EXCEPT !.adl = m, !.resetStage = 1]
             \/ cpu' = [cpu EXCEPT !.adh = m, !.resetStage = 2, !.pc = Join(m, cpu.adl)]
    BY DEF HandleReset
<1>3. m \in Byte /\ TransferOK
    BY <1>2, FetchByteType DEF TypeOK
<1>4. AdvancePC(cpu) \in Registers /\ cpu \in Registers
    BY AdvancePCLeaves DEF Leaves, TypeOK
<1>5. Join(m, cpu.adl) \in Word
    BY <1>3, RegisterTypes, JoinType
<1>6. cpu' \in Registers
    <2>1. 1 \in 0 .. 2 /\ 2 \in 0 .. 2
        OBVIOUS
    <2>2. [AdvancePC(cpu) EXCEPT !.adl = m, !.resetStage = 1] \in Registers
        BY <1>3, <1>4, <1>5, <2>1, ResetFields, Zenon
    <2>3. [cpu EXCEPT !.adh = m, !.resetStage = 2, !.pc = Join(m, cpu.adl)] \in Registers
        BY <1>3, <1>4, <1>5, <2>1, ResetFields, Zenon
    <2> QED
        BY <1>2, <2>2, <2>3, Zenon
<1>7. cpu'.cycle = cpu.cycle /\ cpu'.ir = cpu.ir /\ cpu'.started = cpu.started
    BY <1>2, <1>4 DEF AdvancePC, Registers
<1>8. cpu.cycle = 0
    BY <1>4 DEF Sequencing, Registers
<1>9. TypeOK'
    BY <1>1, <1>3, <1>6 DEF TypeOK, BusTypeOK, TransferOK, Pin
<1> QED
    BY <1>1, <1>7, <1>8, <1>9
       DEF Sequencing, CycleInRange, FetchesAtPC, IRQFrameUnmasked, TakingIRQ, Known

(* The HIGH phase keeps the invariant.                                                 *)
LEMMA InvPhi2High == Inv /\ Phi2High => Inv'
<1> SUFFICES ASSUME Inv, Phi2High PROVE Inv'
    OBVIOUS
<1>1. /\ edge' = "LOW" /\ HandlePhi2High
      /\ UNCHANGED <<irq, nmi, address, rom>>
    BY DEF Phi2High
<1>2. CASE NoTransfer /\ UNCHANGED cpu
    BY <1>1, <1>2
       DEF Inv, NoTransfer, TypeOK, BusTypeOK, Pin, Sequencing, CycleInRange, FetchesAtPC,
           IRQFrameUnmasked, TakingIRQ, Known
<1>3. CASE cpu.started /\ cpu.resetStage < 2 /\ HandleReset
    BY <1>3, InvReset
<1>4. CASE /\ cpu.started /\ cpu.resetStage = 2 /\ Cycle = 0
           /\ TakeNMI \/ TakeIRQ \/ FetchOpcode
    BY <1>4, InvBoundary
<1>5. CASE Cycle # 0 /\ Known /\ InstructionHigh
    BY <1>5, InvInstruction
<1> QED
    BY <1>1, <1>2, <1>3, <1>4, <1>5 DEF HandlePhi2High, UnlistedHigh, InstructionHigh

(* The pins play no part in the invariant.                                             *)
LEMMA InvPins == Inv /\ (SetIRQ \/ SetNMI) => Inv'
BY DEF Inv, SetIRQ, SetNMI, busVars, TypeOK, BusTypeOK, Pin, Sequencing, CycleInRange,
       FetchesAtPC, IRQFrameUnmasked, TakingIRQ, Known

(* A reset between two instructions leaves the machine as one that is not started or   *)
(* has still to read its vector.                                                       *)
LEMMA InvResetCall == Inv /\ ResetBetweenInstructions => Inv'
<1> SUFFICES ASSUME Inv, ResetBetweenInstructions PROVE Inv'
    OBVIOUS
<1>1. /\ cpu.cycle = 0 /\ cpu' = Reset(cpu) /\ edge = "LOW"
      /\ UNCHANGED <<irq, nmi, edge, address, data, sram, rom>>
    BY DEF ResetBetweenInstructions, busVars
<1>2. cpu \in Registers
    BY DEF Inv, TypeOK
<1>3. cpu' \in Registers
    BY <1>1, <1>2, ResetType
<1>4. cpu'.cycle = 0 /\ cpu'.ir = cpu.ir /\ cpu'.started = cpu.started
    BY <1>1, <1>2 DEF Reset, Registers
<1>5. TypeOK'
    BY <1>1, <1>3 DEF Inv, TypeOK, BusTypeOK
<1> QED
    BY <1>1, <1>4, <1>5
       DEF Inv, Sequencing, CycleInRange, FetchesAtPC, IRQFrameUnmasked, TakingIRQ, Known

(* Nor does a stuttering step.                                                         *)
LEMMA InvStutter == Inv /\ UNCHANGED vars => Inv'
BY DEF Inv, vars, busVars, TypeOK, BusTypeOK, Pin, Sequencing, CycleInRange,
       FetchesAtPC, IRQFrameUnmasked, TakingIRQ, Known

(* No step breaks the invariant.                                                       *)
LEMMA InvNext == Inv /\ [Next]_vars => Inv'
BY InvPhi2Low, InvPhi2High, InvPins, InvResetCall, InvStutter DEF Next

(* The machine keeps its invariant from power-up on, whatever the pins do.              *)
THEOREM Invariance == Spec => []Inv
BY InvInit, InvNext, PTL DEF Spec

(* Every register, latch and memory cell holds a value of its width, and every address *)
(* on the bus is a 16-bit address (W65C02S.h, bus.h).                                   *)
THEOREM TypeCorrect == Spec => []TypeOK
BY Invariance, PTL DEF Inv

(* The cycle count never passes the last cycle of the opcode in _ir, so that the exact *)
(* comparison at the end of handlePhi2High does not miss it.                           *)
THEOREM CountsWithinInstruction == Spec => []CycleInRange
BY Invariance, PTL DEF Inv

(* Reset vector and opcodes are fetched from where the program counter points.         *)
THEOREM FetchAddress == Spec => []FetchesAtPC
BY Invariance, PTL DEF Inv

(* No interrupt sequence is under way before the reset vector has been read, and the   *)
(* decoder finds a listed opcode at every cycle 0 after the first.                     *)
THEOREM Sequenced == Spec => []Sequencing
BY Invariance, PTL DEF Inv

(* Between the acceptance of an IRQ and the entry of its handler I stays clear, so that *)
(* the status byte pushed is one RTI can return to with interrupts enabled.             *)
THEOREM FrameUnmasked == Spec => []IRQFrameUnmasked
BY Invariance, PTL DEF Inv

(* A CPU with an unlisted byte in _ir, fetched or there at power-up, never changes a    *)
(* register or the bus again, and reset() does not bring it back.                       *)
THEOREM HangsForGood == Spec => HungForGood
<1> DEFINE Stuck == /\ Hung'
                    /\ cpu' = cpu \/ ResetBetweenInstructions
                    /\ UNCHANGED <<address, data, sram>>
<1>1. Inv /\ [Next]_vars => (Hung => Stuck)
    <2> SUFFICES ASSUME Inv, [Next]_vars, Hung
                 PROVE  Stuck
        OBVIOUS
    <2>1. ~Known /\ ((Cycle # 0 /\ cpu.started /\ cpu.resetStage = 2) \/ ~cpu.started)
        BY DEF Hung, Inv, Sequencing, Cycle, TypeOK, Registers
    <2>2. UNCHANGED cpu => Hung'
        BY DEF Hung, Known
    <2>3. CASE Phi2Low
        BY <2>1, <2>2, <2>3 DEF Phi2Low, HandlePhi2Low, Hold
    <2>4. CASE Phi2High
        BY <2>1, <2>2, <2>4 DEF Phi2High, HandlePhi2High, UnlistedHigh, NoTransfer
    <2>5. CASE SetIRQ \/ SetNMI \/ UNCHANGED vars
        BY <2>2, <2>5 DEF SetIRQ, SetNMI, vars, busVars
    <2>6. CASE ResetBetweenInstructions
        <3>1. cpu' = Reset(cpu) /\ UNCHANGED <<address, data, sram>>
            BY <2>6 DEF ResetBetweenInstructions, busVars
        <3>2. cpu'.ir = cpu.ir /\ cpu'.cycle = cpu.cycle /\ cpu'.started = cpu.started
            BY <3>1 DEF Reset, Inv, TypeOK, Registers
        <3> QED
            BY <2>6, <3>1, <3>2 DEF Hung, Known
    <2> QED
        BY <2>3, <2>4, <2>5, <2>6 DEF Next
<1> QED
    BY Invariance, <1>1, PTL DEF Spec, HungForGood
==================================================================================
