------------------------- MODULE W65C02S_Cycles_proofs -------------------------
(***********************************************************************************)
(* Every instruction keeps to its course, for every opcode table that satisfies     *)
(* RowsAssumption, every program and every moment the pins change.                  *)
(***********************************************************************************)
EXTENDS W65C02S_Cycles, W65C02S_proofs

(* The registers a program sees, and the state an instruction starts from.             *)
File == [a : Byte, x : Byte, y : Byte, sp : Byte, pc : Word, status : Byte]

IsState(s) ==
    /\ s = [regs |-> s.regs, ram |-> s.ram, rom |-> s.rom]
    /\ s.regs \in File
    /\ IsMemory(s.ram, SRAMAddresses)
    /\ IsMemory(s.rom, EEPROMAddresses)

(* Two register files agree in what a program sees.                                    *)
Same(c, d) == Architectural(c) = Architectural(d)

-----------------------------------------------------------------------------------
(* Agreement is agreement register by register.                                        *)
LEMMA SameFields ==
    ASSUME NEW c, NEW d
    PROVE  Same(c, d) <=> /\ c.a = d.a /\ c.x = d.x /\ c.y = d.y
                          /\ c.sp = d.sp /\ c.pc = d.pc /\ c.status = d.status
BY DEF Same, Architectural

(* Of the CPU's members the program sees a register file.                              *)
LEMMA ArchitecturalType ==
    ASSUME NEW c \in Registers
    PROVE  Architectural(c) \in File /\ Same(c, Architectural(c))
BY DEF Architectural, Registers, File, Same

(* A register file is what it shows.                                                   *)
LEMMA FileShows ==
    ASSUME NEW c, NEW d \in File
    PROVE  Architectural(c) = d <=> Same(c, d)
BY DEF Architectural, File, Same

(* The latches do not show.                                                            *)
LEMMA LatchesSame ==
    ASSUME NEW c \in Registers, NEW d, Same(c, d), NEW v \in Byte
    PROVE  /\ Same([c EXCEPT !.adl = v], d) /\ [c EXCEPT !.adl = v] \in Registers
           /\ Same([c EXCEPT !.adh = v], d) /\ [c EXCEPT !.adh = v] \in Registers
           /\ Same([c EXCEPT !.add = v], d) /\ [c EXCEPT !.add = v] \in Registers
<1>1. Same([c EXCEPT !.adl = v], d) /\ [c EXCEPT !.adl = v] \in Registers
    BY SameFields DEF Registers
<1>2. Same([c EXCEPT !.adh = v], d) /\ [c EXCEPT !.adh = v] \in Registers
    BY SameFields DEF Registers
<1>3. Same([c EXCEPT !.add = v], d) /\ [c EXCEPT !.add = v] \in Registers
    BY SameFields DEF Registers
<1> QED
    BY <1>1, <1>2, <1>3

(* The same byte or word written to the same register.                                 *)
LEMMA UpdatesSame ==
    ASSUME NEW c \in Registers, NEW d \in File, Same(c, d), NEW v \in Byte, NEW w \in Word
    PROVE  /\ Same([c EXCEPT !.sp = v], [d EXCEPT !.sp = v]) /\ [d EXCEPT !.sp = v] \in File
           /\ Same([c EXCEPT !.pc = w], [d EXCEPT !.pc = w]) /\ [d EXCEPT !.pc = w] \in File
           /\ Same([c EXCEPT !.status = v], [d EXCEPT !.status = v])
           /\ [d EXCEPT !.status = v] \in File
<1>1. Same([c EXCEPT !.sp = v], [d EXCEPT !.sp = v]) /\ [d EXCEPT !.sp = v] \in File
    BY SameFields DEF Registers, File
<1>2. Same([c EXCEPT !.pc = w], [d EXCEPT !.pc = w]) /\ [d EXCEPT !.pc = w] \in File
    BY SameFields DEF Registers, File
<1>3. Same([c EXCEPT !.status = v], [d EXCEPT !.status = v]) /\ [d EXCEPT !.status = v] \in File
    BY SameFields DEF Registers, File
<1> QED
    BY <1>1, <1>2, <1>3

(* A register written with Z and N: in a register file,                                *)
LEMMA SetFields ==
    ASSUME NEW d \in File, NEW v \in Byte
    PROVE  /\ SetA(d, v) \in File /\ SetX(d, v) \in File /\ SetY(d, v) \in File
           /\ LET r == SetA(d, v)
              IN  /\ r.a = v /\ r.x = d.x /\ r.y = d.y /\ r.sp = d.sp /\ r.pc = d.pc
                  /\ r.status = UpdateStatusFlags(d.status, v)
           /\ LET r == SetX(d, v)
              IN  /\ r.a = d.a /\ r.x = v /\ r.y = d.y /\ r.sp = d.sp /\ r.pc = d.pc
                  /\ r.status = UpdateStatusFlags(d.status, v)
           /\ LET r == SetY(d, v)
              IN  /\ r.a = d.a /\ r.x = d.x /\ r.y = v /\ r.sp = d.sp /\ r.pc = d.pc
                  /\ r.status = UpdateStatusFlags(d.status, v)
<1> DEFINE u == UpdateStatusFlags(d.status, v)
<1>1. u \in Byte
    BY FlagsType
<1> HIDE DEF u
<1>2. LET r == [d EXCEPT !.a = v, !.status = u]
      IN  /\ r \in File /\ r.a = v /\ r.x = d.x /\ r.y = d.y /\ r.sp = d.sp /\ r.pc = d.pc
          /\ r.status = u
    BY <1>1 DEF File
<1>3. LET r == [d EXCEPT !.x = v, !.status = u]
      IN  /\ r \in File /\ r.a = d.a /\ r.x = v /\ r.y = d.y /\ r.sp = d.sp /\ r.pc = d.pc
          /\ r.status = u
    BY <1>1 DEF File
<1>4. LET r == [d EXCEPT !.y = v, !.status = u]
      IN  /\ r \in File /\ r.a = d.a /\ r.x = d.x /\ r.y = v /\ r.sp = d.sp /\ r.pc = d.pc
          /\ r.status = u
    BY <1>1 DEF File
<1> QED
    BY <1>2, <1>3, <1>4 DEF u, SetA, SetX, SetY

(* and in the members of the CPU object.                                               *)
LEMMA SetSame ==
    ASSUME NEW c \in Registers, NEW d \in File, Same(c, d), NEW v \in Byte
    PROVE  /\ Same(SetA(c, v), SetA(d, v))
           /\ Same(SetX(c, v), SetX(d, v))
           /\ Same(SetY(c, v), SetY(d, v))
<1> DEFINE u == UpdateStatusFlags(c.status, v)
<1>1. u = UpdateStatusFlags(d.status, v)
    BY SameFields
<1> HIDE DEF u
<1>2. LET r == [c EXCEPT !.a = v, !.status = u]
      IN  r.a = v /\ r.x = c.x /\ r.y = c.y /\ r.sp = c.sp /\ r.pc = c.pc /\ r.status = u
    BY DEF Registers
<1>3. LET r == [c EXCEPT !.x = v, !.status = u]
      IN  r.a = c.a /\ r.x = v /\ r.y = c.y /\ r.sp = c.sp /\ r.pc = c.pc /\ r.status = u
    BY DEF Registers
<1>4. LET r == [c EXCEPT !.y = v, !.status = u]
      IN  r.a = c.a /\ r.x = c.x /\ r.y = v /\ r.sp = c.sp /\ r.pc = c.pc /\ r.status = u
    BY DEF Registers
<1>5. LET r == SetA(c, v)
      IN  r.a = v /\ r.x = c.x /\ r.y = c.y /\ r.sp = c.sp /\ r.pc = c.pc /\ r.status = u
    BY <1>2 DEF u, SetA
<1>6. LET r == SetX(c, v)
      IN  r.a = c.a /\ r.x = v /\ r.y = c.y /\ r.sp = c.sp /\ r.pc = c.pc /\ r.status = u
    BY <1>3 DEF u, SetX
<1>7. LET r == SetY(c, v)
      IN  r.a = c.a /\ r.x = c.x /\ r.y = v /\ r.sp = c.sp /\ r.pc = c.pc /\ r.status = u
    BY <1>4 DEF u, SetY
<1>8. /\ c.a = d.a /\ c.x = d.x /\ c.y = d.y /\ c.sp = d.sp /\ c.pc = d.pc
    BY SameFields
<1>9. Same(SetA(c, v), SetA(d, v))
    BY <1>1, <1>5, <1>8, SetFields, SameFields
<1>10. Same(SetX(c, v), SetX(d, v))
    BY <1>1, <1>6, <1>8, SetFields, SameFields
<1>11. Same(SetY(c, v), SetY(d, v))
    BY <1>1, <1>7, <1>8, SetFields, SameFields
<1> QED
    BY <1>9, <1>10, <1>11

-----------------------------------------------------------------------------------
(* The operations of Alu.tla work on what shows, and on nothing else.                  *)
LEMMA ArithmeticSame ==
    ASSUME NEW c \in Registers, NEW d \in File, Same(c, d), NEW m \in Byte
    PROVE  /\ Same(doADC(c, m), doADC(d, m)) /\ doADC(d, m) \in File
           /\ Same(doSBC(c, m), doSBC(d, m)) /\ doSBC(d, m) \in File
<1>1. c.a = d.a /\ c.status = d.status
    BY SameFields
<1>2. d.a \in Int /\ m \in Int /\ CarryOf(d.status) \in Int
    <2>1. d.a \in Byte /\ d.status \in Byte
        BY DEF File
    <2> QED
        BY <2>1, ByteMember, CarryType
<1>3. ASSUME NEW on
      PROVE  LET p == Put(c.status, CARRY, on)
             IN  /\ Same([c EXCEPT !.status = p], [d EXCEPT !.status = p])
                 /\ [c EXCEPT !.status = p] \in Registers
                 /\ [d EXCEPT !.status = p] \in File
    <2> DEFINE p == Put(c.status, CARRY, on)
    <2>1. p \in Byte
        BY PutType
    <2> HIDE DEF p
    <2>2. [c EXCEPT !.status = p] \in Registers
        BY <2>1 DEF Registers
    <2>3. Same([c EXCEPT !.status = p], [d EXCEPT !.status = p]) /\ [d EXCEPT !.status = p] \in File
        <3>1. 0 \in Word
            BY WordMember
        <3> QED
            BY <2>1, <3>1, UpdatesSame
    <2> QED
        BY <2>2, <2>3 DEF p
<1>4. U8(d.a + m + CarryOf(d.status)) \in Byte
    BY <1>2, NarrowType
<1>5. Same(doADC(c, m), doADC(d, m)) /\ doADC(d, m) \in File
    <2> DEFINE n == d.a + m + CarryOf(d.status)
               p == Put(c.status, CARRY, n > 255)
    <2>1. doADC(c, m) = SetA([c EXCEPT !.status = p], U8(n))
        BY <1>1 DEF doADC
    <2>2. doADC(d, m) = SetA([d EXCEPT !.status = p], U8(n))
        BY <1>1 DEF doADC
    <2>3. /\ Same([c EXCEPT !.status = p], [d EXCEPT !.status = p])
          /\ [c EXCEPT !.status = p] \in Registers
          /\ [d EXCEPT !.status = p] \in File
        BY <1>3
    <2> HIDE DEF n, p
    <2>4. U8(n) \in Byte
        BY <1>4 DEF n
    <2> QED
        BY <2>1, <2>2, <2>3, <2>4, SetSame, SetFields
<1>6. U8(U16(d.a - m - (1 - CarryOf(d.status)))) \in Byte
    <2>1. U16(d.a - m - (1 - CarryOf(d.status))) \in Int
        BY <1>2, NarrowType, WordMember
    <2> QED
        BY <2>1, NarrowType
<1>7. Same(doSBC(c, m), doSBC(d, m)) /\ doSBC(d, m) \in File
    <2> DEFINE n == U16(d.a - m - (1 - CarryOf(d.status)))
               p == Put(c.status, CARRY, n <= 255)
    <2>1. doSBC(c, m) = SetA([c EXCEPT !.status = p], U8(n))
        BY <1>1 DEF doSBC
    <2>2. doSBC(d, m) = SetA([d EXCEPT !.status = p], U8(n))
        BY <1>1 DEF doSBC
    <2>3. /\ Same([c EXCEPT !.status = p], [d EXCEPT !.status = p])
          /\ [c EXCEPT !.status = p] \in Registers
          /\ [d EXCEPT !.status = p] \in File
        BY <1>3
    <2> HIDE DEF n, p
    <2>4. U8(n) \in Byte
        BY <1>6 DEF n
    <2> QED
        BY <2>1, <2>2, <2>3, <2>4, SetSame, SetFields
<1> QED
    BY <1>5, <1>7

(* A load, comparison or sum has the same outcome on the registers as on the CPU.     *)
LEMMA ReadSame ==
    ASSUME NEW c \in Registers, NEW d \in File, Same(c, d), NEW m \in Byte, NEW op \in ReadOps
    PROVE  /\ Same(ReadResult(op, c, m), ReadResult(op, d, m))
           /\ ReadResult(op, d, m) \in File
<1>1. c.a = d.a /\ c.x = d.x /\ c.y = d.y /\ c.status = d.status
    BY SameFields
<1>2. CASE op \in {"LDA", "LDX", "LDY"}
    BY <1>2, SetSame, SetFields DEF ReadResult
<1>3. CASE op \in {"AND", "ORA", "EOR"}
    <2>1. BitAnd(d.a, m) \in Byte /\ BitOr(d.a, m) \in Byte /\ BitXor(d.a, m) \in Byte
        BY ByteOfType DEF BitAnd, BitOr, BitXor
    <2> QED
        BY <1>1, <1>3, <2>1, SetSame, SetFields DEF ReadResult, doAND, doORA, doEOR
<1>4. CASE op \in {"ADC", "SBC"}
    BY <1>4, ArithmeticSame DEF ReadResult
<1>5. CASE op \in {"CMP", "CPX", "CPY", "BIT"}
    <2>1. 0 \in Word
        BY WordMember
    <2>2. \A v \in Byte : /\ Same([c EXCEPT !.status = v], [d EXCEPT !.status = v])
                          /\ [d EXCEPT !.status = v] \in File
        BY <2>1, UpdatesSame
    <2>3. \A reg : Same(doCMP(c, reg, m), doCMP(d, reg, m)) /\ doCMP(d, reg, m) \in File
        BY <1>1, <2>2, FlagsType DEF doCMP
    <2>4. Same(doBIT(c, m), doBIT(d, m)) /\ doBIT(d, m) \in File
        BY <1>1, <2>2, PutType DEF doBIT
    <2> QED
        BY <1>1, <1>5, <2>3, <2>4 DEF ReadResult
<1> QED
    BY <1>2, <1>3, <1>4, <1>5 DEF ReadOps

(* A shift, rotate or count: in memory and in the accumulator.                          *)
LEMMA StatusSame ==
    ASSUME NEW c \in Registers, NEW d \in File, Same(c, d), NEW v \in Byte
    PROVE  /\ Same([c EXCEPT !.status = v], [d EXCEPT !.status = v])
           /\ [c EXCEPT !.status = v] \in Registers
           /\ [d EXCEPT !.status = v] \in File
<1>1. 0 \in Word
    BY WordMember
<1>2. [c EXCEPT !.status = v] \in Registers
    BY DEF Registers
<1> QED
    BY <1>1, <1>2, UpdatesSame

(* So have the instructions that modify a byte, in memory or in the accumulator,      *)
LEMMA ModifySame ==
    ASSUME NEW c \in Registers, NEW d \in File, Same(c, d), NEW op, NEW r, r.value \in Byte
    PROVE  /\ Same(InMemory(op, c, r), InMemory(op, d, r)) /\ InMemory(op, d, r) \in File
           /\ Same(ToAccumulator(c, r), ToAccumulator(d, r)) /\ ToAccumulator(d, r) \in File
<1>1. c.a = d.a /\ c.status = d.status
    BY SameFields
<1>2. Same(CountedInMemory(c, r), CountedInMemory(d, r)) /\ CountedInMemory(d, r) \in File
    BY <1>1, FlagsType, StatusSame DEF CountedInMemory
<1>3. Same(ShiftedInMemory(c, r), ShiftedInMemory(d, r)) /\ ShiftedInMemory(d, r) \in File
    BY <1>1, FlagsType, StatusSame DEF ShiftedInMemory
<1>4. Same(ToAccumulator(c, r), ToAccumulator(d, r)) /\ ToAccumulator(d, r) \in File
    <2> DEFINE p == Put(c.status, CARRY, r.carry)
    <2>1. p \in Byte
        BY PutType
    <2>2. /\ ToAccumulator(c, r) = SetA([c EXCEPT !.status = p], r.value)
          /\ ToAccumulator(d, r) = SetA([d EXCEPT !.status = p], r.value)
        BY <1>1 DEF ToAccumulator
    <2> HIDE DEF p
    <2>3. /\ Same([c EXCEPT !.status = p], [d EXCEPT !.status = p])
          /\ [c EXCEPT !.status = p] \in Registers
          /\ [d EXCEPT !.status = p] \in File
        BY <2>1, StatusSame
    <2> QED
        BY <2>2, <2>3, SetSame, SetFields
<1> QED
    BY <1>2, <1>3, <1>4 DEF InMemory

(* The implied instructions that work on registers.                                    *)
LEMMA RegisterSame ==
    ASSUME NEW c \in Registers, NEW d \in File, Same(c, d), NEW op
    PROVE  /\ Same(RegisterResult(op, c), RegisterResult(op, d))
           /\ RegisterResult(op, d) \in File
<1>1. /\ c.a = d.a /\ c.x = d.x /\ c.y = d.y /\ c.sp = d.sp /\ c.status = d.status
      /\ d.a \in Byte /\ d.x \in Byte /\ d.y \in Byte /\ d.sp \in Byte
    BY SameFields DEF File
<1>2. /\ U8(d.x + 1) \in Byte /\ U8(d.x - 1) \in Byte
      /\ U8(d.y + 1) \in Byte /\ U8(d.y - 1) \in Byte
    BY <1>1, ByteMember, NarrowType
<1>3. \A flag, on : LET p == Put(d.status, flag, on)
                    IN  /\ Same([c EXCEPT !.status = p], [d EXCEPT !.status = p])
                        /\ [d EXCEPT !.status = p] \in File
    BY StatusSame, PutType
<1>4. CASE op \in {"CLC", "SEC", "CLI", "SEI", "CLV", "CLD", "SED"}
    BY <1>1, <1>3, <1>4 DEF RegisterResult
<1>5. CASE op = "TXS"
    <2>1. 0 \in Word
        BY WordMember
    <2> QED
        BY <1>1, <1>5, <2>1, UpdatesSame DEF RegisterResult
<1>6. CASE op \in {"TAX", "TXA", "TAY", "TYA", "TSX"}
    BY <1>1, <1>6, SetSame, SetFields DEF RegisterResult
<1>7. CASE op \in {"INX", "DEX", "INY", "DEY"}
    BY <1>1, <1>2, <1>7, SetSame, SetFields DEF RegisterResult
<1>8. CASE op \notin {"CLC", "SEC", "CLI", "SEI", "CLV", "CLD", "SED", "TAX", "TXA", "TAY",
                      "TYA", "TXS", "TSX", "INX", "DEX", "INY", "DEY"}
    BY <1>8 DEF RegisterResult
<1> QED
    BY <1>4, <1>5, <1>6, <1>7, <1>8

-----------------------------------------------------------------------------------
(* The end of a HIGH phase: counting the cycle shows no more than the handler did.     *)
LEMMA StepShows ==
    ASSUME NEW c \in Registers, NEW d \in File, Same(c, d), Step(c)
    PROVE  /\ Architectural(cpu') = d
           /\ cpu'.adl = c.adl /\ cpu'.adh = c.adh /\ cpu'.add = c.add
<1> DEFINE n == IF c.cycle + 1 = OpcodeMap[c.ir].cycles THEN 0 ELSE c.cycle + 1
<1>1. cpu' = [c EXCEPT !.cycle = n]
    BY DEF Step, NextCycle
<1> HIDE DEF n
<1>2. /\ cpu'.adl = c.adl /\ cpu'.adh = c.adh /\ cpu'.add = c.add
      /\ Same(cpu', c)
    BY <1>1, SameFields DEF Registers
<1> QED
    BY <1>2, FileShows DEF Same

(* The program counter of an instruction, byte by byte.                                *)
LEMMA BehindFields ==
    ASSUME NEW s, IsState(s), NEW n \in 0 .. 3
    PROVE  /\ PCAfter(s, n) \in Word
           /\ Behind(s, n) \in File
           /\ Behind(s, n).pc = PCAfter(s, n)
           /\ Behind(s, n).a = s.regs.a /\ Behind(s, n).x = s.regs.x
           /\ Behind(s, n).y = s.regs.y /\ Behind(s, n).sp = s.regs.sp
           /\ Behind(s, n).status = s.regs.status
<1>1. PCAfter(s, n) \in Word
    BY WordMember, NarrowType DEF PCAfter, IsState, File
<1> QED
    BY <1>1 DEF Behind, IsState, File

(* Advancing the PC from behind n bytes of the instruction leaves it behind n + 1.    *)
LEMMA PCSteps ==
    ASSUME NEW s, IsState(s), NEW n \in 0 .. 2
    PROVE  /\ U16(PCAfter(s, n) + 1) = PCAfter(s, n + 1)
           /\ [Behind(s, n) EXCEPT !.pc = PCAfter(s, n + 1)] = Behind(s, n + 1)
<1>1. s.regs.pc \in Int /\ 0 <= s.regs.pc /\ s.regs.pc <= 65535
    BY WordMember DEF IsState, File
<1>2. U16(PCAfter(s, n) + 1) = PCAfter(s, n + 1)
    BY <1>1 DEF PCAfter, U16
<1>3. [Behind(s, n) EXCEPT !.pc = PCAfter(s, n + 1)] = Behind(s, n + 1)
    BY DEF Behind, IsState, File
<1> QED
    BY <1>2, <1>3

(* A byte read from the SRAM or the EEPROM is the one the cell holds.                   *)
LEMMA ReadsCell ==
    ASSUME TypeOK, NEW s, IsState(s), s.rom = rom, s.ram = sram, InMemorySpace(address)
    PROVE  /\ ReadBytes = {Peek(s, address)}
           /\ Peek(s, address) \in Byte
<1>1. address \in Word
    BY DEF TypeOK, BusTypeOK
<1>2. /\ SRAMSelected(address) <=> address \in SRAMAddresses
      /\ EEPROMSelected(address) <=> address \in EEPROMAddresses
      /\ ~(SRAMSelected(address) /\ EEPROMSelected(address))
      /\ ~(SRAMSelected(address) /\ (VIASelected(address) \/ ACIASelected(address)))
      /\ ~(EEPROMSelected(address) /\ (VIASelected(address) \/ ACIASelected(address)))
    BY <1>1, MemoriesDecodeTheirRange, ChipSelectsExclusive
<1>3. SRAMSelected(address) => address < EEPROM_FIRST
    BY <1>2, SRAMMember DEF EEPROM_FIRST
<1>4. EEPROMSelected(address) => ~(address < EEPROM_FIRST)
    BY <1>2, EEPROMMember DEF EEPROM_FIRST
<1>5. Driven = {Peek(s, address)}
    BY <1>2, <1>3, <1>4 DEF Driven, Peek, InMemorySpace
<1> QED
    BY <1>5, ByteAtType DEF ReadBytes, Peek, IsState

(* Wherever the bus stands, the CPU reads what may be read there.                      *)
LEMMA ReadsReadable ==
    ASSUME TypeOK, NEW s, IsState(s), s.rom = rom, s.ram = sram
    PROVE  /\ ReadBytes \subseteq Readable(s, address)
           /\ Readable(s, address) \subseteq Byte
           /\ Readable(s, address) # {}
<1>1. ReadBytes \subseteq Byte /\ 0 \in Byte
    BY ReadBytesType, ByteMember DEF TypeOK
<1>2. CASE InMemorySpace(address)
    BY <1>2, ReadsCell DEF Readable
<1>3. CASE ~InMemorySpace(address)
    BY <1>1, <1>3 DEF Readable
<1> QED
    BY <1>2, <1>3

-----------------------------------------------------------------------------------
(* What the steps the handlers are made of do to what shows and to the latches.         *)
LatchesStay == cpu'.adl = cpu.adl /\ cpu'.adh = cpu.adh /\ cpu'.add = cpu.add

Unseen == Architectural(cpu') = Architectural(cpu) /\ sram' = sram

LowPhase  == edge = "LOW" /\ edge' = "HIGH" /\ sram' = sram
HighPhase == edge = "HIGH" /\ edge' = "LOW" /\ address' = address

(* What registers that show d hold.                                                   *)
LEMMA Shown ==
    ASSUME NEW d, Architectural(cpu) = d
    PROVE  /\ cpu.a = d.a /\ cpu.x = d.x /\ cpu.y = d.y
           /\ cpu.sp = d.sp /\ cpu.pc = d.pc /\ cpu.status = d.status
BY DEF Architectural

(* An idle cycle changes nothing the program sees, and no latch.                      *)
LEMMA IdleUnseen ==
    ASSUME TypeOK, Idle
    PROVE  Unseen /\ LatchesStay
<1>1. cpu \in Registers
    BY DEF TypeOK
<1> QED
    BY <1>1, ArchitecturalType, StepShows DEF Idle, NoTransfer, Unseen, LatchesStay

(* A cycle that fetches a byte into a latch changes that latch only.                  *)
LEMMA FetchToUnseen ==
    ASSUME TypeOK, NEW m \in Byte, ReadBytes = {m}, NEW field \in {"adl", "adh", "add"},
           FetchTo(field)
    PROVE  /\ Unseen
           /\ cpu'.adl = IF field = "adl" THEN m ELSE cpu.adl
           /\ cpu'.adh = IF field = "adh" THEN m ELSE cpu.adh
           /\ cpu'.add = IF field = "add" THEN m ELSE cpu.add
<1> DEFINE c == [cpu EXCEPT ![field] = m]
<1>1. cpu \in Registers
    BY DEF TypeOK
<1>2. Step(c) /\ sram' = sram
    BY DEF FetchTo, FetchByte
<1>3. c \in Registers /\ Same(c, Architectural(cpu))
    BY <1>1, ArchitecturalType, LatchesSame
<1>4. /\ c.adl = IF field = "adl" THEN m ELSE cpu.adl
      /\ c.adh = IF field = "adh" THEN m ELSE cpu.adh
      /\ c.add = IF field = "add" THEN m ELSE cpu.add
    BY <1>1 DEF Registers
<1> HIDE DEF c
<1> QED
    BY <1>1, <1>2, <1>3, <1>4, ArchitecturalType, StepShows DEF Unseen

(* A push moves the stack pointer and stores the byte at the address on the bus.      *)
LEMMA PushShows ==
    ASSUME TypeOK, NEW v \in Byte, Push(v)
    PROVE  /\ Architectural(cpu') = [Architectural(cpu) EXCEPT !.sp = U8(cpu.sp - 1)]
           /\ sram' = AfterWrite(sram, address, v)
           /\ LatchesStay
<1> DEFINE q == U8(cpu.sp - 1)
           c == [cpu EXCEPT !.sp = q]
           d == [Architectural(cpu) EXCEPT !.sp = q]
<1>1. cpu \in Registers /\ q \in Byte /\ 0 \in Word
    BY RegisterTypes, ByteMember, WordMember, NarrowType DEF TypeOK
<1>2. Step(c) /\ sram' = AfterWrite(sram, address, v)
    BY DEF Push, WriteByte
<1> HIDE DEF q
<1>3. c \in Registers /\ c.adl = cpu.adl /\ c.adh = cpu.adh /\ c.add = cpu.add
    BY <1>1 DEF Registers
<1>4. Same(c, d) /\ d \in File
    BY <1>1, ArchitecturalType, UpdatesSame
<1> HIDE DEF c, d
<1>5. Architectural(cpu') = d /\ LatchesStay
    BY <1>2, <1>3, <1>4, StepShows DEF LatchesStay
<1> QED
    BY <1>2, <1>5 DEF d, q

(* A HIGH handler that leaves the program counter at w.                                *)
LEMMA JumpShows ==
    ASSUME TypeOK, NEW w \in Word, Step([cpu EXCEPT !.pc = w])
    PROVE  Architectural(cpu') = [Architectural(cpu) EXCEPT !.pc = w] /\ LatchesStay
<1> DEFINE c == [cpu EXCEPT !.pc = w]
           d == [Architectural(cpu) EXCEPT !.pc = w]
<1>1. cpu \in Registers /\ 0 \in Byte
    BY ByteMember DEF TypeOK
<1>2. c \in Registers /\ c.adl = cpu.adl /\ c.adh = cpu.adh /\ c.add = cpu.add
    BY <1>1 DEF Registers
<1>3. Same(c, d) /\ d \in File
    BY <1>1, ArchitecturalType, UpdatesSame
<1>4. Step(c)
    OBVIOUS
<1> HIDE DEF c, d
<1>5. Architectural(cpu') = d /\ LatchesStay
    BY <1>2, <1>3, <1>4, StepShows DEF LatchesStay
<1> QED
    BY <1>5 DEF d

-----------------------------------------------------------------------------------
(* The cells are bytes.                                                                *)
LEMMA CellType ==
    ASSUME NEW s, IsState(s), NEW a
    PROVE  Peek(s, a) \in Byte
BY ByteAtType DEF Peek, IsState

(* The bytes of an instruction are bytes, and its operand word is a word.             *)
LEMMA CodeTypes ==
    ASSUME NEW s, IsState(s)
    PROVE  /\ \A n : CodeByte(s, n) \in Byte
           /\ CodeWord(s) \in Word
<1>1. \A n : CodeByte(s, n) \in Byte
    BY CellType DEF CodeByte
<1> QED
    BY <1>1, JoinType DEF CodeWord

(* A LOW phase fetches the next byte of the instruction.                               *)
LEMMA FetchOperandOn ==
    ASSUME TypeOK, NEW s, IsState(s), NEW n \in 1 .. 2, LowPhase, Fetching(s, n), FetchOperand
    PROVE  Fetching(s, n)' /\ LatchesStay
<1>1. cpu \in Registers /\ Architectural(cpu) = Behind(s, n) /\ sram = s.ram
    BY DEF TypeOK, Fetching, LowPhase, Holds
<1>2. address' = PCAfter(s, n)
    BY <1>1, Shown, BehindFields DEF FetchOperand
<1>3. Architectural(cpu') = Behind(s, n + 1)
    <2> DEFINE w == U16(cpu.pc + 1)
    <2>1. w = PCAfter(s, n + 1)
        BY <1>1, Shown, BehindFields, PCSteps
    <2>2. w \in Word /\ 0 \in Byte
        BY <2>1, BehindFields, ByteMember
    <2> HIDE DEF w
    <2>3. Same([cpu EXCEPT !.pc = w], [Behind(s, n) EXCEPT !.pc = w])
          /\ [Behind(s, n) EXCEPT !.pc = w] \in File
        BY <1>1, <2>2, ArchitecturalType, UpdatesSame
    <2>4. [Behind(s, n) EXCEPT !.pc = w] = Behind(s, n + 1)
        BY <2>1, PCSteps
    <2>5. cpu' = [cpu EXCEPT !.pc = w]
        BY DEF FetchOperand, AdvancePC, w
    <2> QED
        BY <2>3, <2>4, <2>5, FileShows
<1>4. LatchesStay
    BY <1>1 DEF FetchOperand, AdvancePC, LatchesStay, Registers
<1> QED
    BY <1>1, <1>2, <1>3, <1>4 DEF LowPhase, Fetching, Holds

(* The cycle that carries a memory instruction out.                                    *)
LEMMA ExecutePerforms ==
    ASSUME TypeOK, NEW s, IsState(s), s.rom = rom, NEW op \in MemoryOps, Op = op,
           NEW ops, op \in ops, Execute(ops), NEW n \in 0 .. 3, Holds(Behind(s, n), s.ram),
           NEW t, address = t
    PROVE  Performed(s, op, n, t)'
<1> DEFINE d == Behind(s, n)
<1>1. /\ cpu \in Registers /\ d \in File /\ Architectural(cpu) = d /\ Same(cpu, d)
      /\ sram = s.ram
    BY BehindFields, FileShows DEF TypeOK, Holds
<1>2. d.a = s.regs.a /\ d.x = s.regs.x /\ d.y = s.regs.y /\ d.status = s.regs.status
    BY BehindFields
<1>3. /\ ReadBytes \subseteq Readable(s, t)
      /\ Readable(s, t) \subseteq Byte
      /\ Readable(s, t) # {}
    BY <1>1, ReadsReadable
<1> HIDE DEF d
<1>4. SUFFICES \E m \in Readable(s, t) : PerformedOn(s, op, n, t, m)'
    BY DEF Performed
<1>5. CASE op \in ReadOps
    <2>1. op \notin StoreOps /\ op \notin ModifyOps
        BY <1>5 DEF ReadOps, StoreOps, ModifyOps
    <2>2. PICK m \in ReadBytes : FetchByte(m) /\ Read(m)
        BY <1>5, <2>1 DEF Execute
    <2>3. sram' = sram /\ Step(ReadResult(op, cpu, m)) /\ m \in Readable(s, t) /\ m \in Byte
        BY <1>3, <2>2 DEF FetchByte, Read
    <2>4. ReadResult(op, cpu, m) \in Registers
        BY <1>5, <2>3, ReadResultLeaves DEF Leaves
    <2>5. Architectural(cpu') = ReadResult(op, d, m)
        BY <1>1, <1>5, <2>3, <2>4, ReadSame, StepShows
    <2>6. PerformedOn(s, op, n, t, m)'
        BY <1>1, <1>5, <2>3, <2>5 DEF PerformedOn, Holds, d
    <2> QED
        BY <2>3, <2>6
<1>6. CASE op \in ModifyOps
    <2>1. op \notin StoreOps /\ op \notin ReadOps
        BY <1>6 DEF ReadOps, StoreOps, ModifyOps
    <2>2. PICK m \in ReadBytes : Modify(m)
        BY <1>6, <2>1 DEF Execute
    <2> DEFINE r == ModifyResult(op, cpu.status, m)
    <2>3. /\ sram' = AfterWrite(sram, t, r.value) /\ Step(InMemory(op, cpu, r))
          /\ m \in Readable(s, t) /\ m \in Byte
        BY <1>3, <2>2 DEF Modify, WriteByte
    <2>4. r.value \in Byte
        BY <1>6, <2>3, RegisterTypes, ModifyResultType
    <2>5. r = ModifyResult(op, s.regs.status, m)
        BY <1>1, <1>2, Shown
    <2> HIDE DEF r
    <2>6. InMemory(op, cpu, r) \in Registers
        BY <2>4, ResultLeaves DEF InMemory, Leaves
    <2>7. Architectural(cpu') = InMemory(op, d, r)
        BY <1>1, <2>3, <2>4, <2>6, ModifySame, StepShows
    <2>8. PerformedOn(s, op, n, t, m)'
        BY <1>1, <1>6, <2>3, <2>5, <2>7 DEF PerformedOn, Holds, d
    <2> QED
        BY <2>3, <2>8
<1>7. CASE op \in StoreOps
    <2>1. op \notin ModifyOps /\ op \notin ReadOps
        BY <1>7 DEF ReadOps, StoreOps, ModifyOps
    <2>2. sram' = AfterWrite(sram, t, StoredByte(op, cpu)) /\ Step(cpu)
        BY <2>1 DEF Execute, Store, WriteByte
    <2>3. StoredByte(op, cpu) = StoredByte(op, s.regs)
        BY <1>1, <1>2, <1>7, Shown DEF StoredByte, StoreOps
    <2>4. Architectural(cpu') = d
        BY <1>1, <2>2, StepShows
    <2>5. \A m : PerformedOn(s, op, n, t, m)'
        BY <1>1, <1>7, <2>2, <2>3, <2>4 DEF PerformedOn, Holds, d
    <2> QED
        BY <1>3, <2>5
<1> QED
    BY <1>5, <1>6, <1>7 DEF MemoryOps

(* A cycle that shows nothing leaves what has been done.                               *)
LEMMA PerformedStays ==
    ASSUME NEW s, NEW op, NEW n, NEW t, Performed(s, op, n, t), Unseen
    PROVE  Performed(s, op, n, t)'
BY DEF Performed, PerformedOn, Unseen, Holds

-----------------------------------------------------------------------------------
(* The memory instructions keep to their courses, mode by mode.                        *)
LEMMA ImmediateOnCourse ==
    ASSUME TypeOK, NEW s, IsState(s), s.rom = rom, NEW op \in ReadOps \ {"BIT"}, Op = op,
           NEW k \in 1 .. 6, Cycle = k, ImmediateCourse(s, op, k)
    PROVE  /\ LowPhase /\ ImmediateLow => ImmediateCourse(s, op, k)'
           /\ HighPhase /\ ImmediateHigh
                => ImmediateCourse(s, op, k + 1)'
<1>1. ASSUME LowPhase, ImmediateLow
      PROVE  ImmediateCourse(s, op, k)'
    <2>1. CASE k = 1
        <3>1. Fetching(s, 1)'
            BY <1>1, <2>1, FetchOperandOn DEF ImmediateLow, ImmediateCourse
        <3> QED
            BY <2>1, <3>1 DEF ImmediateCourse
    <2>2. CASE k > 1
        <3>1. Unseen
            BY <1>1, <2>2 DEF ImmediateLow, Hold, LowPhase, Unseen
        <3> QED
            BY <2>2, <3>1, PerformedStays DEF ImmediateCourse
    <2> QED
        BY <2>1, <2>2
<1>2. ASSUME HighPhase, ImmediateHigh
      PROVE  ImmediateCourse(s, op, k + 1)'
    <2>1. CASE k = 1
        <3>1. Holds(Behind(s, 2), s.ram) /\ address = PCAfter(s, 1)
            BY <1>2, <2>1 DEF ImmediateCourse, Fetching, HighPhase
        <3>2. op \in MemoryOps /\ Execute(ReadOps \ {"BIT"})
            BY <1>2, <2>1 DEF ImmediateHigh, MemoryOps
        <3>3. Performed(s, op, 2, PCAfter(s, 1))'
            BY <1>2, <3>1, <3>2, ExecutePerforms
        <3> QED
            BY <2>1, <3>3 DEF ImmediateCourse
    <2>2. CASE k > 1
        <3>1. Unseen
            BY <1>2, <2>2, IdleUnseen DEF ImmediateHigh
        <3> QED
            BY <2>2, <3>1, PerformedStays DEF ImmediateCourse
    <2> QED
        BY <2>1, <2>2
<1> QED
    BY <1>1, <1>2

(* The zero page mode.                                                                *)
LEMMA ZeroPageOnCourse ==
    ASSUME TypeOK, NEW s, IsState(s), s.rom = rom, NEW op \in MemoryOps, Op = op,
           NEW k \in 1 .. 6, Cycle = k, ZeroPageCourse(s, op, k)
    PROVE  /\ LowPhase /\ ZeroPageLow => ZeroPageCourse(s, op, k)'
           /\ HighPhase /\ ZeroPageHigh /\ (k < 2 => InMemorySpace(address))
                => ZeroPageCourse(s, op, k + 1)'
<1> DEFINE t == Target(s, "ZP")
<1>1. ASSUME LowPhase, ZeroPageLow
      PROVE  ZeroPageCourse(s, op, k)'
    <2>1. CASE k = 1
        <3>1. Fetching(s, 1)'
            BY <1>1, <2>1, FetchOperandOn DEF ZeroPageLow, ZeroPageCourse
        <3> QED
            BY <2>1, <3>1 DEF ZeroPageCourse
    <2>2. CASE k = 2
        <3>1. Ready(s, 2, t) /\ cpu.adl = CodeByte(s, 1)
            BY <2>2 DEF ZeroPageCourse
        <3>2. address' = CodeByte(s, 1) /\ cpu' = cpu /\ sram' = sram
            BY <1>1, <2>2, <3>1 DEF ZeroPageLow, Drive, LowPhase
        <3> QED
            BY <2>2, <3>1, <3>2 DEF ZeroPageCourse, Ready, Holds, Driving, Target
    <2>3. CASE k > 2
        <3>1. Unseen
            BY <1>1, <2>3 DEF ZeroPageLow, Drive, Hold, LowPhase, Unseen
        <3> QED
            BY <2>3, <3>1, PerformedStays DEF ZeroPageCourse
    <2> QED
        BY <2>1, <2>2, <2>3
<1>2. ASSUME HighPhase, ZeroPageHigh, k < 2 => InMemorySpace(address)
      PROVE  ZeroPageCourse(s, op, k + 1)'
    <2>1. CASE k = 1
        <3>1. Holds(Behind(s, 2), s.ram) /\ address = PCAfter(s, 1) /\ FetchTo("adl")
            BY <1>2, <2>1 DEF ZeroPageCourse, ZeroPageHigh, Fetching, HighPhase
        <3>2. Unseen /\ cpu'.adl = CodeByte(s, 1)
            BY <1>2, <2>1, <3>1, ReadsCell, FetchToUnseen DEF CodeByte, Holds
        <3> QED
            BY <1>2, <2>1, <3>1, <3>2
               DEF ZeroPageCourse, Ready, Holds, Driving, Unseen, HighPhase
    <2>2. CASE k = 2
        <3>1. Holds(Behind(s, 2), s.ram) /\ address = t
            BY <1>2, <2>2 DEF ZeroPageCourse, Ready, Driving, HighPhase
        <3>2. op \in ReadOps \cup ModifyOps \cup StoreOps
              /\ Execute(ReadOps \cup ModifyOps \cup StoreOps)
            BY <1>2, <2>2 DEF ZeroPageHigh, MemoryOps
        <3>3. Performed(s, op, 2, t)'
            BY <1>2, <3>1, <3>2, ExecutePerforms
        <3> QED
            BY <2>2, <3>3 DEF ZeroPageCourse
    <2>3. CASE k > 2
        <3>1. Unseen
            BY <1>2, <2>3, IdleUnseen DEF ZeroPageHigh
        <3> QED
            BY <2>3, <3>1, PerformedStays DEF ZeroPageCourse
    <2> QED
        BY <2>1, <2>2, <2>3
<1> QED
    BY <1>1, <1>2

(* The zero page modes with an index.                                                 *)
LEMMA ZeroPageIndexedOnCourse ==
    ASSUME TypeOK, NEW s, IsState(s), s.rom = rom,
           NEW mode \in {"ZPX", "ZPY"}, Mode = mode,
           NEW op \in MemoryOps \ {"BIT", "CPX", "CPY"}, Op = op,
           NEW k \in 1 .. 6, Cycle = k, ZeroPageIndexedCourse(s, op, mode, k)
    PROVE  /\ LowPhase /\ ZeroPageIndexedLow => ZeroPageIndexedCourse(s, op, mode, k)'
           /\ HighPhase /\ ZeroPageIndexedHigh
                /\ (k < 3 => InMemorySpace(address))
                => ZeroPageIndexedCourse(s, op, mode, k + 1)'
<1> DEFINE t == Target(s, mode)
           counts == op \in {"INC", "DEC"}
<1>1. ASSUME LowPhase, ZeroPageIndexedLow
      PROVE  ZeroPageIndexedCourse(s, op, mode, k)'
    <2>1. CASE k = 1
        <3>1. Fetching(s, 1)'
            BY <1>1, <2>1, FetchOperandOn DEF ZeroPageIndexedLow, ZeroPageIndexedCourse
        <3> QED
            BY <2>1, <3>1 DEF ZeroPageIndexedCourse
    <2>2. CASE k = 2
        <3>1. Ready(s, 2, CodeByte(s, 1)) /\ cpu.adl = CodeByte(s, 1)
            BY <2>2 DEF ZeroPageIndexedCourse
        <3>2. address' = CodeByte(s, 1) /\ cpu' = cpu /\ sram' = sram
            BY <1>1, <2>2, <3>1 DEF ZeroPageIndexedLow, Drive, LowPhase
        <3> QED
            BY <2>2, <3>1, <3>2 DEF ZeroPageIndexedCourse, Ready, Holds, Driving
    <2>3. CASE k = 3
        <3>1. Ready(s, 2, t) /\ cpu.adh = t
            BY <2>3 DEF ZeroPageIndexedCourse
        <3>2. address' = t /\ cpu' = cpu /\ sram' = sram
            BY <1>1, <2>3, <3>1 DEF ZeroPageIndexedLow, Drive, LowPhase
        <3> QED
            BY <2>3, <3>1, <3>2 DEF ZeroPageIndexedCourse, Ready, Holds, Driving
    <2>4. CASE k > 3
        <3>1. Unseen
            BY <1>1, <2>4 DEF ZeroPageIndexedLow, Drive, Hold, LowPhase, Unseen
        <3>2. CASE counts
            BY <2>4, <3>1, <3>2 DEF ZeroPageIndexedCourse, Holds, Unseen
        <3>3. CASE ~counts
            BY <2>4, <3>1, <3>3, PerformedStays DEF ZeroPageIndexedCourse
        <3> QED
            BY <3>2, <3>3
    <2> QED
        BY <2>1, <2>2, <2>3, <2>4
<1>2. ASSUME HighPhase, ZeroPageIndexedHigh,
             k < 3 => InMemorySpace(address)
      PROVE  ZeroPageIndexedCourse(s, op, mode, k + 1)'
    <2>1. CASE k = 1
        <3>1. Holds(Behind(s, 2), s.ram) /\ address = PCAfter(s, 1) /\ FetchTo("adl")
            BY <1>2, <2>1 DEF ZeroPageIndexedCourse, ZeroPageIndexedHigh, Fetching, HighPhase
        <3>2. Unseen /\ cpu'.adl = CodeByte(s, 1)
            BY <1>2, <2>1, <3>1, ReadsCell, FetchToUnseen DEF CodeByte, Holds
        <3> QED
            BY <1>2, <2>1, <3>1, <3>2
               DEF ZeroPageIndexedCourse, Ready, Holds, Driving, Unseen, HighPhase
    <2>2. CASE k = 2
        <3>1. Holds(Behind(s, 2), s.ram) /\ cpu.adl = CodeByte(s, 1)
            BY <2>2 DEF ZeroPageIndexedCourse, Ready
        <3>2. U8(cpu.adl + IF Mode = "ZPX" THEN cpu.x ELSE cpu.y) = t
            BY <3>1, Shown, BehindFields DEF Holds, Target, Index
        <3>3. Step([cpu EXCEPT !.adh = t]) /\ sram' = sram
            BY <1>2, <2>2, <3>2 DEF ZeroPageIndexedHigh, NoTransfer
        <3>4. t \in Byte
            BY <3>2, RegisterTypes, ByteMember, NarrowType
        <3>5. /\ cpu \in Registers /\ [cpu EXCEPT !.adh = t] \in Registers
              /\ Same([cpu EXCEPT !.adh = t], Behind(s, 2)) /\ Behind(s, 2) \in File
            <4>1. cpu \in Registers /\ Behind(s, 2) \in File /\ Same(cpu, Behind(s, 2))
                BY <3>1, BehindFields, FileShows DEF Holds, TypeOK
            <4> QED
                BY <3>4, <4>1, LatchesSame
        <3>6. [cpu EXCEPT !.adh = t].adh = t
            BY <3>5 DEF Registers
        <3>7. Architectural(cpu') = Behind(s, 2) /\ cpu'.adh = t
            BY <3>3, <3>5, <3>6, StepShows
        <3> QED
            BY <1>2, <2>2, <3>1, <3>3, <3>7
               DEF ZeroPageIndexedCourse, Ready, Holds, Driving, HighPhase
    <2>3. CASE k = 3
        <3> DEFINE ops == (ReadOps \ {"BIT", "CPX", "CPY"}) \cup (ModifyOps \ {"INC", "DEC"})
                            \cup StoreOps
        <3>1. Holds(Behind(s, 2), s.ram) /\ address = t
            BY <1>2, <2>3 DEF ZeroPageIndexedCourse, Ready, Driving, HighPhase
        <3>2. Execute(ops)
            BY <1>2, <2>3 DEF ZeroPageIndexedHigh
        <3>3. CASE counts
            <4>1. op \notin ops
                BY <3>3 DEF ReadOps, StoreOps
            <4>2. Idle
                BY <3>2, <4>1 DEF Execute
            <4>3. Unseen
                BY <4>2, IdleUnseen
            <4> QED
                BY <2>3, <3>1, <3>3, <4>3 DEF ZeroPageIndexedCourse, Holds, Unseen
        <3>4. CASE ~counts
            <4>1. op \in ops
                BY <3>4 DEF MemoryOps
            <4>2. Performed(s, op, 2, t)'
                BY <1>2, <3>1, <3>2, <4>1, ExecutePerforms
            <4> QED
                BY <2>3, <3>4, <4>2 DEF ZeroPageIndexedCourse
        <3> QED
            BY <3>3, <3>4
    <2>4. CASE k > 3
        <3>1. Unseen
            BY <1>2, <2>4, IdleUnseen DEF ZeroPageIndexedHigh
        <3>2. CASE counts
            BY <2>4, <3>1, <3>2 DEF ZeroPageIndexedCourse, Holds, Unseen
        <3>3. CASE ~counts
            BY <2>4, <3>1, <3>3, PerformedStays DEF ZeroPageIndexedCourse
        <3> QED
            BY <3>2, <3>3
    <2> QED
        BY <2>1, <2>2, <2>3, <2>4
<1> QED
    BY <1>1, <1>2

(* The absolute modes, with and without an index.                                     *)
LEMMA AbsoluteOnCourse ==
    ASSUME TypeOK, NEW s, IsState(s), s.rom = rom,
           NEW mode \in {"ABS", "ABSX", "ABSY"}, Mode = mode,
           NEW op \in MemoryOps, Op = op,
           NEW k \in 1 .. 6, Cycle = k, AbsoluteCourse(s, op, mode, k)
    PROVE  /\ LowPhase /\ (AbsoluteLow \/ AbsoluteIndexedLow) => AbsoluteCourse(s, op, mode, k)'
           /\ HighPhase /\ AbsoluteHigh /\ (k < 3 => InMemorySpace(address))
                => AbsoluteCourse(s, op, mode, k + 1)'
<1> DEFINE t == Target(s, mode)
<1>1. op \notin {"JSR", "JMP"}
    BY DEF MemoryOps, ReadOps, ModifyOps, StoreOps
<1>2. ASSUME LowPhase, AbsoluteLow \/ AbsoluteIndexedLow
      PROVE  AbsoluteCourse(s, op, mode, k)'
    <2>1. CASE k = 1
        <3>1. Fetching(s, 1)'
            BY <1>1, <1>2, <2>1, FetchOperandOn
               DEF AbsoluteLow, AbsoluteIndexedLow, AbsoluteCourse
        <3> QED
            BY <2>1, <3>1 DEF AbsoluteCourse
    <2>2. CASE k = 2
        <3>1. Fetching(s, 2) /\ cpu.adl = CodeByte(s, 1)
            BY <2>2 DEF AbsoluteCourse
        <3>2. FetchOperand
            BY <1>1, <1>2, <2>2 DEF AbsoluteLow, AbsoluteIndexedLow
        <3>3. Fetching(s, 2)' /\ LatchesStay
            BY <1>2, <3>1, <3>2, FetchOperandOn
        <3> QED
            BY <2>2, <3>1, <3>3 DEF AbsoluteCourse, LatchesStay
    <2>3. CASE k = 3
        <3>1. /\ Holds(Behind(s, 3), s.ram)
              /\ cpu.adl = CodeByte(s, 1) /\ cpu.adh = CodeByte(s, 2)
            BY <2>3 DEF AbsoluteCourse, Ready
        <3>2. Operand = CodeWord(s) /\ cpu.x = s.regs.x /\ cpu.y = s.regs.y
            BY <3>1, Shown, BehindFields DEF Operand, CodeWord, Holds
        <3>3. address' = t /\ cpu' = cpu /\ sram' = sram
            BY <1>1, <1>2, <2>3, <3>2
               DEF AbsoluteLow, AbsoluteIndexedLow, Drive, LowPhase, Target, Index
        <3> QED
            BY <2>3, <3>1, <3>3 DEF AbsoluteCourse, Ready, Holds, Driving
    <2>4. CASE k > 3
        <3>1. Unseen
            BY <1>1, <1>2, <2>4
               DEF AbsoluteLow, AbsoluteIndexedLow, Drive, Hold, LowPhase, Unseen
        <3> QED
            BY <2>4, <3>1, PerformedStays DEF AbsoluteCourse
    <2> QED
        BY <2>1, <2>2, <2>3, <2>4
<1>3. ASSUME HighPhase, AbsoluteHigh, k < 3 => InMemorySpace(address)
      PROVE  AbsoluteCourse(s, op, mode, k + 1)'
    <2>1. CASE k = 1
        <3>1. Holds(Behind(s, 2), s.ram) /\ address = PCAfter(s, 1) /\ FetchTo("adl")
            BY <1>1, <1>3, <2>1 DEF AbsoluteCourse, AbsoluteHigh, Fetching, HighPhase
        <3>2. Unseen /\ cpu'.adl = CodeByte(s, 1)
            BY <1>3, <2>1, <3>1, ReadsCell, FetchToUnseen DEF CodeByte, Holds
        <3> QED
            BY <1>3, <2>1, <3>1, <3>2 DEF AbsoluteCourse, Fetching, Holds, Unseen, HighPhase
    <2>2. CASE k = 2
        <3>1. /\ Holds(Behind(s, 3), s.ram) /\ address = PCAfter(s, 2) /\ FetchTo("adh")
              /\ cpu.adl = CodeByte(s, 1)
            BY <1>1, <1>3, <2>2 DEF AbsoluteCourse, AbsoluteHigh, Fetching, HighPhase
        <3>2. Unseen /\ cpu'.adh = CodeByte(s, 2) /\ cpu'.adl = cpu.adl
            BY <1>3, <2>2, <3>1, ReadsCell, FetchToUnseen DEF CodeByte, Holds
        <3> QED
            BY <1>3, <2>2, <3>1, <3>2
               DEF AbsoluteCourse, Ready, Holds, Driving, Unseen, HighPhase
    <2>3. CASE k = 3
        <3>1. Holds(Behind(s, 3), s.ram) /\ address = t
            BY <1>3, <2>3 DEF AbsoluteCourse, Ready, Driving, HighPhase
        <3>2. op \in ReadOps \cup ModifyOps \cup StoreOps
              /\ Execute(ReadOps \cup ModifyOps \cup StoreOps)
            BY <1>1, <1>3, <2>3 DEF AbsoluteHigh, MemoryOps
        <3>3. Performed(s, op, 3, t)'
            BY <1>3, <3>1, <3>2, ExecutePerforms
        <3> QED
            BY <2>3, <3>3 DEF AbsoluteCourse
    <2>4. CASE k > 3
        <3>1. Unseen
            BY <1>1, <1>3, <2>4, IdleUnseen DEF AbsoluteHigh
        <3> QED
            BY <2>4, <3>1, PerformedStays DEF AbsoluteCourse
    <2> QED
        BY <2>1, <2>2, <2>3, <2>4
<1> QED
    BY <1>2, <1>3

(* A handler that reads a byte into a latch through a sum.                             *)
LEMMA LatchShows ==
    ASSUME TypeOK, NEW v \in Byte, NEW d \in File, Architectural(cpu) = d
    PROVE  /\ Step([cpu EXCEPT !.adl = v]) =>
                /\ Architectural(cpu') = d
                /\ cpu'.adl = v /\ cpu'.adh = cpu.adh /\ cpu'.add = cpu.add
           /\ Step([cpu EXCEPT !.add = v]) =>
                /\ Architectural(cpu') = d
                /\ cpu'.adl = cpu.adl /\ cpu'.adh = cpu.adh /\ cpu'.add = v
<1> DEFINE c1 == [cpu EXCEPT !.adl = v]
           c2 == [cpu EXCEPT !.add = v]
<1>1. cpu \in Registers /\ Same(cpu, d)
    BY FileShows DEF TypeOK
<1>2. c1 \in Registers /\ Same(c1, d) /\ c2 \in Registers /\ Same(c2, d)
    BY <1>1, LatchesSame
<1>3. /\ c1.adl = v /\ c1.adh = cpu.adh /\ c1.add = cpu.add
      /\ c2.adl = cpu.adl /\ c2.adh = cpu.adh /\ c2.add = v
    BY <1>1 DEF Registers
<1> HIDE DEF c1, c2
<1>4. Step(c1) => /\ Architectural(cpu') = d
                  /\ cpu'.adl = v /\ cpu'.adh = cpu.adh /\ cpu'.add = cpu.add
    BY <1>2, <1>3, StepShows
<1>5. Step(c2) => /\ Architectural(cpu') = d
                  /\ cpu'.adl = cpu.adl /\ cpu'.adh = cpu.adh /\ cpu'.add = v
    BY <1>2, <1>3, StepShows
<1> QED
    BY <1>4, <1>5 DEF c1, c2

(* The two modes with a pointer in the zero page.                                     *)
LEMMA PointerOnCourse ==
    ASSUME TypeOK, NEW s, IsState(s), s.rom = rom,
           NEW mode \in {"INDX", "INDY"}, Mode = mode,
           NEW op \in PointerOps, Op = op,
           NEW k \in 1 .. 6, Cycle = k, PointerCourse(s, op, mode, k)
    PROVE  /\ LowPhase /\ PointerLow => PointerCourse(s, op, mode, k)'
           /\ HighPhase /\ (IndexedIndirectHigh \/ IndirectIndexedHigh)
                /\ (k < 4 => InMemorySpace(address))
                => PointerCourse(s, op, mode, k + 1)'
<1> DEFINE p == PointerAt(s, mode)
           low == IF mode = "INDX" THEN Peek(s, p) ELSE U8(Peek(s, p) + s.regs.y)
           t == Target(s, mode)
<1>1. Behind(s, 2) \in File /\ Behind(s, 2).x = s.regs.x /\ Behind(s, 2).y = s.regs.y
    BY BehindFields
<1>2. ASSUME LowPhase, PointerLow
      PROVE  PointerCourse(s, op, mode, k)'
    <2>1. CASE k = 1
        <3>1. Fetching(s, 1)'
            BY <1>2, <2>1, FetchOperandOn DEF PointerLow, PointerCourse
        <3> QED
            BY <2>1, <3>1 DEF PointerCourse
    <2>2. CASE k = 2
        <3>1. Ready(s, 2, p) /\ cpu.add = p
            BY <2>2 DEF PointerCourse
        <3>2. address' = p /\ cpu' = cpu /\ sram' = sram
            BY <1>2, <2>2, <3>1 DEF PointerLow, Drive, LowPhase
        <3> QED
            BY <2>2, <3>1, <3>2 DEF PointerCourse, Ready, Holds, Driving
    <2>3. CASE k = 3
        <3>1. Ready(s, 2, p + 1) /\ cpu.add = p /\ cpu.adl = low
            BY <2>3 DEF PointerCourse
        <3>2. address' = p + 1 /\ cpu' = cpu /\ sram' = sram
            BY <1>2, <2>3, <3>1 DEF PointerLow, Drive, LowPhase
        <3> QED
            BY <2>3, <3>1, <3>2 DEF PointerCourse, Ready, Holds, Driving
    <2>4. CASE k = 4
        <3>1. Ready(s, 2, t) /\ cpu.adl = low /\ cpu.adh = Peek(s, p + 1)
            BY <2>4 DEF PointerCourse
        <3>2. Operand = t
            BY <3>1 DEF Operand, Target
        <3>3. address' = t /\ cpu' = cpu /\ sram' = sram
            BY <1>2, <2>4, <3>2 DEF PointerLow, Drive, LowPhase
        <3> QED
            BY <2>4, <3>1, <3>3 DEF PointerCourse, Ready, Holds, Driving
    <2>5. CASE k > 4
        <3>1. Unseen
            BY <1>2, <2>5 DEF PointerLow, Hold, LowPhase, Unseen
        <3> QED
            BY <2>5, <3>1, PerformedStays DEF PointerCourse
    <2> QED
        BY <2>1, <2>2, <2>3, <2>4, <2>5
<1>3. ASSUME HighPhase, IndexedIndirectHigh \/ IndirectIndexedHigh,
             k < 4 => InMemorySpace(address)
      PROVE  PointerCourse(s, op, mode, k + 1)'
    <2>1. CASE k = 1
        <3>1. Holds(Behind(s, 2), s.ram) /\ address = PCAfter(s, 1)
            BY <1>3, <2>1 DEF PointerCourse, Fetching, HighPhase
        <3>2. ReadBytes = {CodeByte(s, 1)} /\ CodeByte(s, 1) \in Byte
            BY <1>3, <2>1, <3>1, ReadsCell DEF CodeByte, Holds
        <3>3. Architectural(cpu') = Behind(s, 2) /\ sram' = sram /\ cpu'.add = p
            <4>1. CASE mode = "INDX"
                <5>1. Step([cpu EXCEPT !.add = p]) /\ sram' = sram
                    BY <1>1, <1>3, <2>1, <3>1, <3>2, <4>1, Shown
                       DEF IndexedIndirectHigh, IndirectIndexedHigh, FetchByte, PointerAt, Holds
                <5>2. p \in Byte
                    BY <3>2, <4>1, ByteMember, NarrowType DEF PointerAt, IsState, File
                <5> QED
                    BY <1>1, <3>1, <5>1, <5>2, LatchShows DEF Holds
            <4>2. CASE mode = "INDY"
                <5>1. Unseen /\ cpu'.add = p
                    BY <1>3, <2>1, <3>2, <4>2, FetchToUnseen
                       DEF IndexedIndirectHigh, IndirectIndexedHigh, PointerAt
                <5> QED
                    BY <3>1, <5>1 DEF Unseen, Holds
            <4> QED
                BY <4>1, <4>2
        <3> QED
            BY <1>3, <2>1, <3>1, <3>3 DEF PointerCourse, Ready, Holds, Driving, HighPhase
    <2>2. CASE k = 2
        <3>1. Holds(Behind(s, 2), s.ram) /\ address = p /\ cpu.add = p
            BY <1>3, <2>2 DEF PointerCourse, Ready, Driving, HighPhase
        <3>2. ReadBytes = {Peek(s, p)} /\ Peek(s, p) \in Byte
            BY <1>3, <2>2, <3>1, ReadsCell DEF Holds
        <3>3. /\ Architectural(cpu') = Behind(s, 2) /\ sram' = sram
              /\ cpu'.add = p /\ cpu'.adl = low
            <4>1. CASE mode = "INDX"
                <5>1. Unseen /\ cpu'.add = p /\ cpu'.adl = low
                    BY <1>3, <2>2, <3>1, <3>2, <4>1, FetchToUnseen
                       DEF IndexedIndirectHigh, IndirectIndexedHigh
                <5> QED
                    BY <3>1, <5>1 DEF Unseen, Holds
            <4>2. CASE mode = "INDY"
                <5>1. Step([cpu EXCEPT !.adl = low]) /\ sram' = sram
                    BY <1>1, <1>3, <2>2, <3>1, <3>2, <4>2, Shown
                       DEF IndexedIndirectHigh, IndirectIndexedHigh, FetchByte, Holds
                <5>2. low \in Byte
                    BY <3>2, <4>2, ByteMember, NarrowType DEF IsState, File
                <5> QED
                    BY <1>1, <3>1, <5>1, <5>2, LatchShows DEF Holds
            <4> QED
                BY <4>1, <4>2
        <3> QED
            BY <1>3, <2>2, <3>1, <3>3 DEF PointerCourse, Ready, Holds, Driving, HighPhase
    <2>3. CASE k = 3
        <3>1. Holds(Behind(s, 2), s.ram) /\ address = p + 1 /\ cpu.adl = low
            BY <1>3, <2>3 DEF PointerCourse, Ready, Driving, HighPhase
        <3>2. FetchTo("adh") /\ ReadBytes = {Peek(s, p + 1)} /\ Peek(s, p + 1) \in Byte
            BY <1>3, <2>3, <3>1, ReadsCell DEF IndexedIndirectHigh, IndirectIndexedHigh, Holds
        <3>3. Unseen /\ cpu'.adl = low /\ cpu'.adh = Peek(s, p + 1)
            BY <3>1, <3>2, FetchToUnseen
        <3> QED
            BY <1>3, <2>3, <3>1, <3>3
               DEF PointerCourse, Ready, Holds, Driving, HighPhase, Unseen
    <2>4. CASE k = 4
        <3>1. Holds(Behind(s, 2), s.ram) /\ address = t
            BY <1>3, <2>4 DEF PointerCourse, Ready, Driving, HighPhase
        <3>2. op \in MemoryOps /\ Execute(PointerOps)
            BY <1>3, <2>4
               DEF IndexedIndirectHigh, IndirectIndexedHigh, PointerOps, MemoryOps, ReadOps,
                   StoreOps
        <3>3. Performed(s, op, 2, t)'
            BY <1>3, <3>1, <3>2, ExecutePerforms
        <3> QED
            BY <2>4, <3>3 DEF PointerCourse
    <2>5. CASE k > 4
        <3>1. Unseen
            BY <1>3, <2>5, IdleUnseen DEF IndexedIndirectHigh, IndirectIndexedHigh
        <3> QED
            BY <2>5, <3>1, PerformedStays DEF PointerCourse
    <2> QED
        BY <2>1, <2>2, <2>3, <2>4, <2>5
<1> QED
    BY <1>2, <1>3

-----------------------------------------------------------------------------------
(* The LOW phases of the implied and accumulator modes move nothing but the address.   *)
LEMMA ImpliedLowUnseen ==
    ASSUME LowPhase, ImpliedLow
    PROVE  Unseen /\ LatchesStay
BY DEF ImpliedLow, Drive, Hold, LowPhase, Unseen, LatchesStay

(* The HIGH handler of the implied mode, by instruction.                               *)
LEMMA ImpliedHandler ==
    ASSUME TypeOK, ImpliedHigh, Cycle > 1
    PROVE  /\ Op = "BRK" => BreakSequence
           /\ Op \in {"PHA", "PHP"} => PushSequence
           /\ Op \in {"PLA", "PLP"} => PullSequence
           /\ Op = "RTS" => ReturnSequence
           /\ Op = "RTI" => ReturnFromInterrupt
           /\ Op \notin StackOps => Idle
<1>1. BreakSequence => Op = "BRK"
    BY DEF BreakSequence
<1>2. PushSequence => Op \in {"PHA", "PHP"}
    BY DEF PushSequence
<1>3. PullSequence => Op \in {"PLA", "PLP"}
    BY DEF PullSequence
<1>4. ReturnSequence => Op = "RTS"
    BY DEF ReturnSequence
<1>5. ReturnFromInterrupt => Op = "RTI"
    BY DEF ReturnFromInterrupt
<1>6. \/ BreakSequence \/ PushSequence \/ PullSequence
      \/ ReturnSequence \/ ReturnFromInterrupt
      \/ Op \notin StackOps /\ Idle
    BY DEF ImpliedHigh
<1> QED
    BY <1>1, <1>2, <1>3, <1>4, <1>5, <1>6 DEF StackOps

(* The shifts and counts of the accumulator.                                           *)
LEMMA AccumulatorOnCourse ==
    ASSUME TypeOK, NEW s, IsState(s), NEW op \in ModifyOps, Op = op,
           NEW k \in 1 .. 6, Cycle = k, AccumulatorCourse(s, op, k)
    PROVE  /\ LowPhase /\ ImpliedLow => AccumulatorCourse(s, op, k)'
           /\ HighPhase /\ AccumulatorHigh => AccumulatorCourse(s, op, k + 1)'
<1> DEFINE d == Behind(s, 1)
           r == ModifyResult(op, s.regs.status, s.regs.a)
<1>1. LowPhase /\ ImpliedLow => AccumulatorCourse(s, op, k)'
    BY ImpliedLowUnseen DEF AccumulatorCourse, Unseen, Holds
<1>2. ASSUME HighPhase, AccumulatorHigh
      PROVE  AccumulatorCourse(s, op, k + 1)'
    <2>1. sram' = sram
        BY <1>2 DEF AccumulatorHigh, NoTransfer
    <2>2. CASE k = 1
        <3>1. Architectural(cpu) = d /\ sram = s.ram
            BY <2>2 DEF AccumulatorCourse, Holds
        <3>2. /\ cpu \in Registers /\ d \in File /\ Same(cpu, d)
              /\ cpu.status = s.regs.status /\ cpu.a = s.regs.a
            BY <3>1, BehindFields, FileShows, Shown DEF TypeOK
        <3> HIDE DEF d
        <3>3. Step(ToAccumulator(cpu, r))
            BY <1>2, <2>2, <3>2 DEF AccumulatorHigh
        <3>4. r.value \in Byte
            BY <3>2, RegisterTypes, ModifyResultType
        <3> HIDE DEF r
        <3>5. ToAccumulator(cpu, r) \in Registers
            BY <3>4, ResultLeaves DEF Leaves
        <3>6. Architectural(cpu') = ToAccumulator(d, r)
            BY <3>2, <3>3, <3>4, <3>5, ModifySame, StepShows
        <3> QED
            BY <2>1, <2>2, <3>1, <3>6 DEF AccumulatorCourse, Holds, d, r
    <2>3. CASE k > 1
        <3>1. Idle
            BY <1>2, <2>3 DEF AccumulatorHigh, Idle
        <3> QED
            BY <2>3, <3>1, IdleUnseen DEF AccumulatorCourse, Unseen, Holds
    <2> QED
        BY <2>2, <2>3
<1> QED
    BY <1>1, <1>2

(* The implied instructions that work on registers.                                    *)
LEMMA RegisterOnCourse ==
    ASSUME TypeOK, NEW s, IsState(s), NEW op \in RegisterOps \cup {"NOP"}, Op = op,
           NEW k \in 1 .. 6, Cycle = k, RegisterCourse(s, op, k)
    PROVE  /\ LowPhase /\ ImpliedLow => RegisterCourse(s, op, k)'
           /\ HighPhase /\ ImpliedHigh => RegisterCourse(s, op, k + 1)'
<1> DEFINE d == Behind(s, 1)
<1>1. LowPhase /\ ImpliedLow => RegisterCourse(s, op, k)'
    BY ImpliedLowUnseen DEF RegisterCourse, Unseen, Holds
<1>2. ASSUME HighPhase, ImpliedHigh
      PROVE  RegisterCourse(s, op, k + 1)'
    <2>1. CASE k = 1
        <3>1. Architectural(cpu) = d /\ sram = s.ram
            BY <2>1 DEF RegisterCourse, Holds
        <3>2. cpu \in Registers /\ d \in File /\ Same(cpu, d)
            BY <3>1, BehindFields, FileShows DEF TypeOK
        <3> HIDE DEF d
        <3>3. Step(RegisterResult(op, cpu)) /\ sram' = sram
            BY <1>2, <2>1 DEF ImpliedHigh, RegisterOperation, NoTransfer
        <3>4. RegisterResult(op, cpu) \in Registers
            BY RegisterResultLeaves DEF Leaves
        <3>5. Architectural(cpu') = RegisterResult(op, d)
            BY <3>2, <3>3, <3>4, RegisterSame, StepShows
        <3> QED
            BY <2>1, <3>1, <3>3, <3>5 DEF RegisterCourse, Holds, d
    <2>2. CASE k > 1
        <3>1. Op \notin StackOps
            BY DEF RegisterOps, StackOps
        <3>2. Idle
            BY <1>2, <2>2, <3>1, ImpliedHandler
        <3> QED
            BY <2>2, <3>2, IdleUnseen DEF RegisterCourse, Unseen, Holds
    <2> QED
        BY <2>1, <2>2
<1> QED
    BY <1>1, <1>2

-----------------------------------------------------------------------------------
(* Two register files that agree are the same.                                         *)
LEMMA FileEqual ==
    ASSUME NEW c \in File, NEW d \in File, Same(c, d)
    PROVE  c = d
BY FileShows, FileShows DEF Architectural, File, Same

(* A jump of a program counter that stood behind n bytes.                              *)
LEMMA JumpFrom ==
    ASSUME TypeOK, NEW s, IsState(s), NEW n \in 0 .. 3, Architectural(cpu) = Behind(s, n),
           NEW w \in Word, Step([cpu EXCEPT !.pc = w])
    PROVE  Architectural(cpu') = [s.regs EXCEPT !.pc = w] /\ LatchesStay
<1>1. Architectural(cpu') = [Behind(s, n) EXCEPT !.pc = w] /\ LatchesStay
    BY JumpShows
<1>2. [Behind(s, n) EXCEPT !.pc = w] = [s.regs EXCEPT !.pc = w]
    BY DEF Behind, IsState, File
<1> QED
    BY <1>1, <1>2

(* JMP keeps to its course.                                                            *)
LEMMA JumpOnCourse ==
    ASSUME TypeOK, NEW s, IsState(s), s.rom = rom, Op = "JMP",
           NEW k \in 1 .. 6, Cycle = k, JumpCourse(s, k)
    PROVE  /\ LowPhase /\ AbsoluteLow => JumpCourse(s, k)'
           /\ HighPhase /\ AbsoluteHigh /\ InMemorySpace(address) /\ k < 3
                => JumpCourse(s, k + 1)'
           /\ HighPhase /\ AbsoluteHigh /\ k > 2 => JumpCourse(s, k + 1)'
<1>1. ASSUME LowPhase, AbsoluteLow
      PROVE  JumpCourse(s, k)'
    <2>1. CASE k = 1
        <3>1. Fetching(s, 1)'
            BY <1>1, <2>1, FetchOperandOn DEF AbsoluteLow, JumpCourse
        <3> QED
            BY <2>1, <3>1 DEF JumpCourse
    <2>2. CASE k = 2
        <3>1. Fetching(s, 2) /\ cpu.adl = CodeByte(s, 1)
            BY <2>2 DEF JumpCourse
        <3>2. Fetching(s, 2)' /\ LatchesStay
            BY <1>1, <2>2, <3>1, FetchOperandOn DEF AbsoluteLow
        <3> QED
            BY <2>2, <3>1, <3>2 DEF JumpCourse, LatchesStay
    <2>3. CASE k > 2
        <3>1. Unseen
            BY <1>1, <2>3 DEF AbsoluteLow, Drive, Hold, LowPhase, Unseen
        <3> QED
            BY <2>3, <3>1 DEF JumpCourse, Holds, Unseen
    <2> QED
        BY <2>1, <2>2, <2>3
<1>2. ASSUME HighPhase, AbsoluteHigh, k < 3 => InMemorySpace(address)
      PROVE  JumpCourse(s, k + 1)'
    <2>1. CASE k = 1
        <3>1. Holds(Behind(s, 2), s.ram) /\ address = PCAfter(s, 1) /\ FetchTo("adl")
            BY <1>2, <2>1 DEF JumpCourse, AbsoluteHigh, Fetching, HighPhase
        <3>2. Unseen /\ cpu'.adl = CodeByte(s, 1)
            BY <1>2, <2>1, <3>1, ReadsCell, FetchToUnseen DEF CodeByte, Holds
        <3> QED
            BY <1>2, <2>1, <3>1, <3>2 DEF JumpCourse, Fetching, Holds, Unseen, HighPhase
    <2>2. CASE k = 2
        <3>1. /\ Holds(Behind(s, 3), s.ram) /\ address = PCAfter(s, 2)
              /\ cpu.adl = CodeByte(s, 1)
            BY <1>2, <2>2 DEF JumpCourse, Fetching, HighPhase
        <3>2. ReadBytes = {CodeByte(s, 2)} /\ CodeByte(s, 2) \in Byte
            BY <1>2, <2>2, <3>1, ReadsCell DEF CodeByte, Holds
        <3>3. Step([cpu EXCEPT !.pc = CodeWord(s)]) /\ sram' = sram
            BY <1>2, <2>2, <3>1, <3>2 DEF AbsoluteHigh, FetchByte, CodeWord
        <3>4. Architectural(cpu') = [s.regs EXCEPT !.pc = CodeWord(s)]
            BY <3>1, <3>3, CodeTypes, JumpFrom DEF Holds
        <3> QED
            BY <2>2, <3>1, <3>3, <3>4 DEF JumpCourse, Holds
    <2>3. CASE k > 2
        <3>1. Op \notin ReadOps \cup ModifyOps \cup StoreOps
            BY DEF ReadOps, ModifyOps, StoreOps
        <3>2. Idle
            BY <1>2, <2>3, <3>1 DEF AbsoluteHigh, Execute
        <3> QED
            BY <2>3, <3>2, IdleUnseen DEF JumpCourse, Unseen, Holds
    <2> QED
        BY <2>1, <2>2, <2>3
<1> QED
    BY <1>1, <1>2

(* JMP (xxxx) keeps to its course.                                                     *)
LEMMA IndirectOnCourse ==
    ASSUME TypeOK, NEW s, IsState(s), s.rom = rom, Op = "JMP",
           NEW k \in 1 .. 6, Cycle = k, IndirectCourse(s, k)
    PROVE  /\ LowPhase /\ IndirectLow => IndirectCourse(s, k)'
           /\ HighPhase /\ IndirectHigh /\ (k < 5 => InMemorySpace(address))
                => IndirectCourse(s, k + 1)'
<1> DEFINE w == CodeWord(s)
           q == SecondCell(s)
<1>1. ASSUME LowPhase, IndirectLow
      PROVE  IndirectCourse(s, k)'
    <2>1. CASE k = 1
        <3>1. Fetching(s, 1)'
            BY <1>1, <2>1, FetchOperandOn DEF IndirectLow, IndirectCourse
        <3> QED
            BY <2>1, <3>1 DEF IndirectCourse
    <2>2. CASE k = 2
        <3>1. Fetching(s, 2) /\ cpu.adl = CodeByte(s, 1)
            BY <2>2 DEF IndirectCourse
        <3>2. Fetching(s, 2)' /\ LatchesStay
            BY <1>1, <2>2, <3>1, FetchOperandOn DEF IndirectLow
        <3> QED
            BY <2>2, <3>1, <3>2 DEF IndirectCourse, LatchesStay
    <2>3. CASE k = 3
        <3>1. Ready(s, 3, w) /\ cpu.adl = CodeByte(s, 1) /\ cpu.adh = CodeByte(s, 2)
            BY <2>3 DEF IndirectCourse
        <3>2. address' = w /\ cpu' = cpu /\ sram' = sram
            BY <1>1, <2>3, <3>1 DEF IndirectLow, Drive, LowPhase, Operand, CodeWord
        <3> QED
            BY <2>3, <3>1, <3>2 DEF IndirectCourse, Ready, Holds, Driving
    <2>4. CASE k = 4
        <3>1. Ready(s, 3, q) /\ cpu.add = Peek(s, w)
              /\ cpu.adl = CodeByte(s, 1) /\ cpu.adh = CodeByte(s, 2)
            BY <2>4 DEF IndirectCourse
        <3>2. address' = q /\ cpu' = cpu /\ sram' = sram
            BY <1>1, <2>4, <3>1
               DEF IndirectLow, Drive, LowPhase, OperandNext, Operand, SecondCell, CodeWord
        <3> QED
            BY <2>4, <3>1, <3>2 DEF IndirectCourse, Ready, Holds, Driving
    <2>5. CASE k > 4
        <3>1. Unseen
            BY <1>1, <2>5 DEF IndirectLow, Drive, Hold, LowPhase, Unseen
        <3> QED
            BY <2>5, <3>1 DEF IndirectCourse, Holds, Unseen
    <2> QED
        BY <2>1, <2>2, <2>3, <2>4, <2>5
<1>2. ASSUME HighPhase, IndirectHigh, k < 5 => InMemorySpace(address)
      PROVE  IndirectCourse(s, k + 1)'
    <2>1. CASE k = 1
        <3>1. Holds(Behind(s, 2), s.ram) /\ address = PCAfter(s, 1) /\ FetchTo("adl")
            BY <1>2, <2>1 DEF IndirectCourse, IndirectHigh, Fetching, HighPhase
        <3>2. Unseen /\ cpu'.adl = CodeByte(s, 1)
            BY <1>2, <2>1, <3>1, ReadsCell, FetchToUnseen DEF CodeByte, Holds
        <3> QED
            BY <1>2, <2>1, <3>1, <3>2 DEF IndirectCourse, Fetching, Holds, Unseen, HighPhase
    <2>2. CASE k = 2
        <3>1. /\ Holds(Behind(s, 3), s.ram) /\ address = PCAfter(s, 2) /\ FetchTo("adh")
              /\ cpu.adl = CodeByte(s, 1)
            BY <1>2, <2>2 DEF IndirectCourse, IndirectHigh, Fetching, HighPhase
        <3>2. Unseen /\ cpu'.adh = CodeByte(s, 2) /\ cpu'.adl = cpu.adl
            BY <1>2, <2>2, <3>1, ReadsCell, FetchToUnseen DEF CodeByte, Holds
        <3> QED
            BY <1>2, <2>2, <3>1, <3>2
               DEF IndirectCourse, Ready, Holds, Driving, Unseen, HighPhase
    <2>3. CASE k = 3
        <3>1. /\ Holds(Behind(s, 3), s.ram) /\ address = w /\ FetchTo("add")
              /\ cpu.adl = CodeByte(s, 1) /\ cpu.adh = CodeByte(s, 2)
            BY <1>2, <2>3 DEF IndirectCourse, IndirectHigh, Ready, Driving, HighPhase
        <3>2. /\ Unseen /\ cpu'.add = Peek(s, w)
              /\ cpu'.adl = cpu.adl /\ cpu'.adh = cpu.adh
            BY <1>2, <2>3, <3>1, ReadsCell, FetchToUnseen DEF Holds
        <3> QED
            BY <1>2, <2>3, <3>1, <3>2
               DEF IndirectCourse, Ready, Holds, Driving, Unseen, HighPhase
    <2>4. CASE k = 4
        <3>1. Holds(Behind(s, 3), s.ram) /\ address = q /\ cpu.add = Peek(s, w)
            BY <1>2, <2>4 DEF IndirectCourse, Ready, Driving, HighPhase
        <3>2. ReadBytes = {Peek(s, q)} /\ Peek(s, q) \in Byte /\ Peek(s, w) \in Byte
            BY <1>2, <2>4, <3>1, ReadsCell, CellType DEF Holds
        <3> DEFINE target == Join(Peek(s, q), Peek(s, w))
        <3>3. Step([cpu EXCEPT !.pc = target]) /\ sram' = sram
            BY <1>2, <2>4, <3>1, <3>2 DEF IndirectHigh, FetchByte
        <3>4. target \in Word
            BY <3>2, JoinType
        <3>5. Architectural(cpu') = [s.regs EXCEPT !.pc = target]
            BY <3>1, <3>3, <3>4, JumpFrom DEF Holds
        <3> QED
            BY <2>4, <3>1, <3>3, <3>5 DEF IndirectCourse, Holds
    <2>5. CASE k > 4
        <3>1. Unseen
            BY <1>2, <2>5, IdleUnseen DEF IndirectHigh
        <3> QED
            BY <2>5, <3>1 DEF IndirectCourse, Holds, Unseen
    <2> QED
        BY <2>1, <2>2, <2>3, <2>4, <2>5
<1> QED
    BY <1>1, <1>2

(* The program counter moved on and a byte latched, in one cycle.                      *)
LEMMA AdvanceLatchShows ==
    ASSUME TypeOK, NEW s, IsState(s), NEW n \in 0 .. 2, Architectural(cpu) = Behind(s, n),
           NEW v \in Byte, Step([AdvancePC(cpu) EXCEPT !.adl = v])
    PROVE  Architectural(cpu') = Behind(s, n + 1) /\ cpu'.adl = v
<1> DEFINE w == PCAfter(s, n + 1)
           c == [cpu EXCEPT !.pc = w]
<1>1. cpu \in Registers /\ Same(cpu, Behind(s, n)) /\ Behind(s, n) \in File
    BY BehindFields, FileShows DEF TypeOK
<1>2. U16(cpu.pc + 1) = w /\ w \in Word
    BY Shown, BehindFields, PCSteps
<1> HIDE DEF w
<1>3. AdvancePC(cpu) = c
    BY <1>2 DEF AdvancePC
<1>4. c \in Registers
    BY <1>1, <1>2 DEF Registers
<1>5. Same(c, [Behind(s, n) EXCEPT !.pc = w])
    BY <1>1, <1>2, UpdatesSame
<1>6. [Behind(s, n) EXCEPT !.pc = w] = Behind(s, n + 1) /\ Behind(s, n + 1) \in File
    BY PCSteps, BehindFields DEF w
<1> HIDE DEF c
<1>7. Same([c EXCEPT !.adl = v], Behind(s, n + 1)) /\ [c EXCEPT !.adl = v] \in Registers
    BY <1>4, <1>5, <1>6, LatchesSame
<1>8. [c EXCEPT !.adl = v].adl = v
    BY <1>4 DEF Registers
<1>9. Step([c EXCEPT !.adl = v])
    BY <1>3
<1> QED
    BY <1>6, <1>7, <1>8, <1>9, StepShows

(* The branches keep to their course.                                                  *)
LEMMA RelativeOnCourse ==
    ASSUME TypeOK, NEW s, IsState(s), s.rom = rom, NEW op \in Branches, Op = op,
           NEW k \in 1 .. 6, Cycle = k, RelativeCourse(s, op, k)
    PROVE  /\ LowPhase /\ RelativeLow => RelativeCourse(s, op, k)'
           /\ HighPhase /\ RelativeHigh /\ (k = 1 => InMemorySpace(address))
                => RelativeCourse(s, op, k + 1)'
<1>1. ASSUME LowPhase, RelativeLow
      PROVE  RelativeCourse(s, op, k)'
    <2>1. address' = cpu.pc /\ cpu' = cpu /\ sram' = sram
        BY <1>1 DEF RelativeLow, Drive, LowPhase
    <2>2. CASE k = 1
        <3>1. Holds(Behind(s, 1), s.ram)
            BY <2>2 DEF RelativeCourse, Ready
        <3>2. address' = PCAfter(s, 1)
            BY <2>1, <3>1, Shown, BehindFields DEF Holds
        <3> QED
            BY <2>1, <2>2, <3>1, <3>2 DEF RelativeCourse, Ready, Holds, Driving
    <2>3. CASE k > 1
        BY <2>1, <2>3 DEF RelativeCourse, Holds
    <2> QED
        BY <2>2, <2>3
<1>2. ASSUME HighPhase, RelativeHigh, k = 1 => InMemorySpace(address)
      PROVE  RelativeCourse(s, op, k + 1)'
    <2>1. CASE k = 1
        <3>1. Holds(Behind(s, 1), s.ram) /\ address = PCAfter(s, 1)
            BY <1>2, <2>1 DEF RelativeCourse, Ready, Driving, HighPhase
        <3>2. ReadBytes = {CodeByte(s, 1)} /\ CodeByte(s, 1) \in Byte
            BY <1>2, <2>1, <3>1, ReadsCell DEF CodeByte, Holds
        <3>3. Step([AdvancePC(cpu) EXCEPT !.adl = CodeByte(s, 1)]) /\ sram' = sram
            BY <1>2, <2>1, <3>2 DEF RelativeHigh, FetchByte
        <3>4. Architectural(cpu') = Behind(s, 2) /\ cpu'.adl = CodeByte(s, 1)
            BY <3>1, <3>2, <3>3, AdvanceLatchShows DEF Holds
        <3> QED
            BY <2>1, <3>1, <3>3, <3>4 DEF RelativeCourse, Holds
    <2>2. CASE k = 2
        <3>1. Architectural(cpu) = Behind(s, 2) /\ sram = s.ram /\ cpu.adl = CodeByte(s, 1)
            BY <2>2 DEF RelativeCourse, Holds
        <3>2. cpu.pc = PCAfter(s, 2) /\ cpu.status = s.regs.status
            BY <3>1, Shown, BehindFields
        <3>3. BranchTaken <=> Taken(op, s.regs.status)
            BY <3>2 DEF BranchTaken, Taken
        <3>4. CASE Taken(op, s.regs.status)
            <4> DEFINE w == U16(PCAfter(s, 2) + Signed(CodeByte(s, 1)))
            <4>1. w \in Word
                <5>1. PCAfter(s, 2) \in Int /\ CodeByte(s, 1) \in Int
                    BY BehindFields, CodeTypes, ByteMember, WordMember
                <5> QED
                    BY <5>1, NarrowType DEF Signed
            <4>2. Step([cpu EXCEPT !.pc = w]) /\ sram' = sram
                BY <1>2, <2>2, <3>1, <3>2, <3>3, <3>4 DEF RelativeHigh, NoTransfer
            <4>3. Architectural(cpu') = [s.regs EXCEPT !.pc = w]
                BY <3>1, <4>1, <4>2, JumpFrom
            <4> QED
                BY <2>2, <3>1, <3>4, <4>2, <4>3 DEF RelativeCourse, Holds
        <3>5. CASE ~Taken(op, s.regs.status)
            <4>1. Unseen
                BY <1>2, <2>2, <3>3, <3>5, IdleUnseen DEF RelativeHigh
            <4>2. Behind(s, 2) = [s.regs EXCEPT !.pc = PCAfter(s, 2)]
                BY DEF Behind
            <4> QED
                BY <2>2, <3>1, <3>5, <4>1, <4>2 DEF RelativeCourse, Holds, Unseen
        <3> QED
            BY <3>4, <3>5
    <2>3. CASE k > 2
        <3>1. Unseen
            BY <1>2, <2>3, IdleUnseen DEF RelativeHigh
        <3> QED
            BY <2>3, <3>1 DEF RelativeCourse, Holds, Unseen
    <2> QED
        BY <2>1, <2>2, <2>3
<1> QED
    BY <1>1, <1>2

-----------------------------------------------------------------------------------
(* The stack pointer and its slots.                                                    *)
LEMMA MovedSteps ==
    ASSUME NEW s, IsState(s), NEW n \in -3 .. 3
    PROVE  /\ Moved(s, n) \in Byte
           /\ U8(Moved(s, n) + 1) = Moved(s, n + 1)
           /\ U8(Moved(s, n) - 1) = Moved(s, n - 1)
           /\ Moved(s, 0) = s.regs.sp
<1>1. s.regs.sp \in Int /\ 0 <= s.regs.sp /\ s.regs.sp <= 255
    BY ByteMember DEF IsState, File
<1>2. Moved(s, n) \in Byte
    BY <1>1, NarrowType DEF Moved
<1>3. U8(Moved(s, n) + 1) = Moved(s, n + 1)
    BY <1>1 DEF Moved, U8
<1>4. U8(Moved(s, n) - 1) = Moved(s, n - 1)
    BY <1>1 DEF Moved, U8
<1>5. Moved(s, 0) = s.regs.sp
    BY <1>1 DEF Moved, U8
<1> QED
    BY <1>2, <1>3, <1>4, <1>5

(* The program counter and the stack pointer moved, and nothing else.                  *)
LEMMA WithPCFields ==
    ASSUME NEW s, IsState(s), NEW w \in Word, NEW n \in -3 .. 3
    PROVE  /\ WithPC(s, w, n) \in File
           /\ WithPC(s, w, n).pc = w /\ WithPC(s, w, n).sp = Moved(s, n)
           /\ WithPC(s, w, n).a = s.regs.a /\ WithPC(s, w, n).x = s.regs.x
           /\ WithPC(s, w, n).y = s.regs.y /\ WithPC(s, w, n).status = s.regs.status
BY MovedSteps DEF WithPC, IsState, File

(* One step of the stack pointer, or a jump, from registers given by WithPC.          *)
LEMMA WithPCSteps ==
    ASSUME NEW s, IsState(s), NEW w \in Word, NEW n \in -2 .. 2
    PROVE  /\ [WithPC(s, w, n) EXCEPT !.sp = Moved(s, n - 1)] = WithPC(s, w, n - 1)
           /\ [WithPC(s, w, n) EXCEPT !.sp = Moved(s, n + 1)] = WithPC(s, w, n + 1)
           /\ \A v \in Word : [WithPC(s, w, n) EXCEPT !.pc = v] = WithPC(s, v, n)
           /\ [s.regs EXCEPT !.pc = w] = WithPC(s, w, 0)
<1> DEFINE d == WithPC(s, w, n)
<1>1. /\ d \in File /\ d.pc = w /\ d.sp = Moved(s, n) /\ d.a = s.regs.a /\ d.x = s.regs.x
      /\ d.y = s.regs.y /\ d.status = s.regs.status
      /\ Moved(s, n - 1) \in Byte /\ Moved(s, n + 1) \in Byte
    BY WithPCFields, MovedSteps
<1> HIDE DEF d
<1>2. ASSUME NEW i \in {n - 1, n + 1}
      PROVE  [d EXCEPT !.sp = Moved(s, i)] = WithPC(s, w, i)
    <2> DEFINE q == Moved(s, i)
               e == [d EXCEPT !.sp = q]
    <2>1. q \in Byte /\ i \in -3 .. 3
        BY <1>1
    <2> HIDE DEF q
    <2>2. /\ e \in File /\ e.pc = w /\ e.sp = q /\ e.a = s.regs.a /\ e.x = s.regs.x
          /\ e.y = s.regs.y /\ e.status = s.regs.status
        BY <1>1, <2>1 DEF File
    <2> HIDE DEF e
    <2>3. e = WithPC(s, w, i)
        BY <2>1, <2>2, WithPCFields, FileEqual, SameFields DEF q
    <2> QED
        BY <2>3 DEF e, q
<1>3. [d EXCEPT !.sp = Moved(s, n - 1)] = WithPC(s, w, n - 1)
    BY <1>2
<1>4. [d EXCEPT !.sp = Moved(s, n + 1)] = WithPC(s, w, n + 1)
    BY <1>2
<1>5. ASSUME NEW v \in Word
      PROVE  [d EXCEPT !.pc = v] = WithPC(s, v, n)
    <2> DEFINE e == [d EXCEPT !.pc = v]
    <2>1. /\ e \in File /\ e.pc = v /\ e.sp = Moved(s, n) /\ e.a = s.regs.a /\ e.x = s.regs.x
          /\ e.y = s.regs.y /\ e.status = s.regs.status
        BY <1>1 DEF File
    <2> HIDE DEF e
    <2>2. e = WithPC(s, v, n)
        BY <2>1, WithPCFields, FileEqual, SameFields
    <2> QED
        BY <2>2 DEF e
<1>6. [s.regs EXCEPT !.pc = w] = WithPC(s, w, 0)
    <2> DEFINE e == [s.regs EXCEPT !.pc = w]
    <2>1. /\ e \in File /\ e.pc = w /\ e.sp = s.regs.sp /\ e.a = s.regs.a /\ e.x = s.regs.x
          /\ e.y = s.regs.y /\ e.status = s.regs.status
        BY DEF File, IsState
    <2> HIDE DEF e
    <2>2. e = WithPC(s, w, 0)
        BY <2>1, MovedSteps, WithPCFields, FileEqual, SameFields
    <2> QED
        BY <2>2 DEF e
<1> QED
    BY <1>3, <1>4, <1>5, <1>6 DEF d

(* A push, from n bytes up or down the stack.                                          *)
LEMMA PushFrom ==
    ASSUME TypeOK, NEW s, IsState(s), NEW w \in Word, NEW n \in -2 .. 0,
           Architectural(cpu) = WithPC(s, w, n), NEW v \in Byte, Push(v)
    PROVE  /\ Architectural(cpu') = WithPC(s, w, n - 1)
           /\ sram' = AfterWrite(sram, address, v)
           /\ LatchesStay
<1>1. U8(cpu.sp - 1) = Moved(s, n - 1)
    BY Shown, WithPCFields, MovedSteps
<1>2. Architectural(cpu') = [WithPC(s, w, n) EXCEPT !.sp = Moved(s, n - 1)]
    BY <1>1, PushShows
<1> QED
    BY <1>2, WithPCSteps, PushShows

(* The stack pointer moved up by one, and a byte put into a latch or the status byte.  *)
PopToLatch(v)  == Step([PopNext EXCEPT !.adl = v])
PopToStatus(v) == Step([PopNext EXCEPT !.status = v])

IsPopped(e, d) == e = [d EXCEPT !.sp = U8(d.sp + 1)]

(* The three ways of a pull: nothing, into the latch, into the status register.       *)
LEMMA PopShows ==
    ASSUME TypeOK, NEW d \in File, Architectural(cpu) = d, NEW e, IsPopped(e, d),
           NEW v \in Byte
    PROVE  /\ Step(PopNext) => Architectural(cpu') = e /\ LatchesStay
           /\ PopToLatch(v) => Architectural(cpu') = e /\ cpu'.adl = v
           /\ PopToStatus(v) => Architectural(cpu') = WithStatus(e, v)
<1> DEFINE q == U8(d.sp + 1)
<1>0. e = [d EXCEPT !.sp = q]
    BY DEF IsPopped
<1> DEFINE c == [cpu EXCEPT !.sp = q]
<1>1. cpu \in Registers /\ Same(cpu, d) /\ q \in Byte /\ 0 \in Word
    <2>1. d.sp \in Int
        BY ByteMember DEF File
    <2> QED
        BY <2>1, FileShows, NarrowType, WordMember DEF TypeOK
<1>2. PopNext = c
    BY Shown DEF PopNext
<1>3. c \in Registers /\ c.adl = cpu.adl /\ c.adh = cpu.adh /\ c.add = cpu.add
    BY <1>1 DEF Registers
<1>4. Same(c, e) /\ e \in File
    BY <1>0, <1>1, UpdatesSame
<1> HIDE DEF c, q
<1>5. Step(c) => Architectural(cpu') = e /\ LatchesStay
    BY <1>3, <1>4, StepShows DEF LatchesStay
<1>6. Step([c EXCEPT !.adl = v]) => Architectural(cpu') = e /\ cpu'.adl = v
    <2>1. Same([c EXCEPT !.adl = v], e) /\ [c EXCEPT !.adl = v] \in Registers
        BY <1>3, <1>4, LatchesSame
    <2>2. [c EXCEPT !.adl = v].adl = v
        BY <1>3 DEF Registers
    <2> QED
        BY <1>4, <2>1, <2>2, StepShows
<1>7. Step([c EXCEPT !.status = v]) => Architectural(cpu') = [e EXCEPT !.status = v]
    <2>1. /\ Same([c EXCEPT !.status = v], [e EXCEPT !.status = v])
          /\ [c EXCEPT !.status = v] \in Registers /\ [e EXCEPT !.status = v] \in File
        BY <1>3, <1>4, StatusSame
    <2> QED
        BY <2>1, StepShows
<1> QED
    BY <1>2, <1>5, <1>6, <1>7, Zenon DEF PopToLatch, PopToStatus, WithStatus

-----------------------------------------------------------------------------------
(* The address the stack's handlers drive is the slot of the stack pointer.           *)
LEMMA StackTopAt ==
    ASSUME NEW s, NEW n, cpu.sp = Moved(s, n)
    PROVE  StackTop = SlotAt(s, n)
BY DEF StackTop, SlotAt

(* Behind n bytes of the instruction, with the stack pointer unmoved.                 *)
LEMMA BehindIsWithPC ==
    ASSUME NEW s, IsState(s), NEW n \in 0 .. 3
    PROVE  Behind(s, n) = WithPC(s, PCAfter(s, n), 0)
<1>1. PCAfter(s, n) \in Word /\ 0 \in -2 .. 2
    BY BehindFields
<1>2. [s.regs EXCEPT !.pc = PCAfter(s, n)] = WithPC(s, PCAfter(s, n), 0)
    BY <1>1, WithPCSteps
<1> QED
    BY <1>2 DEF Behind

(* Cycle 1 of the instructions that use the stack does nothing.                        *)
LEMMA QuietStart ==
    ASSUME TypeOK, NEW op \in StackOps, Op = op, Cycle = 1, ImpliedHigh
    PROVE  Unseen /\ LatchesStay
<1>1. RegisterResult(op, cpu) = cpu
    BY DEF RegisterResult, StackOps
<1>2. Idle
    BY <1>1 DEF ImpliedHigh, RegisterOperation, Idle
<1> QED
    BY <1>2, IdleUnseen

(* A byte read while the SRAM is f.                                                    *)
LEMMA ReadsCellOf ==
    ASSUME TypeOK, NEW s, IsState(s), s.rom = rom, NEW f, sram = f, InMemorySpace(address),
           NEW a, address = a
    PROVE  /\ ReadBytes = {Peek([s EXCEPT !.ram = f], a)}
           /\ Peek([s EXCEPT !.ram = f], a) \in Byte
<1> DEFINE r == [s EXCEPT !.ram = f]
<1>1. IsState(r) /\ r.ram = sram /\ r.rom = rom
    <2>1. IsMemory(f, SRAMAddresses)
        BY DEF TypeOK, BusTypeOK
    <2>2. r.regs = s.regs /\ r.ram = f /\ r.rom = s.rom
          /\ r = [regs |-> s.regs, ram |-> f, rom |-> s.rom]
        BY DEF IsState
    <2> QED
        BY <2>1, <2>2 DEF IsState
<1> HIDE DEF r
<1>2. ReadBytes = {Peek(r, a)} /\ Peek(r, a) \in Byte
    BY <1>1, ReadsCell
<1> QED
    BY <1>2 DEF r

(* What the EEPROM holds does not depend on the SRAM.                                  *)
LEMMA CellInEEPROM ==
    ASSUME NEW s, IsState(s), NEW f, NEW a \in Int, a >= 32768
    PROVE  Peek([s EXCEPT !.ram = f], a) = Peek(s, a)
BY DEF Peek, EEPROM_FIRST, IsState

-----------------------------------------------------------------------------------
(* PHA and PHP keep to their course.                                                   *)
LEMMA PushOnCourse ==
    ASSUME TypeOK, NEW s, IsState(s), NEW op \in {"PHA", "PHP"}, Op = op,
           NEW k \in 1 .. 6, Cycle = k, PushCourse(s, op, k)
    PROVE  /\ LowPhase /\ ImpliedLow => PushCourse(s, op, k)'
           /\ HighPhase /\ ImpliedHigh => PushCourse(s, op, k + 1)'
<1> DEFINE w == PCAfter(s, 1)
           b == IF op = "PHA" THEN s.regs.a ELSE s.regs.status
<1>1. w \in Word /\ Behind(s, 1) = WithPC(s, w, 0) /\ op \in StackOps /\ b \in Byte
    BY BehindFields, BehindIsWithPC DEF StackOps, IsState, File
<1> HIDE DEF w
<1>2. ASSUME LowPhase, ImpliedLow
      PROVE  PushCourse(s, op, k)'
    <2>1. Unseen
        BY <1>2, ImpliedLowUnseen
    <2>2. CASE k = 2
        <3>1. Holds(Behind(s, 1), s.ram)
            BY <2>2 DEF PushCourse, Ready
        <3>2. cpu.sp = Moved(s, 0)
            BY <1>1, <3>1, Shown, WithPCFields DEF Holds
        <3>3. address' = SlotAt(s, 0)
            BY <1>2, <2>2, <3>2, StackTopAt DEF ImpliedLow, Drive
        <3> QED
            BY <2>1, <2>2, <3>1, <3>3 DEF PushCourse, Ready, Holds, Driving, Unseen
    <2>3. CASE k # 2
        BY <2>1, <2>3 DEF PushCourse, Holds, Unseen
    <2> QED
        BY <2>2, <2>3
<1>3. ASSUME HighPhase, ImpliedHigh
      PROVE  PushCourse(s, op, k + 1)'
    <2>1. CASE k = 1
        <3>1. Unseen
            BY <1>1, <1>3, <2>1, QuietStart
        <3> QED
            BY <1>3, <2>1, <3>1 DEF PushCourse, Ready, Holds, Unseen, Driving, HighPhase
    <2>2. CASE k = 2
        <3>1. Architectural(cpu) = WithPC(s, w, 0) /\ sram = s.ram /\ address = SlotAt(s, 0)
            BY <1>1, <1>3, <2>2 DEF PushCourse, Ready, Holds, Driving, HighPhase
        <3>2. cpu.a = s.regs.a /\ cpu.status = s.regs.status
            BY <1>1, <3>1, Shown, WithPCFields
        <3>3. PushSequence
            BY <1>3, <2>2, ImpliedHandler
        <3>4. Push(b)
            BY <2>2, <3>2, <3>3 DEF PushSequence
        <3> HIDE DEF b
        <3>5. Architectural(cpu') = WithPC(s, w, -1) /\ sram' = AfterWrite(s.ram, SlotAt(s, 0), b)
            <4>1. Architectural(cpu') = WithPC(s, w, 0 - 1) /\ sram' = AfterWrite(sram, address, b)
                BY <1>1, <3>1, <3>4, PushFrom
            <4> QED
                BY <3>1, <4>1
        <3> QED
            BY <2>2, <3>5 DEF PushCourse, Holds, w, b
    <2>3. CASE k > 2
        <3>1. PushSequence
            BY <1>3, <2>3, ImpliedHandler
        <3>2. Unseen
            BY <2>3, <3>1, IdleUnseen DEF PushSequence
        <3> QED
            BY <2>3, <3>2 DEF PushCourse, Holds, Unseen
    <2> QED
        BY <2>1, <2>2, <2>3
<1> QED
    BY <1>2, <1>3

(* The first pull of PLA, PLP, RTS and RTI: the stack pointer moves up.                *)
LEMMA PopFirst ==
    ASSUME TypeOK, NEW s, IsState(s), Architectural(cpu) = Behind(s, 1),
           NoTransfer, Step(PopNext)
    PROVE  Architectural(cpu') = WithPC(s, PCAfter(s, 1), 1) /\ sram' = sram
<1> DEFINE w == PCAfter(s, 1)
           d == WithPC(s, w, 0)
<1>1. w \in Word /\ Behind(s, 1) = d
    BY BehindFields, BehindIsWithPC
<1> HIDE DEF w
<1>2. d \in File /\ U8(d.sp + 1) = Moved(s, 1)
    <2>1. U8(Moved(s, 0) + 1) = Moved(s, 0 + 1)
        BY MovedSteps
    <2> QED
        BY <1>1, <2>1, WithPCFields
<1>3. [d EXCEPT !.sp = Moved(s, 1)] = WithPC(s, w, 1)
    <2>1. [d EXCEPT !.sp = Moved(s, 0 + 1)] = WithPC(s, w, 0 + 1)
        BY <1>1, WithPCSteps
    <2> QED
        BY <2>1
<1>4. 0 \in Byte
    BY ByteMember
<1> DEFINE e == WithPC(s, w, 1)
<1>5. IsPopped(e, d)
    BY <1>2, <1>3 DEF IsPopped
<1> HIDE DEF d, e
<1>6. Architectural(cpu') = e
    BY <1>1, <1>2, <1>4, <1>5, PopShows
<1> QED
    BY <1>6 DEF NoTransfer, w, e

(* PLA and PLP keep to their course.                                                   *)
LEMMA PullOnCourse ==
    ASSUME TypeOK, NEW s, IsState(s), s.rom = rom, NEW op \in {"PLA", "PLP"}, Op = op,
           NEW k \in 1 .. 6, Cycle = k, PullCourse(s, op, k)
    PROVE  /\ LowPhase /\ ImpliedLow => PullCourse(s, op, k)'
           /\ HighPhase /\ ImpliedHigh /\ (k = 3 => InMemorySpace(address))
                => PullCourse(s, op, k + 1)'
<1> DEFINE w == PCAfter(s, 1)
           popped == WithPC(s, w, 1)
           m == Peek(s, SlotAt(s, 1))
<1>1. /\ w \in Word /\ op \in StackOps /\ popped \in File /\ popped.sp = Moved(s, 1)
      /\ m \in Byte
    BY BehindFields, WithPCFields, CellType DEF StackOps
<1>2. ASSUME LowPhase, ImpliedLow
      PROVE  PullCourse(s, op, k)'
    <2>1. Unseen
        BY <1>2, ImpliedLowUnseen
    <2>2. CASE k = 3
        <3>1. Holds(popped, s.ram)
            BY <2>2 DEF PullCourse
        <3>2. cpu.sp = Moved(s, 1)
            BY <1>1, <3>1, Shown DEF Holds
        <3>3. address' = SlotAt(s, 1)
            BY <1>2, <2>2, <3>2, StackTopAt DEF ImpliedLow, Drive
        <3> QED
            BY <2>1, <2>2, <3>1, <3>3 DEF PullCourse, Holds, Driving, Unseen
    <2>3. CASE k # 3
        BY <2>1, <2>3 DEF PullCourse, Holds, Unseen
    <2> QED
        BY <2>2, <2>3
<1>3. ASSUME HighPhase, ImpliedHigh, k = 3 => InMemorySpace(address)
      PROVE  PullCourse(s, op, k + 1)'
    <2>1. CASE k = 1
        <3>1. Unseen
            BY <1>1, <1>3, <2>1, QuietStart
        <3> QED
            BY <2>1, <3>1 DEF PullCourse, Holds, Unseen
    <2>2. CASE k = 2
        <3>1. Architectural(cpu) = Behind(s, 1) /\ sram = s.ram
            BY <2>2 DEF PullCourse, Holds
        <3>2. NoTransfer /\ Step(PopNext)
            <4>1. PullSequence
                BY <1>3, <2>2, ImpliedHandler
            <4> QED
                BY <2>2, <4>1 DEF PullSequence
        <3>3. Architectural(cpu') = popped /\ sram' = sram
            BY <3>1, <3>2, PopFirst
        <3> QED
            BY <1>3, <2>2, <3>1, <3>3 DEF PullCourse, Holds, Driving, HighPhase
    <2>3. CASE k = 3
        <3>1. Architectural(cpu) = popped /\ sram = s.ram /\ address = SlotAt(s, 1)
            BY <1>3, <2>3 DEF PullCourse, Holds, Driving, HighPhase
        <3>2. ReadBytes = {m}
            BY <1>3, <2>3, <3>1, ReadsCell
        <3>3. PullSequence
            BY <1>3, <2>3, ImpliedHandler
        <3>4. cpu \in Registers /\ Same(cpu, popped)
            BY <1>1, <3>1, FileShows DEF TypeOK
        <3> HIDE DEF popped, m
        <3>5. CASE op = "PLA"
            <4>1. Step(SetA(cpu, m)) /\ sram' = sram
                BY <2>3, <3>2, <3>3, <3>5 DEF PullSequence, FetchByte
            <4>2. SetA(cpu, m) \in Registers
                BY <1>1, LeavesCPU, LeavesSet DEF Leaves
            <4>3. Architectural(cpu') = SetA(popped, m)
                BY <1>1, <3>4, <4>1, <4>2, SetSame, SetFields, StepShows
            <4> QED
                BY <2>3, <3>1, <3>5, <4>1, <4>3 DEF PullCourse, AfterPull, Holds, popped, m
        <3>6. CASE op = "PLP"
            <4> DEFINE p == Put(m, BREAK, FALSE)
            <4>1. Step([cpu EXCEPT !.status = p]) /\ sram' = sram
                BY <2>3, <3>2, <3>3, <3>6 DEF PullSequence, FetchByte
            <4>2. p \in Byte
                BY PutType
            <4> HIDE DEF p
            <4>3. Architectural(cpu') = [popped EXCEPT !.status = p]
                BY <1>1, <3>4, <4>1, <4>2, StatusSame, StepShows
            <4> QED
                BY <2>3, <3>1, <3>6, <4>1, <4>3
                DEF PullCourse, AfterPull, WithStatus, Holds, popped, m, p
        <3> QED
            BY <3>5, <3>6
    <2>4. CASE k > 3
        <3>1. PullSequence
            BY <1>3, <2>4, ImpliedHandler
        <3>2. Cycle # 2 /\ Cycle # 3
            BY <2>4
        <3>3. Idle
            BY <3>1, <3>2, Zenon DEF PullSequence
        <3>4. Unseen
            BY <3>3, IdleUnseen
        <3> QED
            BY <2>4, <3>4 DEF PullCourse, Holds, Unseen
    <2> QED
        BY <2>1, <2>2, <2>3, <2>4
<1> QED
    BY <1>2, <1>3

(* The stack pointer moved up by one while the program counter stands at w.            *)
LEMMA PopFrom ==
    ASSUME TypeOK, NEW s, IsState(s), NEW w \in Word, NEW n \in 0 .. 2,
           Architectural(cpu) = WithPC(s, w, n), NEW v \in Byte
    PROVE  /\ PopToLatch(v) => Architectural(cpu') = WithPC(s, w, n + 1) /\ cpu'.adl = v
           /\ PopToStatus(v) => Architectural(cpu') = WithStatus(WithPC(s, w, n + 1), v)
<1> DEFINE d == WithPC(s, w, n)
           e == WithPC(s, w, n + 1)
<1>1. d \in File /\ U8(d.sp + 1) = Moved(s, n + 1)
    BY WithPCFields, MovedSteps
<1>2. IsPopped(e, d)
    BY <1>1, WithPCSteps DEF IsPopped
<1>3. Architectural(cpu) = d
    OBVIOUS
<1> HIDE DEF d, e
<1>4. PopToLatch(v) => Architectural(cpu') = e /\ cpu'.adl = v
    BY <1>1, <1>2, <1>3, PopShows
<1>5. PopToStatus(v) => Architectural(cpu') = WithStatus(e, v)
    BY <1>1, <1>2, <1>3, PopShows
<1> QED
    BY <1>4, <1>5 DEF e

(* A jump with the stack pointer n bytes up or down.                                   *)
LEMMA JumpWith ==
    ASSUME TypeOK, NEW s, IsState(s), NEW w \in Word, NEW n \in -2 .. 2,
           Architectural(cpu) = WithPC(s, w, n),
           NEW v \in Word, Step([cpu EXCEPT !.pc = v])
    PROVE  Architectural(cpu') = WithPC(s, v, n) /\ LatchesStay
<1>1. Architectural(cpu') = [WithPC(s, w, n) EXCEPT !.pc = v] /\ LatchesStay
    BY JumpShows
<1> QED
    BY <1>1, WithPCSteps

(* RTS keeps to its course.                                                            *)
LEMMA ReturnOnCourse ==
    ASSUME TypeOK, NEW s, IsState(s), s.rom = rom, Op = "RTS",
           NEW k \in 1 .. 6, Cycle = k, ReturnCourse(s, k)
    PROVE  /\ LowPhase /\ ImpliedLow => ReturnCourse(s, k)'
           /\ HighPhase /\ ImpliedHigh /\ (k \in 3 .. 4 => InMemorySpace(address))
                => ReturnCourse(s, k + 1)'
<1> DEFINE w == PCAfter(s, 1)
           m1 == Peek(s, SlotAt(s, 1))
           m2 == Peek(s, SlotAt(s, 2))
           target == Join(m2, m1)
<1>1. w \in Word /\ Op \in StackOps /\ m1 \in Byte /\ m2 \in Byte /\ target \in Word
    BY BehindFields, CellType, JoinType DEF StackOps
<1>2. ASSUME LowPhase, ImpliedLow
      PROVE  ReturnCourse(s, k)'
    <2>1. Unseen /\ LatchesStay
        BY <1>2, ImpliedLowUnseen
    <2>2. CASE k = 3
        <3>1. Holds(WithPC(s, w, 1), s.ram)
            BY <2>2 DEF ReturnCourse
        <3>2. cpu.sp = Moved(s, 1)
            BY <1>1, <3>1, Shown, WithPCFields DEF Holds
        <3>3. address' = SlotAt(s, 1)
            BY <1>2, <2>2, <3>2, StackTopAt DEF ImpliedLow, Drive
        <3> QED
            BY <2>1, <2>2, <3>1, <3>3 DEF ReturnCourse, Holds, Driving, Unseen
    <2>3. CASE k = 4
        <3>1. Holds(WithPC(s, w, 2), s.ram) /\ cpu.adl = m1
            BY <2>3 DEF ReturnCourse
        <3>2. cpu.sp = Moved(s, 2)
            BY <1>1, <3>1, Shown, WithPCFields DEF Holds
        <3>3. address' = SlotAt(s, 2)
            BY <1>2, <2>3, <3>2, StackTopAt DEF ImpliedLow, Drive
        <3> QED
            BY <2>1, <2>3, <3>1, <3>3 DEF ReturnCourse, Holds, Driving, Unseen, LatchesStay
    <2>4. CASE k # 3 /\ k # 4
        BY <2>1, <2>4 DEF ReturnCourse, Holds, Unseen
    <2> QED
        BY <2>2, <2>3, <2>4
<1>3. ASSUME HighPhase, ImpliedHigh, k \in 3 .. 4 => InMemorySpace(address)
      PROVE  ReturnCourse(s, k + 1)'
    <2>0. k > 1 => ReturnSequence
        BY <1>3, ImpliedHandler
    <2>1. CASE k = 1
        <3>1. Unseen
            BY <1>1, <1>3, <2>1, QuietStart
        <3> QED
            BY <2>1, <3>1 DEF ReturnCourse, Holds, Unseen
    <2>2. CASE k = 2
        <3>1. Architectural(cpu) = Behind(s, 1) /\ sram = s.ram
            BY <2>2 DEF ReturnCourse, Holds
        <3>2. NoTransfer /\ Step(PopNext)
            BY <2>0, <2>2 DEF ReturnSequence
        <3>3. Architectural(cpu') = WithPC(s, w, 1) /\ sram' = sram
            BY <3>1, <3>2, PopFirst
        <3> QED
            BY <1>3, <2>2, <3>1, <3>3 DEF ReturnCourse, Holds, Driving, HighPhase
    <2>3. CASE k = 3
        <3>1. Architectural(cpu) = WithPC(s, w, 1) /\ sram = s.ram /\ address = SlotAt(s, 1)
            BY <1>3, <2>3 DEF ReturnCourse, Holds, Driving, HighPhase
        <3>2. ReadBytes = {m1}
            BY <1>3, <2>3, <3>1, ReadsCell
        <3>3. PopToLatch(m1) /\ sram' = sram
            BY <2>0, <2>3, <3>2 DEF ReturnSequence, FetchByte, PopToLatch
        <3>4. Architectural(cpu') = WithPC(s, w, 2) /\ cpu'.adl = m1
            <4> HIDE DEF w, m1
            <4>0. 1 \in 0 .. 2
                OBVIOUS
            <4>1. Architectural(cpu') = WithPC(s, w, 1 + 1) /\ cpu'.adl = m1
                BY <1>1, <3>1, <3>3, <4>0, PopFrom
            <4> QED
                BY <4>1
        <3> QED
            BY <1>3, <2>3, <3>1, <3>3, <3>4 DEF ReturnCourse, Holds, Driving, HighPhase
    <2>4. CASE k = 4
        <3>1. /\ Architectural(cpu) = WithPC(s, w, 2) /\ sram = s.ram
              /\ address = SlotAt(s, 2) /\ cpu.adl = m1
            BY <1>3, <2>4 DEF ReturnCourse, Holds, Driving, HighPhase
        <3>2. ReadBytes = {m2}
            BY <1>3, <2>4, <3>1, ReadsCell
        <3>3. Step([cpu EXCEPT !.pc = target]) /\ sram' = sram
            BY <2>0, <2>4, <3>1, <3>2 DEF ReturnSequence, FetchByte
        <3>4. Architectural(cpu') = WithPC(s, target, 2)
            BY <1>1, <3>1, <3>3, JumpWith
        <3> QED
            BY <2>4, <3>1, <3>3, <3>4 DEF ReturnCourse, Holds
    <2>5. CASE k = 5
        <3>1. Architectural(cpu) = WithPC(s, target, 2) /\ sram = s.ram
            BY <2>5 DEF ReturnCourse, Holds
        <3> DEFINE next == U16(target + 1)
        <3>2. next \in Word /\ cpu.pc = target
            BY <1>1, <3>1, Shown, WithPCFields, WordMember, NarrowType
        <3>3. Step([cpu EXCEPT !.pc = next]) /\ sram' = sram
            BY <2>0, <2>5, <3>2 DEF ReturnSequence, AdvancePC, NoTransfer
        <3>4. Architectural(cpu') = WithPC(s, next, 2)
            BY <1>1, <3>1, <3>2, <3>3, JumpWith
        <3> QED
            BY <2>5, <3>1, <3>3, <3>4 DEF ReturnCourse, Holds
    <2>6. CASE k > 5
        <3>1. Idle
            BY <2>0, <2>6 DEF ReturnSequence
        <3> QED
            BY <2>6, <3>1, IdleUnseen DEF ReturnCourse, Holds, Unseen
    <2> QED
        BY <2>1, <2>2, <2>3, <2>4, <2>5, <2>6
<1> QED
    BY <1>2, <1>3

(* The program counter and the stack pointer moved, and the status byte restored.      *)
LEMMA RestoredSteps ==
    ASSUME NEW s, IsState(s), NEW w \in Word, NEW n \in -3 .. 3, NEW b \in Byte
    PROVE  LET d == WithStatus(WithPC(s, w, n), b)
           IN  /\ d \in File /\ d.sp = Moved(s, n) /\ d.pc = w
               /\ d.a = s.regs.a /\ d.x = s.regs.x /\ d.y = s.regs.y /\ d.status = b
               /\ n < 3 => IsPopped(WithStatus(WithPC(s, w, n + 1), b), d)
               /\ \A v \in Word : [d EXCEPT !.pc = v] = WithStatus(WithPC(s, v, n), b)
<1>1. ASSUME NEW v \in Word, NEW i \in -3 .. 3
      PROVE  LET e == WithStatus(WithPC(s, v, i), b)
             IN  /\ e \in File /\ e.pc = v /\ e.sp = Moved(s, i) /\ e.a = s.regs.a
                 /\ e.x = s.regs.x /\ e.y = s.regs.y /\ e.status = b
    <2>1. LET d == WithPC(s, v, i)
          IN  /\ d \in File /\ d.pc = v /\ d.sp = Moved(s, i) /\ d.a = s.regs.a
              /\ d.x = s.regs.x /\ d.y = s.regs.y
        BY WithPCFields
    <2> QED
        BY <2>1 DEF File, WithStatus
<1> DEFINE d == WithStatus(WithPC(s, w, n), b)
<1>2. /\ d \in File /\ d.pc = w /\ d.sp = Moved(s, n) /\ d.a = s.regs.a
      /\ d.x = s.regs.x /\ d.y = s.regs.y /\ d.status = b
    BY <1>1
<1> HIDE DEF d
<1>3. ASSUME n < 3
      PROVE  [d EXCEPT !.sp = Moved(s, n + 1)] = WithStatus(WithPC(s, w, n + 1), b)
    <2> DEFINE e == [d EXCEPT !.sp = Moved(s, n + 1)]
               f == WithStatus(WithPC(s, w, n + 1), b)
    <2>1. Moved(s, n + 1) \in Byte /\ n + 1 \in -3 .. 3
        BY <1>3, MovedSteps
    <2>2. /\ e \in File /\ e.pc = w /\ e.sp = Moved(s, n + 1) /\ e.a = s.regs.a
          /\ e.x = s.regs.x /\ e.y = s.regs.y /\ e.status = b
        BY <1>2, <2>1 DEF File
    <2>3. /\ f \in File /\ f.pc = w /\ f.sp = Moved(s, n + 1) /\ f.a = s.regs.a
          /\ f.x = s.regs.x /\ f.y = s.regs.y /\ f.status = b
        BY <1>1, <2>1
    <2> HIDE DEF e, f
    <2>4. e = f
        BY <2>2, <2>3, FileEqual, SameFields
    <2> QED
        BY <2>4 DEF e, f
<1>4. ASSUME NEW v \in Word
      PROVE  [d EXCEPT !.pc = v] = WithStatus(WithPC(s, v, n), b)
    <2> DEFINE e == [d EXCEPT !.pc = v]
               f == WithStatus(WithPC(s, v, n), b)
    <2>1. /\ e \in File /\ e.pc = v /\ e.sp = Moved(s, n) /\ e.a = s.regs.a
          /\ e.x = s.regs.x /\ e.y = s.regs.y /\ e.status = b
        BY <1>2 DEF File
    <2>2. /\ f \in File /\ f.pc = v /\ f.sp = Moved(s, n) /\ f.a = s.regs.a
          /\ f.x = s.regs.x /\ f.y = s.regs.y /\ f.status = b
        BY <1>1
    <2> HIDE DEF e, f
    <2>3. e = f
        BY <2>1, <2>2, FileEqual, SameFields
    <2> QED
        BY <2>3 DEF e, f
<1>5. n < 3 => U8(d.sp + 1) = Moved(s, n + 1)
    BY <1>2, MovedSteps
<1>6. n < 3 => IsPopped(WithStatus(WithPC(s, w, n + 1), b), d)
    BY <1>3, <1>5 DEF IsPopped
<1> QED
    BY <1>2, <1>4, <1>6 DEF d

(* RTI keeps to its course.                                                            *)
LEMMA InterruptReturnOnCourse ==
    ASSUME TypeOK, NEW s, IsState(s), s.rom = rom, Op = "RTI",
           NEW k \in 1 .. 6, Cycle = k, InterruptReturnCourse(s, k)
    PROVE  /\ LowPhase /\ ImpliedLow => InterruptReturnCourse(s, k)'
           /\ HighPhase /\ ImpliedHigh /\ (k \in 3 .. 5 => InMemorySpace(address))
                => InterruptReturnCourse(s, k + 1)'
<1> DEFINE w == PCAfter(s, 1)
           m1 == Peek(s, SlotAt(s, 1))
           m2 == Peek(s, SlotAt(s, 2))
           m3 == Peek(s, SlotAt(s, 3))
           target == Join(m3, m2)
           d1 == WithPC(s, w, 1)
           d2 == WithStatus(WithPC(s, w, 2), m1)
           d3 == WithStatus(WithPC(s, w, 3), m1)
           d4 == WithStatus(WithPC(s, target, 3), m1)
<1>1. /\ w \in Word /\ Op \in StackOps /\ m1 \in Byte /\ m2 \in Byte /\ m3 \in Byte
      /\ target \in Word
    BY BehindFields, CellType, JoinType DEF StackOps
<1>2. /\ d1.sp = Moved(s, 1) /\ d2 \in File /\ d2.sp = Moved(s, 2)
      /\ d3 \in File /\ d3.sp = Moved(s, 3) /\ IsPopped(d3, d2)
      /\ [d3 EXCEPT !.pc = target] = d4
    <2>1. IsPopped(WithStatus(WithPC(s, w, 2 + 1), m1), d2)
        BY <1>1, RestoredSteps
    <2> QED
        BY <1>1, <2>1, WithPCFields, RestoredSteps
<1>3. InterruptReturnCourse(s, k) <=>
        \/ k \in 1 .. 2 /\ Holds(Behind(s, 1), s.ram)
        \/ k = 3 /\ Holds(d1, s.ram) /\ Driving(SlotAt(s, 1))
        \/ k = 4 /\ Holds(d2, s.ram) /\ Driving(SlotAt(s, 2))
        \/ k = 5 /\ Holds(d3, s.ram) /\ Driving(SlotAt(s, 3)) /\ cpu.adl = m2
        \/ k > 5 /\ Holds(d4, s.ram)
    BY DEF InterruptReturnCourse
<1>4. ASSUME NEW i \in 1 .. 7
      PROVE  InterruptReturnCourse(s, i)' <=>
                \/ i \in 1 .. 2 /\ Holds(Behind(s, 1), s.ram)'
                \/ i = 3 /\ Holds(d1, s.ram)' /\ Driving(SlotAt(s, 1))'
                \/ i = 4 /\ Holds(d2, s.ram)' /\ Driving(SlotAt(s, 2))'
                \/ i = 5 /\ Holds(d3, s.ram)' /\ Driving(SlotAt(s, 3))' /\ cpu'.adl = m2
                \/ i > 5 /\ Holds(d4, s.ram)'
    BY DEF InterruptReturnCourse
<1> HIDE DEF w, m1, m2, m3, target, d1, d2, d3, d4
<1>5. ASSUME LowPhase, ImpliedLow
      PROVE  InterruptReturnCourse(s, k)'
    <2>1. Unseen /\ LatchesStay
        BY <1>5, ImpliedLowUnseen
    <2>2. CASE k \in 3 .. 5
        <3> DEFINE n == k - 2
        <3>1. cpu.sp = Moved(s, n)
            BY <1>2, <1>3, <2>2, Shown DEF Holds
        <3>2. address' = SlotAt(s, n)
            BY <1>5, <2>2, <3>1, StackTopAt DEF ImpliedLow, Drive
        <3> QED
            BY <1>3, <1>4, <2>1, <2>2, <3>2 DEF Holds, Driving, Unseen, LatchesStay
    <2>3. CASE k \notin 3 .. 5
        BY <1>3, <1>4, <2>1, <2>3 DEF Holds, Unseen
    <2> QED
        BY <2>2, <2>3
<1>6. ASSUME HighPhase, ImpliedHigh, k \in 3 .. 5 => InMemorySpace(address)
      PROVE  InterruptReturnCourse(s, k + 1)'
    <2>0. k > 1 => ReturnFromInterrupt
        BY <1>6, ImpliedHandler
    <2>1. CASE k = 1
        <3>1. Unseen
            BY <1>1, <1>6, <2>1, QuietStart
        <3> QED
            BY <1>3, <1>4, <2>1, <3>1 DEF Holds, Unseen
    <2>2. CASE k = 2
        <3>1. Architectural(cpu) = Behind(s, 1) /\ sram = s.ram
            BY <1>3, <2>2 DEF Holds
        <3>2. NoTransfer /\ Step(PopNext)
            BY <2>0, <2>2 DEF ReturnFromInterrupt
        <3>3. Architectural(cpu') = d1 /\ sram' = sram
            BY <3>1, <3>2, PopFirst DEF d1, w
        <3> QED
            BY <1>4, <1>6, <2>2, <3>1, <3>3 DEF Holds, Driving, HighPhase
    <2>3. CASE k = 3
        <3>1. Architectural(cpu) = d1 /\ sram = s.ram /\ address = SlotAt(s, 1)
            BY <1>3, <1>6, <2>3 DEF Holds, Driving, HighPhase
        <3>2. ReadBytes = {m1}
            BY <1>6, <2>3, <3>1, ReadsCell DEF m1
        <3>3. PopToStatus(m1) /\ sram' = sram
            BY <2>0, <2>3, <3>2 DEF ReturnFromInterrupt, FetchByte, PopToStatus
        <3>4. Architectural(cpu') = WithStatus(WithPC(s, w, 1 + 1), m1)
            <4>1. 1 \in 0 .. 2 /\ Architectural(cpu) = WithPC(s, w, 1)
                BY <3>1 DEF d1
            <4> QED
                BY <1>1, <3>3, <4>1, PopFrom
        <3>5. Architectural(cpu') = d2
            BY <3>4 DEF d2
        <3> QED
            BY <1>4, <1>6, <2>3, <3>1, <3>3, <3>5 DEF Holds, Driving, HighPhase
    <2>4. CASE k = 4
        <3>1. Architectural(cpu) = d2 /\ sram = s.ram /\ address = SlotAt(s, 2)
            BY <1>3, <1>6, <2>4 DEF Holds, Driving, HighPhase
        <3>2. ReadBytes = {m2}
            BY <1>6, <2>4, <3>1, ReadsCell DEF m2
        <3>3. PopToLatch(m2) /\ sram' = sram
            BY <2>0, <2>4, <3>2 DEF ReturnFromInterrupt, FetchByte, PopToLatch
        <3>4. Architectural(cpu') = d3 /\ cpu'.adl = m2
            BY <1>1, <1>2, <3>1, <3>3, PopShows
        <3> QED
            BY <1>4, <1>6, <2>4, <3>1, <3>3, <3>4 DEF Holds, Driving, HighPhase
    <2>5. CASE k = 5
        <3>1. /\ Architectural(cpu) = d3 /\ sram = s.ram
              /\ address = SlotAt(s, 3) /\ cpu.adl = m2
            BY <1>3, <1>6, <2>5 DEF Holds, Driving, HighPhase
        <3>2. ReadBytes = {m3}
            BY <1>6, <2>5, <3>1, ReadsCell DEF m3
        <3>3. Step([cpu EXCEPT !.pc = target]) /\ sram' = sram
            BY <2>0, <2>5, <3>1, <3>2 DEF ReturnFromInterrupt, FetchByte, target
        <3>4. Architectural(cpu') = d4
            BY <1>1, <1>2, <3>1, <3>3, JumpShows
        <3> QED
            BY <1>4, <2>5, <3>1, <3>3, <3>4 DEF Holds
    <2>6. CASE k > 5
        <3>1. Idle
            BY <2>0, <2>6 DEF ReturnFromInterrupt
        <3> QED
            BY <1>3, <1>4, <2>6, <3>1, IdleUnseen DEF Holds, Unseen
    <2> QED
        BY <2>1, <2>2, <2>3, <2>4, <2>5, <2>6
<1> QED
    BY <1>5, <1>6

(* JSR keeps to its course.                                                            *)
LEMMA CallOnCourse ==
    ASSUME TypeOK, NEW s, IsState(s), s.rom = rom, Op = "JSR", Mode = "ABS",
           NEW k \in 1 .. 6, Cycle = k, CallCourse(s, k)
    PROVE  /\ LowPhase /\ AbsoluteLow => CallCourse(s, k)'
           /\ HighPhase /\ AbsoluteHigh /\ (k \in {1, 5} => InMemorySpace(address))
                => CallCourse(s, k + 1)'
<1> DEFINE w == PCAfter(s, 2)
           b1 == CodeByte(s, 1)
           d0 == Behind(s, 2)
           d1 == WithPC(s, w, -1)
           d2 == WithPC(s, w, -2)
           f1 == Pushed1(s, w)
           f2 == Pushed2(s, w)
           high == Peek([s EXCEPT !.ram = f2], w)
           d3 == WithPC(s, Join(high, b1), -2)
<1>1. /\ w \in Word /\ b1 \in Byte /\ Hi(w) \in Byte /\ Lo(w) \in Byte
      /\ d0 = WithPC(s, w, 0)
    BY BehindFields, CodeTypes, HalvesType, BehindIsWithPC
<1>2. /\ d0.sp = Moved(s, 0) /\ d0.pc = w
      /\ d1.sp = Moved(s, -1) /\ d1.pc = w /\ d2.pc = w
    BY <1>1, WithPCFields
<1>3. f1 = AfterWrite(s.ram, SlotAt(s, 0), Hi(w)) /\ f2 = AfterWrite(f1, SlotAt(s, -1), Lo(w))
    BY DEF Pushed1, Pushed2
<1>4. CallCourse(s, k) <=>
        \/ k = 1 /\ Fetching(s, 1)
        \/ k = 2 /\ Holds(d0, s.ram) /\ cpu.adl = b1
        \/ k = 3 /\ Holds(d0, s.ram) /\ Driving(SlotAt(s, 0)) /\ cpu.adl = b1
        \/ k = 4 /\ Holds(d1, f1) /\ Driving(SlotAt(s, -1)) /\ cpu.adl = b1
        \/ k = 5 /\ Holds(d2, f2) /\ Driving(w) /\ cpu.adl = b1
        \/ k > 5 /\ Holds(d3, f2)
    BY DEF CallCourse, Ready
<1>5. ASSUME NEW i \in 1 .. 7
      PROVE  CallCourse(s, i)' <=>
                \/ i = 1 /\ Fetching(s, 1)'
                \/ i = 2 /\ Holds(d0, s.ram)' /\ cpu'.adl = b1
                \/ i = 3 /\ Holds(d0, s.ram)' /\ Driving(SlotAt(s, 0))' /\ cpu'.adl = b1
                \/ i = 4 /\ Holds(d1, f1)' /\ Driving(SlotAt(s, -1))' /\ cpu'.adl = b1
                \/ i = 5 /\ Holds(d2, f2)' /\ Driving(w)' /\ cpu'.adl = b1
                \/ i > 5 /\ Holds(d3, f2)'
    BY DEF CallCourse, Ready
<1> HIDE DEF w, b1, d0, d1, d2, f1, f2, high, d3
<1>6. ASSUME LowPhase, AbsoluteLow
      PROVE  CallCourse(s, k)'
    <2>1. CASE k = 1
        <3>1. Fetching(s, 1)'
            BY <1>4, <1>6, <2>1, FetchOperandOn DEF AbsoluteLow
        <3> QED
            BY <1>5, <2>1, <3>1
    <2>2. CASE k > 1
        <3>1. Unseen /\ LatchesStay
            BY <1>6, <2>2 DEF AbsoluteLow, Drive, Hold, LowPhase, Unseen, LatchesStay
        <3>2. /\ k = 3 => address' = SlotAt(s, 0)
              /\ k = 4 => address' = SlotAt(s, -1)
              /\ k = 5 => address' = w
            <4>1. CASE k = 3
                <5>1. cpu.sp = Moved(s, 0)
                    BY <1>2, <1>4, <4>1, Shown DEF Holds
                <5> QED
                    BY <1>6, <4>1, <5>1, StackTopAt DEF AbsoluteLow, Drive
            <4>2. CASE k = 4
                <5>1. cpu.sp = Moved(s, -1)
                    BY <1>2, <1>4, <4>2, Shown DEF Holds
                <5> QED
                    BY <1>6, <4>2, <5>1, StackTopAt DEF AbsoluteLow, Drive
            <4>3. CASE k = 5
                <5>1. cpu.pc = w
                    BY <1>2, <1>4, <4>3, Shown DEF Holds
                <5> QED
                    BY <1>6, <4>3, <5>1 DEF AbsoluteLow, Drive
            <4> QED
                BY <4>1, <4>2, <4>3
        <3> QED
            BY <1>4, <1>5, <2>2, <3>1, <3>2 DEF Holds, Driving, Unseen, LatchesStay
    <2> QED
        BY <2>1, <2>2
<1>7. ASSUME HighPhase, AbsoluteHigh, k \in {1, 5} => InMemorySpace(address)
      PROVE  CallCourse(s, k + 1)'
    <2>1. CASE k = 1
        <3>1. Holds(d0, s.ram) /\ address = PCAfter(s, 1) /\ FetchTo("adl")
            BY <1>4, <1>7, <2>1 DEF AbsoluteHigh, Fetching, HighPhase, d0
        <3>2. Unseen /\ cpu'.adl = b1
            BY <1>7, <2>1, <3>1, ReadsCell, FetchToUnseen DEF CodeByte, Holds, b1
        <3> QED
            BY <1>5, <2>1, <3>1, <3>2 DEF Holds, Unseen
    <2>2. CASE k = 2
        <3>1. Unseen /\ LatchesStay
            BY <1>7, <2>2, IdleUnseen DEF AbsoluteHigh
        <3> QED
            BY <1>4, <1>5, <1>7, <2>2, <3>1 DEF Holds, Unseen, LatchesStay, Driving, HighPhase
    <2>3. CASE k = 3
        <3>1. /\ Architectural(cpu) = WithPC(s, w, 0) /\ sram = s.ram
              /\ address = SlotAt(s, 0) /\ cpu.adl = b1 /\ cpu.pc = w
            BY <1>1, <1>2, <1>4, <1>7, <2>3, Shown DEF Holds, Driving, HighPhase
        <3>2. Push(Hi(w))
            BY <1>7, <2>3, <3>1 DEF AbsoluteHigh
        <3>3. Architectural(cpu') = WithPC(s, w, 0 - 1) /\ sram' = f1 /\ LatchesStay
            BY <1>1, <1>3, <3>1, <3>2, PushFrom
        <3>4. Architectural(cpu') = d1
            BY <3>3 DEF d1
        <3> QED
            BY <1>5, <1>7, <2>3, <3>1, <3>3, <3>4 DEF Holds, Driving, HighPhase, LatchesStay
    <2>4. CASE k = 4
        <3>1. /\ Architectural(cpu) = WithPC(s, w, -1) /\ sram = f1
              /\ address = SlotAt(s, -1) /\ cpu.adl = b1 /\ cpu.pc = w
            BY <1>2, <1>4, <1>7, <2>4, Shown DEF Holds, Driving, HighPhase, d1
        <3>2. Push(Lo(w))
            BY <1>7, <2>4, <3>1 DEF AbsoluteHigh
        <3>3. Architectural(cpu') = WithPC(s, w, (-1) - 1) /\ sram' = f2 /\ LatchesStay
            BY <1>1, <1>3, <3>1, <3>2, PushFrom
        <3>4. Architectural(cpu') = d2
            BY <3>3 DEF d2
        <3> QED
            BY <1>5, <1>7, <2>4, <3>1, <3>3, <3>4 DEF Holds, Driving, HighPhase, LatchesStay
    <2>5. CASE k = 5
        <3>1. /\ Architectural(cpu) = WithPC(s, w, -2) /\ sram = f2
              /\ address = w /\ cpu.adl = b1
            BY <1>4, <1>7, <2>5 DEF Holds, Driving, HighPhase, d2
        <3>2. ReadBytes = {high} /\ high \in Byte
            BY <1>7, <2>5, <3>1, ReadsCellOf DEF high
        <3>3. Step([cpu EXCEPT !.pc = Join(high, b1)]) /\ sram' = sram
            BY <1>7, <2>5, <3>1, <3>2 DEF AbsoluteHigh, FetchByte
        <3>4. Architectural(cpu') = d3
            BY <1>1, <3>1, <3>2, <3>3, JoinType, JumpWith DEF d3
        <3> QED
            BY <1>5, <2>5, <3>1, <3>3, <3>4 DEF Holds
    <2>6. CASE k > 5
        <3>1. Unseen
            BY <1>7, <2>6, IdleUnseen DEF AbsoluteHigh
        <3> QED
            BY <1>4, <1>5, <2>6, <3>1 DEF Holds, Unseen
    <2> QED
        BY <2>1, <2>2, <2>3, <2>4, <2>5, <2>6
<1> QED
    BY <1>6, <1>7

(* A handler entered: the program counter and the status byte.                         *)
LEMMA EnteredShows ==
    ASSUME TypeOK, NEW s, IsState(s), NEW w \in Word, NEW n \in -3 .. 3,
           Architectural(cpu) = WithPC(s, w, n), NEW m \in Byte, NEW u \in Word,
           Join(m, cpu.adl) = u, Step(HandlerEntered(m))
    PROVE  Architectural(cpu') = WithStatus(WithPC(s, u, n), StatusInHandler)
<1> DEFINE p == StatusInHandler
           c == [cpu EXCEPT !.pc = u, !.status = p]
           d == WithStatus(WithPC(s, u, n), p)
<1>1. cpu \in Registers /\ p \in Byte
    BY PutType DEF TypeOK, StatusInHandler
<1>2. Step(c)
    BY DEF HandlerEntered
<1> HIDE DEF p
<1>3. /\ c \in Registers /\ c.pc = u /\ c.status = p
      /\ c.a = cpu.a /\ c.x = cpu.x /\ c.y = cpu.y /\ c.sp = cpu.sp
    BY <1>1 DEF Registers
<1>4. /\ d \in File /\ d.pc = u /\ d.status = p
      /\ d.a = s.regs.a /\ d.x = s.regs.x /\ d.y = s.regs.y /\ d.sp = Moved(s, n)
    BY <1>1, RestoredSteps
<1>5. cpu.a = s.regs.a /\ cpu.x = s.regs.x /\ cpu.y = s.regs.y /\ cpu.sp = Moved(s, n)
    BY Shown, WithPCFields
<1> HIDE DEF c, d
<1>6. Same(c, d)
    BY <1>3, <1>4, <1>5, SameFields
<1>7. Architectural(cpu') = d
    BY <1>2, <1>3, <1>4, <1>6, StepShows
<1> QED
    BY <1>7 DEF d, p

(* BRK and the interrupts keep to their course.                                        *)
LEMMA EntryOnCourse ==
    ASSUME TypeOK, NEW s, IsState(s), s.rom = rom, Op = "BRK",
           NEW soft, NEW v \in {NMI_VECTOR, IRQ_BRK_VECTOR}, cpu.fromSW = soft, cpu.vector = v,
           NEW k \in 1 .. 6, Cycle = k, EntryCourse(s, soft, v, k)
    PROVE  /\ LowPhase /\ ImpliedLow => EntryCourse(s, soft, v, k)'
           /\ HighPhase /\ ImpliedHigh /\ (k > 4 => InMemorySpace(address))
                => EntryCourse(s, soft, v, k + 1)'
<1> DEFINE w == ReturnAddress(s, soft, v)
           b == PushedBy(s, soft)
           d0 == [s.regs EXCEPT !.pc = w]
           d1 == WithPC(s, w, -1)
           d2 == WithPC(s, w, -2)
           d3 == WithPC(s, w, -3)
           f1 == Pushed1(s, w)
           f2 == Pushed2(s, w)
           f3 == Pushed3(s, w, b)
           low == Peek(s, v)
           high == Peek(s, v + 1)
           handler == Join(high, low)
           d4 == WithStatus(WithPC(s, handler, -3), StatusAfter(s, v))
<1>1. /\ w \in Word /\ low \in Byte /\ high \in Byte /\ handler \in Word
      /\ Hi(w) \in Byte /\ Lo(w) \in Byte /\ b \in Byte /\ Op \in StackOps
    <2>1. w \in Word
        BY BehindFields DEF ReturnAddress
    <2>2. b \in Byte
        BY PutType DEF PushedBy, IsState, File
    <2>3. low \in Byte /\ high \in Byte
        BY CellType
    <2> QED
        BY <2>1, <2>2, <2>3, HalvesType, JoinType DEF StackOps
<1>2. /\ v \in Int /\ v >= 32768 /\ v + 1 >= 32768 /\ U16(v + 1) = v + 1
    BY DEF NMI_VECTOR, IRQ_BRK_VECTOR, U16
<1>3. d0 = WithPC(s, w, 0)
    BY <1>1, WithPCSteps
<1>4. /\ d0.sp = Moved(s, 0) /\ d0.pc = w /\ d1.sp = Moved(s, -1) /\ d1.pc = w
      /\ d2.sp = Moved(s, -2) /\ d2.status = s.regs.status
      /\ d3.status = s.regs.status
    <2>1. /\ 0 \in -3 .. 3 /\ -1 \in -3 .. 3 /\ -2 \in -3 .. 3 /\ -3 \in -3 .. 3
          /\ d0 = WithPC(s, w, 0)
        BY <1>3
    <2>2. \A n \in -3 .. 3 : /\ WithPC(s, w, n).sp = Moved(s, n) /\ WithPC(s, w, n).pc = w
                             /\ WithPC(s, w, n).status = s.regs.status
        BY <1>1, WithPCFields
    <2> HIDE DEF d0
    <2> QED
        BY <2>1, <2>2
<1>5. /\ f1 = AfterWrite(s.ram, SlotAt(s, 0), Hi(w)) /\ f2 = AfterWrite(f1, SlotAt(s, -1), Lo(w))
      /\ f3 = AfterWrite(f2, SlotAt(s, -2), b)
    BY DEF Pushed1, Pushed2, Pushed3
<1>6. EntryCourse(s, soft, v, k) <=>
        \/ k = 1 /\ Holds(d0, s.ram)
        \/ k = 2 /\ Holds(d0, s.ram) /\ Driving(SlotAt(s, 0))
        \/ k = 3 /\ Holds(d1, f1) /\ Driving(SlotAt(s, -1))
        \/ k = 4 /\ Holds(d2, f2) /\ Driving(SlotAt(s, -2))
        \/ k = 5 /\ Holds(d3, f3) /\ Driving(v)
        \/ k = 6 /\ Holds(d3, f3) /\ Driving(v + 1) /\ cpu.adl = low
        \/ k > 6 /\ Holds(d4, f3)
    BY DEF EntryCourse
<1>7. ASSUME NEW i \in 1 .. 7
      PROVE  EntryCourse(s, soft, v, i)' <=>
                \/ i = 1 /\ Holds(d0, s.ram)'
                \/ i = 2 /\ Holds(d0, s.ram)' /\ Driving(SlotAt(s, 0))'
                \/ i = 3 /\ Holds(d1, f1)' /\ Driving(SlotAt(s, -1))'
                \/ i = 4 /\ Holds(d2, f2)' /\ Driving(SlotAt(s, -2))'
                \/ i = 5 /\ Holds(d3, f3)' /\ Driving(v)'
                \/ i = 6 /\ Holds(d3, f3)' /\ Driving(v + 1)' /\ cpu'.adl = low
                \/ i > 6 /\ Holds(d4, f3)'
    BY DEF EntryCourse
<1> HIDE DEF w, b, d0, d1, d2, d3, f1, f2, f3, low, high, handler, d4
<1>8. ASSUME LowPhase, ImpliedLow
      PROVE  EntryCourse(s, soft, v, k)'
    <2>1. Unseen /\ LatchesStay
        BY <1>8, ImpliedLowUnseen
    <2>2. CASE k = 1
        BY <1>6, <1>7, <2>1, <2>2 DEF Holds, Unseen
    <2>3. CASE k \in 2 .. 4
        <3> DEFINE n == 2 - k
        <3>1. cpu.sp = Moved(s, n)
            BY <1>4, <1>6, <2>3, Shown DEF Holds
        <3>2. address' = SlotAt(s, n)
            BY <1>8, <2>3, <3>1, StackTopAt DEF ImpliedLow, Drive
        <3> QED
            BY <1>6, <1>7, <2>1, <2>3, <3>2 DEF Holds, Driving, Unseen
    <2>4. CASE k \in 5 .. 6
        <3>1. address' = IF k = 5 THEN v ELSE v + 1
            BY <1>2, <1>8, <2>4 DEF ImpliedLow, Drive
        <3> QED
            BY <1>6, <1>7, <2>1, <2>4, <3>1 DEF Holds, Driving, Unseen, LatchesStay
    <2> QED
        BY <2>2, <2>3, <2>4
<1>9. ASSUME HighPhase, ImpliedHigh, k > 4 => InMemorySpace(address)
      PROVE  EntryCourse(s, soft, v, k + 1)'
    <2>0. k > 1 => BreakSequence
        BY <1>9, ImpliedHandler
    <2>1. CASE k = 1
        <3>1. Unseen
            BY <1>1, <1>9, <2>1, QuietStart
        <3> QED
            BY <1>6, <1>7, <1>9, <2>1, <3>1 DEF Holds, Unseen, Driving, HighPhase
    <2>2. CASE k = 2
        <3>1. /\ Architectural(cpu) = WithPC(s, w, 0) /\ sram = s.ram
              /\ address = SlotAt(s, 0) /\ cpu.pc = w
            BY <1>3, <1>4, <1>6, <1>9, <2>2, Shown DEF Holds, Driving, HighPhase
        <3>2. Push(Hi(w))
            BY <2>0, <2>2, <3>1 DEF BreakSequence
        <3>3. Architectural(cpu') = WithPC(s, w, 0 - 1) /\ sram' = f1
            BY <1>1, <1>5, <3>1, <3>2, PushFrom
        <3>4. Architectural(cpu') = d1
            BY <3>3 DEF d1
        <3> QED
            BY <1>7, <1>9, <2>2, <3>3, <3>4 DEF Holds, Driving, HighPhase
    <2>3. CASE k = 3
        <3>1. /\ Architectural(cpu) = WithPC(s, w, -1) /\ sram = f1
              /\ address = SlotAt(s, -1) /\ cpu.pc = w
            BY <1>4, <1>6, <1>9, <2>3, Shown DEF Holds, Driving, HighPhase, d1
        <3>2. Push(Lo(w))
            BY <2>0, <2>3, <3>1 DEF BreakSequence
        <3>3. Architectural(cpu') = WithPC(s, w, (-1) - 1) /\ sram' = f2
            BY <1>1, <1>5, <3>1, <3>2, PushFrom
        <3>4. Architectural(cpu') = d2
            BY <3>3 DEF d2
        <3> QED
            BY <1>7, <1>9, <2>3, <3>3, <3>4 DEF Holds, Driving, HighPhase
    <2>4. CASE k = 4
        <3>1. /\ Architectural(cpu) = WithPC(s, w, -2) /\ sram = f2
              /\ address = SlotAt(s, -2) /\ cpu.status = s.regs.status
            BY <1>4, <1>6, <1>9, <2>4, Shown DEF Holds, Driving, HighPhase, d2
        <3>2. Push(PushedStatus)
            BY <2>0, <2>4 DEF BreakSequence
        <3>3. PushedStatus = b
            BY <3>1 DEF PushedStatus, b, PushedBy
        <3>4. Architectural(cpu') = WithPC(s, w, (-2) - 1) /\ sram' = f3
            BY <1>1, <1>5, <3>1, <3>2, <3>3, PushFrom
        <3>5. Architectural(cpu') = d3
            BY <3>4 DEF d3
        <3> QED
            BY <1>7, <1>9, <2>4, <3>4, <3>5 DEF Holds, Driving, HighPhase
    <2>5. CASE k = 5
        <3>1. Architectural(cpu) = d3 /\ sram = f3 /\ address = v
            BY <1>6, <1>9, <2>5 DEF Holds, Driving, HighPhase
        <3>2. ReadBytes = {low}
            <4>1. ReadBytes = {Peek([s EXCEPT !.ram = f3], v)}
                BY <1>9, <2>5, <3>1, ReadsCellOf
            <4>2. PICK a, f : a = v /\ f = f3
                OBVIOUS
            <4>3. a \in Int /\ a >= 32768
                BY <1>2, <4>2
            <4>4. Peek([s EXCEPT !.ram = f], a) = Peek(s, a)
                BY <4>3, CellInEEPROM
            <4> QED
                BY <4>1, <4>2, <4>4 DEF low
        <3>3. FetchTo("adl")
            BY <2>0, <2>5 DEF BreakSequence
        <3>4. Unseen /\ cpu'.adl = low
            BY <1>1, <3>2, <3>3, FetchToUnseen
        <3> QED
            BY <1>7, <1>9, <2>5, <3>1, <3>4 DEF Holds, Unseen, Driving, HighPhase
    <2>6. CASE k = 6
        <3>1. Architectural(cpu) = d3 /\ sram = f3 /\ address = v + 1 /\ cpu.adl = low
            BY <1>6, <1>9, <2>6 DEF Holds, Driving, HighPhase
        <3>2. ReadBytes = {high}
            <4>1. ReadBytes = {Peek([s EXCEPT !.ram = f3], v + 1)}
                BY <1>9, <2>6, <3>1, ReadsCellOf
            <4>2. PICK a, f : a = v + 1 /\ f = f3
                OBVIOUS
            <4>3. a \in Int /\ a >= 32768
                BY <1>2, <4>2
            <4>4. Peek([s EXCEPT !.ram = f], a) = Peek(s, a)
                BY <4>3, CellInEEPROM
            <4> QED
                BY <4>1, <4>2, <4>4 DEF high
        <3>3. Step(HandlerEntered(high)) /\ sram' = sram
            BY <2>0, <2>6, <3>2 DEF BreakSequence, FetchByte
        <3>4. Join(high, cpu.adl) = handler /\ cpu.status = s.regs.status
            BY <1>4, <3>1, Shown DEF handler
        <3>5. StatusInHandler = StatusAfter(s, v)
            BY <3>4 DEF StatusInHandler, StatusAfter
        <3>6. Architectural(cpu') = WithStatus(WithPC(s, handler, -3), StatusInHandler)
            <4>1. Architectural(cpu) = WithPC(s, w, -3) /\ -3 \in -3 .. 3
                BY <3>1 DEF d3
            <4> QED
                BY <1>1, <3>3, <3>4, <4>1, EnteredShows
        <3> QED
            BY <1>7, <2>6, <3>1, <3>3, <3>5, <3>6 DEF Holds, d4
    <2> QED
        BY <2>1, <2>2, <2>3, <2>4, <2>5, <2>6
<1> QED
    BY <1>8, <1>9

-----------------------------------------------------------------------------------
(* The handlers of an addressing mode are the ones that carry its name.                *)
LEMMA LowHandler ==
    ASSUME HandlePhi2Low, Known, Cycle # 0
    PROVE  /\ Mode \in {"IMP", "ACC"} => ImpliedLow
           /\ Mode = "IMM" => ImmediateLow
           /\ Mode \in {"ABS", "ABSX", "ABSY"} => AbsoluteLow \/ AbsoluteIndexedLow
           /\ Mode = "ABS" => AbsoluteLow
           /\ Mode = "REL" => RelativeLow
           /\ Mode = "ZP" => ZeroPageLow
           /\ Mode \in {"ZPX", "ZPY"} => ZeroPageIndexedLow
           /\ Mode = "IND" => IndirectLow
           /\ Mode \in {"INDX", "INDY"} => PointerLow
BY DEF HandlePhi2Low, ImpliedLow, ImmediateLow, AbsoluteLow, AbsoluteIndexedLow, RelativeLow,
       ZeroPageLow, ZeroPageIndexedLow, IndirectLow, PointerLow

(* The same of the HIGH phase.                                                         *)
LEMMA HighHandler ==
    ASSUME InstructionHigh
    PROVE  /\ Mode = "IMP" => ImpliedHigh
           /\ Mode = "ACC" => AccumulatorHigh
           /\ Mode = "IMM" => ImmediateHigh
           /\ Mode \in {"ABS", "ABSX", "ABSY"} => AbsoluteHigh
           /\ Mode = "REL" => RelativeHigh
           /\ Mode = "ZP" => ZeroPageHigh
           /\ Mode \in {"ZPX", "ZPY"} => ZeroPageIndexedHigh
           /\ Mode = "IND" => IndirectHigh
           /\ Mode \in {"INDX", "INDY"} => IndexedIndirectHigh \/ IndirectIndexedHigh
BY DEF InstructionHigh, AccumulatorHigh, ImpliedHigh, ImmediateHigh, AbsoluteHigh, RelativeHigh,
       ZeroPageHigh, ZeroPageIndexedHigh, IndirectHigh, IndexedIndirectHigh, IndirectIndexedHigh

(* A row has one course.                                                               *)
OneCourse(s, op, mode, soft, v, k) ==
    /\ mode = "ACC" => AccumulatorCourse(s, op, k)
    /\ mode = "IMM" => ImmediateCourse(s, op, k)
    /\ mode = "ZP" => ZeroPageCourse(s, op, k)
    /\ mode \in {"ZPX", "ZPY"} => ZeroPageIndexedCourse(s, op, mode, k)
    /\ mode \in {"ABS", "ABSX", "ABSY"} /\ op \in MemoryOps => AbsoluteCourse(s, op, mode, k)
    /\ mode = "ABS" /\ op = "JMP" => JumpCourse(s, k)
    /\ mode = "ABS" /\ op = "JSR" => CallCourse(s, k)
    /\ mode = "IND" => IndirectCourse(s, k)
    /\ mode \in {"INDX", "INDY"} => PointerCourse(s, op, mode, k)
    /\ mode = "REL" => RelativeCourse(s, op, k)
    /\ mode = "IMP" /\ op \in RegisterOps \cup {"NOP"} => RegisterCourse(s, op, k)
    /\ mode = "IMP" /\ op \in {"PHA", "PHP"} => PushCourse(s, op, k)
    /\ mode = "IMP" /\ op \in {"PLA", "PLP"} => PullCourse(s, op, k)
    /\ mode = "IMP" /\ op = "RTS" => ReturnCourse(s, k)
    /\ mode = "IMP" /\ op = "RTI" => InterruptReturnCourse(s, k)
    /\ mode = "IMP" /\ op = "BRK" => EntryCourse(s, soft, v, k)

(* An instruction that keeps the course of its mode and name keeps its course.        *)
LEMMA CourseIsOne ==
    ASSUME NEW s, NEW op, NEW mode, NEW soft, NEW v, NEW k, Course(s, op, mode, soft, v, k)
    PROVE  OneCourse(s, op, mode, soft, v, k)
BY DEF Course, OneCourse, MemoryOps, ReadOps, ModifyOps, StoreOps, RegisterOps

(* The instruction under way, the cycle it is in, and the row it comes from.           *)
InCycle(s, op, mode, soft, v, k) ==
    /\ TypeOK
    /\ IsState(s) /\ s.rom = rom
    /\ Op = op /\ Mode = mode /\ cpu.fromSW = soft /\ cpu.vector = v
    /\ v \in {NMI_VECTOR, IRQ_BRK_VECTOR}
    /\ k \in 1 .. 6 /\ Cycle = k
    /\ Known
    /\ \E n \in 2 .. 7 : Row([op |-> op, mode |-> mode, cycles |-> n])
    /\ Course(s, op, mode, soft, v, k)

(* In a HIGH phase the memories answer, or the instruction has got to its operand.      *)
Served == InMemorySpace(address) \/ Operating

(* The rows of each mode.                                                              *)
LEMMA RowOps ==
    ASSUME NEW op, NEW mode, NEW n, Row([op |-> op, mode |-> mode, cycles |-> n])
    PROVE  /\ mode = "ACC" => op \in ModifyOps
           /\ mode = "IMP" => op \in RegisterOps \cup StackOps \cup {"NOP"}
           /\ mode = "IMM" => op \in ReadOps \ {"BIT"}
           /\ mode = "ZP" => op \in MemoryOps
           /\ mode \in {"ZPX", "ZPY"} => op \in MemoryOps \ {"BIT", "CPX", "CPY"}
           /\ mode \in {"ABSX", "ABSY"} => op \in MemoryOps
           /\ mode = "ABS" => op \in MemoryOps \cup {"JMP", "JSR"}
           /\ mode = "IND" => op = "JMP"
           /\ mode \in {"INDX", "INDY"} => op \in PointerOps
           /\ mode = "REL" => op \in Branches
           /\ mode \in AddressingMode
BY DEF Row, MemoryOps, ReadOps, ModifyOps, StoreOps, AddressingMode

(* The memory instructions keep to their course.                                       *)
LEMMA MemoryKept ==
    ASSUME NEW s, NEW op, NEW mode, NEW soft, NEW v, NEW k, InCycle(s, op, mode, soft, v, k),
           op \in MemoryOps, mode \notin {"ACC", "IMP"}
    PROVE  /\ LowPhase /\ HandlePhi2Low => Course(s, op, mode, soft, v, k)'
           /\ HighPhase /\ InstructionHigh /\ Served => Course(s, op, mode, soft, v, k + 1)'
<1>1. /\ TypeOK /\ IsState(s) /\ s.rom = rom /\ Op = op /\ Mode = mode /\ k \in 1 .. 6 /\ Cycle = k
      /\ Known /\ Cycle # 0 /\ OneCourse(s, op, mode, soft, v, k)
    BY CourseIsOne DEF InCycle
<1>2. /\ mode = "IMM" => op \in ReadOps \ {"BIT"}
      /\ mode \in {"ZPX", "ZPY"} => op \in MemoryOps \ {"BIT", "CPX", "CPY"}
      /\ mode \in {"INDX", "INDY"} => op \in PointerOps
      /\ mode \in {"IMM", "ZP", "ZPX", "ZPY", "ABS", "ABSX", "ABSY", "INDX", "INDY"}
    BY RowOps DEF InCycle, MemoryOps, ReadOps, ModifyOps, StoreOps, Branches, AddressingMode
<1>3. Served => (\/ InMemorySpace(address)
                 \/ k >= (CASE mode = "IMM" -> 1
                             [] mode = "ZP" -> 2
                             [] mode \in {"INDX", "INDY"} -> 4
                             [] OTHER -> 3))
    BY <1>1 DEF Served, Operating, OperandCycle
<1>4. CASE mode = "IMM"
    <2>1. ImmediateCourse(s, op, k)
        BY <1>1, <1>4 DEF OneCourse
    <2>2. /\ LowPhase /\ HandlePhi2Low => ImmediateCourse(s, op, k)'
          /\ HighPhase /\ InstructionHigh /\ Served => ImmediateCourse(s, op, k + 1)'
        BY <1>1, <1>2, <1>4, <2>1, LowHandler, HighHandler, ImmediateOnCourse
    <2> QED
        BY <1>4, <2>2 DEF Course
<1>5. CASE mode = "ZP"
    <2>1. ZeroPageCourse(s, op, k)
        BY <1>1, <1>5 DEF OneCourse
    <2>2. Served => (k < 2 => InMemorySpace(address))
        BY <1>1, <1>3, <1>5
    <2>3. /\ LowPhase /\ HandlePhi2Low => ZeroPageCourse(s, op, k)'
          /\ HighPhase /\ InstructionHigh /\ Served => ZeroPageCourse(s, op, k + 1)'
        BY <1>1, <1>5, <2>1, <2>2, LowHandler, HighHandler, ZeroPageOnCourse
    <2> QED
        BY <1>5, <2>3 DEF Course
<1>6. CASE mode \in {"ZPX", "ZPY"}
    <2>1. ZeroPageIndexedCourse(s, op, mode, k)
        BY <1>1, <1>6 DEF OneCourse
    <2>2. Served => (k < 3 => InMemorySpace(address))
        BY <1>1, <1>3, <1>6
    <2>3. /\ LowPhase /\ HandlePhi2Low => ZeroPageIndexedCourse(s, op, mode, k)'
          /\ HighPhase /\ InstructionHigh /\ Served
                => ZeroPageIndexedCourse(s, op, mode, k + 1)'
        BY <1>1, <1>2, <1>6, <2>1, <2>2, LowHandler, HighHandler, ZeroPageIndexedOnCourse
    <2> QED
        BY <1>6, <2>3 DEF Course
<1>7. CASE mode \in {"ABS", "ABSX", "ABSY"}
    <2>1. AbsoluteCourse(s, op, mode, k)
        BY <1>1, <1>7 DEF OneCourse
    <2>2. Served => (k < 3 => InMemorySpace(address))
        BY <1>1, <1>3, <1>7
    <2>3. /\ LowPhase /\ HandlePhi2Low => AbsoluteCourse(s, op, mode, k)'
          /\ HighPhase /\ InstructionHigh /\ Served => AbsoluteCourse(s, op, mode, k + 1)'
        BY <1>1, <1>7, <2>1, <2>2, LowHandler, HighHandler, AbsoluteOnCourse
    <2> QED
        BY <1>7, <2>3 DEF Course
<1>8. CASE mode \in {"INDX", "INDY"}
    <2>1. PointerCourse(s, op, mode, k)
        BY <1>1, <1>8 DEF OneCourse
    <2>2. Served => (k < 4 => InMemorySpace(address))
        BY <1>1, <1>3, <1>8
    <2>3. /\ LowPhase /\ HandlePhi2Low => PointerCourse(s, op, mode, k)'
          /\ HighPhase /\ InstructionHigh /\ Served => PointerCourse(s, op, mode, k + 1)'
        BY <1>1, <1>2, <1>8, <2>1, <2>2, LowHandler, HighHandler, PointerOnCourse
    <2> QED
        BY <1>8, <2>3 DEF Course
<1> QED
    BY <1>2, <1>4, <1>5, <1>6, <1>7, <1>8

(* The others do: the ones that touch registers, program counter and stack.            *)
LEMMA OthersKept ==
    ASSUME NEW s, NEW op, NEW mode, NEW soft, NEW v, NEW k, InCycle(s, op, mode, soft, v, k),
           ~(op \in MemoryOps /\ mode \notin {"ACC", "IMP"})
    PROVE  /\ LowPhase /\ HandlePhi2Low => Course(s, op, mode, soft, v, k)'
           /\ HighPhase /\ InstructionHigh /\ Served => Course(s, op, mode, soft, v, k + 1)'
<1>1. /\ TypeOK /\ IsState(s) /\ s.rom = rom /\ Op = op /\ Mode = mode /\ k \in 1 .. 6 /\ Cycle = k
      /\ Known /\ Cycle # 0 /\ OneCourse(s, op, mode, soft, v, k)
      /\ cpu.fromSW = soft /\ cpu.vector = v /\ v \in {NMI_VECTOR, IRQ_BRK_VECTOR}
    BY CourseIsOne DEF InCycle
<1>2. /\ \/ mode = "ACC" /\ op \in ModifyOps
         \/ mode = "IMP" /\ op \in RegisterOps \cup StackOps \cup {"NOP"}
         \/ mode = "ABS" /\ op \in {"JMP", "JSR"}
         \/ mode = "IND" /\ op = "JMP"
         \/ mode = "REL" /\ op \in Branches
      /\ mode # "ACC" => op \notin MemoryOps
    BY RowOps DEF InCycle, MemoryOps, ReadOps, ModifyOps, StoreOps, PointerOps, StackOps,
                  RegisterOps, Branches, AddressingMode
<1>3. mode # "ACC" /\ Served => InMemorySpace(address)
    BY <1>1, <1>2 DEF Served, Operating
<1>4. CASE mode = "ACC" /\ op \in ModifyOps
    <2>1. AccumulatorCourse(s, op, k)
        BY <1>1, <1>4 DEF OneCourse
    <2>2. /\ LowPhase /\ HandlePhi2Low => AccumulatorCourse(s, op, k)'
          /\ HighPhase /\ InstructionHigh /\ Served => AccumulatorCourse(s, op, k + 1)'
        BY <1>1, <1>4, <2>1, LowHandler, HighHandler, AccumulatorOnCourse
    <2> QED
        BY <1>4, <2>2 DEF Course
<1>5. CASE mode = "IMP" /\ op \in RegisterOps \cup {"NOP"}
    <2>1. RegisterCourse(s, op, k)
        BY <1>1, <1>5 DEF OneCourse
    <2>2. /\ LowPhase /\ HandlePhi2Low => RegisterCourse(s, op, k)'
          /\ HighPhase /\ InstructionHigh /\ Served => RegisterCourse(s, op, k + 1)'
        BY <1>1, <1>5, <2>1, LowHandler, HighHandler, RegisterOnCourse
    <2> QED
        BY <1>5, <2>2 DEF Course
<1>6. CASE mode = "IMP" /\ op \in {"PHA", "PHP"}
    <2>1. PushCourse(s, op, k)
        BY <1>1, <1>6 DEF OneCourse
    <2>2. /\ LowPhase /\ HandlePhi2Low => PushCourse(s, op, k)'
          /\ HighPhase /\ InstructionHigh /\ Served => PushCourse(s, op, k + 1)'
        BY <1>1, <1>6, <2>1, LowHandler, HighHandler, PushOnCourse
    <2> QED
        BY <1>6, <2>2 DEF Course
<1>7. CASE mode = "IMP" /\ op \in {"PLA", "PLP"}
    <2>1. PullCourse(s, op, k)
        BY <1>1, <1>7 DEF OneCourse
    <2>2. /\ LowPhase /\ HandlePhi2Low => PullCourse(s, op, k)'
          /\ HighPhase /\ InstructionHigh /\ Served => PullCourse(s, op, k + 1)'
        BY <1>1, <1>3, <1>7, <2>1, LowHandler, HighHandler, PullOnCourse
    <2> QED
        BY <1>7, <2>2 DEF Course
<1>8. CASE mode = "IMP" /\ op = "RTS"
    <2>1. ReturnCourse(s, k)
        BY <1>1, <1>8 DEF OneCourse
    <2>2. /\ LowPhase /\ HandlePhi2Low => ReturnCourse(s, k)'
          /\ HighPhase /\ InstructionHigh /\ Served => ReturnCourse(s, k + 1)'
        BY <1>1, <1>3, <1>8, <2>1, LowHandler, HighHandler, ReturnOnCourse
    <2> QED
        BY <1>8, <2>2 DEF Course
<1>9. CASE mode = "IMP" /\ op = "RTI"
    <2>1. InterruptReturnCourse(s, k)
        BY <1>1, <1>9 DEF OneCourse
    <2>2. /\ LowPhase /\ HandlePhi2Low => InterruptReturnCourse(s, k)'
          /\ HighPhase /\ InstructionHigh /\ Served => InterruptReturnCourse(s, k + 1)'
        BY <1>1, <1>3, <1>9, <2>1, LowHandler, HighHandler, InterruptReturnOnCourse
    <2> QED
        BY <1>9, <2>2 DEF Course
<1>10. CASE mode = "IMP" /\ op = "BRK"
    <2>1. EntryCourse(s, soft, v, k)
        BY <1>1, <1>10 DEF OneCourse
    <2>2. /\ LowPhase /\ HandlePhi2Low => EntryCourse(s, soft, v, k)'
          /\ HighPhase /\ InstructionHigh /\ Served => EntryCourse(s, soft, v, k + 1)'
        BY <1>1, <1>3, <1>10, <2>1, LowHandler, HighHandler, EntryOnCourse
    <2> QED
        BY <1>10, <2>2 DEF Course
<1>11. CASE mode = "ABS" /\ op = "JMP"
    <2>1. JumpCourse(s, k)
        BY <1>1, <1>11 DEF OneCourse
    <2>2. /\ LowPhase /\ HandlePhi2Low => JumpCourse(s, k)'
          /\ HighPhase /\ InstructionHigh /\ Served => JumpCourse(s, k + 1)'
        BY <1>1, <1>3, <1>11, <2>1, LowHandler, HighHandler, JumpOnCourse
    <2> QED
        BY <1>11, <2>2 DEF Course
<1>12. CASE mode = "ABS" /\ op = "JSR"
    <2>1. CallCourse(s, k)
        BY <1>1, <1>12 DEF OneCourse
    <2>2. /\ LowPhase /\ HandlePhi2Low => CallCourse(s, k)'
          /\ HighPhase /\ InstructionHigh /\ Served => CallCourse(s, k + 1)'
        BY <1>1, <1>3, <1>12, <2>1, LowHandler, HighHandler, CallOnCourse
    <2> QED
        BY <1>12, <2>2 DEF Course
<1>13. CASE mode = "IND" /\ op = "JMP"
    <2>1. IndirectCourse(s, k)
        BY <1>1, <1>13 DEF OneCourse
    <2>2. /\ LowPhase /\ HandlePhi2Low => IndirectCourse(s, k)'
          /\ HighPhase /\ InstructionHigh /\ Served => IndirectCourse(s, k + 1)'
        BY <1>1, <1>3, <1>13, <2>1, LowHandler, HighHandler, IndirectOnCourse
    <2> QED
        BY <1>13, <2>2 DEF Course
<1>14. CASE mode = "REL" /\ op \in Branches
    <2>1. RelativeCourse(s, op, k)
        BY <1>1, <1>14 DEF OneCourse
    <2>2. /\ LowPhase /\ HandlePhi2Low => RelativeCourse(s, op, k)'
          /\ HighPhase /\ InstructionHigh /\ Served => RelativeCourse(s, op, k + 1)'
        BY <1>1, <1>3, <1>14, <2>1, LowHandler, HighHandler, RelativeOnCourse
    <2> QED
        BY <1>14, <2>2 DEF Course
<1> QED
    BY <1>2, <1>4, <1>5, <1>6, <1>7, <1>8, <1>9, <1>10, <1>11, <1>12, <1>13, <1>14 DEF StackOps

(* Every instruction keeps to its course.                                              *)
LEMMA CourseKept ==
    ASSUME NEW s, NEW op, NEW mode, NEW soft, NEW v, NEW k, InCycle(s, op, mode, soft, v, k)
    PROVE  /\ LowPhase /\ HandlePhi2Low => Course(s, op, mode, soft, v, k)'
           /\ HighPhase /\ InstructionHigh /\ Served => Course(s, op, mode, soft, v, k + 1)'
BY MemoryKept, OthersKept

-----------------------------------------------------------------------------------
(* A step that moves neither the registers nor the bus, such as one of the pins, leaves *)
(* the instruction where it is.                                                        *)
LEMMA CourseStays ==
    ASSUME NEW s, NEW op, NEW mode, NEW soft, NEW v, NEW k, Course(s, op, mode, soft, v, k),
           UNCHANGED <<cpu, edge, address, sram>>
    PROVE  Course(s, op, mode, soft, v, k)'
<1>1. /\ cpu' = cpu /\ edge' = edge /\ address' = address /\ sram' = sram
    OBVIOUS
<1>2. \A c, f : Holds(c, f)' <=> Holds(c, f)
    BY <1>1 DEF Holds, Architectural
<1>3. \A a : Driving(a)' <=> Driving(a)
    BY <1>1 DEF Driving
<1>4. \A n : Fetching(s, n)' <=> Fetching(s, n)
    BY <1>1 DEF Fetching, Holds, Architectural
<1>5. \A n, a : Ready(s, n, a)' <=> Ready(s, n, a)
    BY <1>1 DEF Ready, Driving, Holds, Architectural
<1>6. \A n, t : Performed(s, op, n, t)' <=> Performed(s, op, n, t)
    BY <1>1 DEF Performed, PerformedOn, Holds, Architectural
<1>7. /\ AccumulatorCourse(s, op, k)' <=> AccumulatorCourse(s, op, k)
      /\ RegisterCourse(s, op, k)' <=> RegisterCourse(s, op, k)
      /\ ImmediateCourse(s, op, k)' <=> ImmediateCourse(s, op, k)
      /\ JumpCourse(s, k)' <=> JumpCourse(s, k)
      /\ RelativeCourse(s, op, k)' <=> RelativeCourse(s, op, k)
    BY <1>1 DEF AccumulatorCourse, RegisterCourse, ImmediateCourse, JumpCourse, RelativeCourse,
       Fetching, Ready, Driving, Performed, PerformedOn, Holds, Architectural
<1>8. /\ ZeroPageCourse(s, op, k)' <=> ZeroPageCourse(s, op, k)
      /\ ZeroPageIndexedCourse(s, op, mode, k)' <=> ZeroPageIndexedCourse(s, op, mode, k)
      /\ AbsoluteCourse(s, op, mode, k)' <=> AbsoluteCourse(s, op, mode, k)
    BY <1>1 DEF ZeroPageCourse, ZeroPageIndexedCourse, AbsoluteCourse,
       Fetching, Ready, Driving, Performed, PerformedOn, Holds, Architectural
<1>9. /\ PointerCourse(s, op, mode, k)' <=> PointerCourse(s, op, mode, k)
      /\ IndirectCourse(s, k)' <=> IndirectCourse(s, k)
    BY <1>1 DEF PointerCourse, IndirectCourse,
       Fetching, Ready, Driving, Performed, PerformedOn, Holds, Architectural
<1>10. /\ CallCourse(s, k)' <=> CallCourse(s, k)
       /\ PushCourse(s, op, k)' <=> PushCourse(s, op, k)
       /\ PullCourse(s, op, k)' <=> PullCourse(s, op, k)
    BY <1>1 DEF CallCourse, PushCourse, PullCourse, Fetching, Ready, Driving, Holds, Architectural
<1>11. /\ ReturnCourse(s, k)' <=> ReturnCourse(s, k)
       /\ InterruptReturnCourse(s, k)' <=> InterruptReturnCourse(s, k)
       /\ EntryCourse(s, soft, v, k)' <=> EntryCourse(s, soft, v, k)
    BY <1>1 DEF ReturnCourse, InterruptReturnCourse, EntryCourse, Driving, Holds, Architectural
<1> QED
    BY <1>7, <1>8, <1>9, <1>10, <1>11 DEF Course

(* The inductive invariant of the clocked machine with its history.                    *)
TraceTypeOK ==
    /\ boundary = [regs |-> boundary.regs, ram |-> boundary.ram]
    /\ boundary.regs \in File
    /\ IsMemory(boundary.ram, SRAMAddresses)

TraceInv == Inv /\ TraceTypeOK /\ OnCourse

(* What the instruction under way started from is a state.                            *)
LEMMA OriginIsState ==
    ASSUME TraceInv
    PROVE  IsState(Origin) /\ Origin.rom = rom
           /\ Origin.regs = boundary.regs /\ Origin.ram = boundary.ram
BY DEF TraceInv, TraceTypeOK, Inv, TypeOK, BusTypeOK, IsState, Origin

(* A boundary that is the present state is well-typed.                                *)
LEMMA SnapshotType ==
    ASSUME TypeOK, boundary = Snapshot
    PROVE  TraceTypeOK
BY ArchitecturalType DEF TypeOK, BusTypeOK, Snapshot, TraceTypeOK

(* Power-up.                                                                           *)
LEMMA TraceInvInit == TraceInit => TraceInv
<1> SUFFICES ASSUME TraceInit PROVE TraceInv
    OBVIOUS
<1>1. Inv /\ Init /\ boundary = AfterReset
    BY InvInit DEF TraceInit
<1>2. PICK i \in PowerUpBytes, d \in PowerUpBytes : cpu = Reset(PoweredUp(i, d))
    BY <1>1 DEF Init
<1>3. /\ cpu.a = 0 /\ cpu.x = 0 /\ cpu.y = 0 /\ cpu.sp = 255 /\ cpu.pc = RESET_VECTOR
      /\ cpu.status = 0 /\ cpu.cycle = 0 /\ cpu.resetStage = 0
    BY <1>2 DEF Reset, PoweredUp
<1>4. sram = Blank /\ IsMemory(sram, SRAMAddresses) /\ IsMemory(rom, EEPROMAddresses)
    BY <1>1 DEF Init, BusInit, Inv, TypeOK, BusTypeOK
<1>5. RESET_VECTOR + 0 = RESET_VECTOR
    BY DEF RESET_VECTOR
<1>6. Architectural(cpu) = [AfterReset.regs EXCEPT !.pc = RESET_VECTOR + cpu.resetStage]
    BY <1>3, <1>5 DEF Architectural, AfterReset
<1>7. Join(ByteAt(rom, RESET_VECTOR + 1), ByteAt(rom, RESET_VECTOR)) \in Word
    BY <1>4, ByteAtType, JoinType
<1>8. AfterReset.regs \in File
    <2>1. 0 \in Byte /\ 255 \in Byte
        BY ByteMember
    <2> QED
        BY <1>7, <2>1 DEF AfterReset, File
<1>9. TraceTypeOK
    BY <1>1, <1>4, <1>8 DEF TraceTypeOK, AfterReset
<1>10. Resetting
    BY <1>1, <1>3, <1>4, <1>6 DEF Resetting, Holds, AfterReset
<1> QED
    BY <1>1, <1>3, <1>9, <1>10 DEF TraceInv, OnCourse

(* A step outside an instruction that shows nothing.                                   *)
LEMMA TraceInvQuiet ==
    ASSUME TraceInv, Record, Inv', cpu.cycle = 0 \/ ~Known, Unseen, rom' = rom,
           cpu'.cycle = cpu.cycle, cpu'.ir = cpu.ir, cpu'.resetStage = cpu.resetStage,
           cpu'.adl = cpu.adl
    PROVE  TraceInv' /\ boundary' = boundary
<1>1. cpu.cycle \in 0 .. 7 /\ cpu.resetStage \in 0 .. 2
    BY DEF TraceInv, Inv, TypeOK, Registers
<1>2. cpu'.cycle = 0 \/ ~Known'
    BY DEF Known
<1>3. Snapshot' = Snapshot
    BY DEF Unseen, Snapshot
<1>4. boundary' = boundary
    BY <1>3 DEF Record, AtBoundary, TraceInv, OnCourse
<1>5. TraceTypeOK'
    BY <1>4 DEF TraceInv, TraceTypeOK
<1>6. cpu.resetStage < 2 => Resetting'
    <2> SUFFICES ASSUME Resetting PROVE Resetting'
        BY DEF TraceInv, OnCourse
    <2>1. AfterReset' = AfterReset
        BY DEF AfterReset
    <2> QED
        BY <1>4, <2>1 DEF Resetting, Holds, Unseen
<1>7. cpu.resetStage = 2 /\ cpu.cycle = 0 => boundary' = Snapshot'
    BY <1>3, <1>4 DEF TraceInv, OnCourse
<1>8. OnCourse'
    BY <1>1, <1>2, <1>6, <1>7 DEF OnCourse
<1> QED
    BY <1>4, <1>5, <1>8 DEF TraceInv

(* A call of reset() between two instructions.                                         *)
LEMMA TraceInvResetCall ==
    ASSUME TraceInv, Record, ResetBetweenInstructions
    PROVE  TraceInv' /\ boundary' = boundary
<1>1. Inv'
    BY InvNext DEF TraceInv, Next
<1>2. /\ cpu.cycle = 0 /\ cpu' = Reset(cpu) /\ sram' = sram /\ rom' = rom
    BY DEF ResetBetweenInstructions, busVars
<1>3. cpu \in Registers
    BY DEF TraceInv, Inv, TypeOK
<1>4. /\ cpu'.a = 0 /\ cpu'.x = 0 /\ cpu'.y = 0 /\ cpu'.sp = 255 /\ cpu'.pc = RESET_VECTOR
      /\ cpu'.status = 0 /\ cpu'.cycle = 0 /\ cpu'.resetStage = 0
    BY <1>2, <1>3 DEF Reset, Registers
<1>5. boundary' = boundary
    BY <1>4 DEF Record, AtBoundary
<1>6. TraceTypeOK'
    BY <1>5 DEF TraceInv, TraceTypeOK
<1>7. boundary.ram = sram
    <2>1. cpu.resetStage \in 0 .. 2
        BY <1>3 DEF Registers
    <2>2. CASE cpu.resetStage = 2
        BY <1>2, <2>2 DEF TraceInv, OnCourse, Snapshot
    <2>3. CASE cpu.resetStage < 2
        BY <2>3 DEF TraceInv, OnCourse, Resetting, Holds
    <2> QED
        BY <2>1, <2>2, <2>3
<1>8. RESET_VECTOR + 0 = RESET_VECTOR
    BY DEF RESET_VECTOR
<1>9. Architectural(cpu') = [AfterReset'.regs EXCEPT !.pc = RESET_VECTOR + cpu'.resetStage]
    BY <1>4, <1>8 DEF Architectural, AfterReset
<1>10. Resetting'
    BY <1>2, <1>4, <1>5, <1>7, <1>9 DEF Resetting, Holds
<1>11. OnCourse'
    BY <1>4, <1>10 DEF OnCourse
<1> QED
    BY <1>1, <1>5, <1>6, <1>11 DEF TraceInv

(* What is known of the instruction under way.                                         *)
LEMMA UnderwayCycle ==
    ASSUME TraceInv, Known, cpu.cycle \in 1 .. 6, NEW s, s = Origin, Underway(s),
           Course(s, Op, Mode, cpu.fromSW, cpu.vector, cpu.cycle)
    PROVE  InCycle(s, Op, Mode, cpu.fromSW, cpu.vector, cpu.cycle)
<1>1. IsState(s) /\ s.rom = rom /\ TypeOK
    BY OriginIsState DEF TraceInv, Inv
<1>2. cpu.vector \in {NMI_VECTOR, IRQ_BRK_VECTOR}
    BY DEF Underway, Software
<1>3. OpcodeMap[cpu.ir].cycles \in 2 .. 7
    BY CyclesOf
<1>4. Row([op |-> Op, mode |-> Mode, cycles |-> OpcodeMap[cpu.ir].cycles])
    BY RowsAssumption DEF Known, Row, Op, Mode
<1> QED
    BY <1>1, <1>2, <1>3, <1>4 DEF InCycle, Cycle

(* The LOW phase.                                                                      *)
LEMMA TraceInvLow ==
    ASSUME TraceInv, Record, Phi2Low
    PROVE  TraceInv' /\ boundary' = boundary
<1>1. Inv' /\ TypeOK /\ Inv
    BY InvNext DEF TraceInv, Inv, Next
<1>2. /\ LowPhase /\ HandlePhi2Low /\ rom' = rom
    BY DEF Phi2Low, LowPhase
<1>3. CASE Known /\ Cycle = 0
    <2>1. cpu' = [cpu EXCEPT !.started = TRUE]
        BY <1>2, <1>3 DEF HandlePhi2Low, OpcodeLow
    <2>2. /\ Architectural(cpu') = Architectural(cpu)
          /\ cpu'.cycle = cpu.cycle /\ cpu'.ir = cpu.ir /\ cpu'.resetStage = cpu.resetStage
          /\ cpu'.adl = cpu.adl
        BY <1>1, <2>1 DEF Architectural, TypeOK, Registers
    <2> QED
        BY <1>1, <1>2, <1>3, <2>2, TraceInvQuiet DEF Unseen, LowPhase, Cycle
<1>4. CASE ~Known
    <2>1. cpu' = cpu
        BY <1>2, <1>4 DEF HandlePhi2Low, Hold
    <2> QED
        BY <1>1, <1>2, <1>4, <2>1, TraceInvQuiet DEF Unseen, LowPhase
<1>5. CASE Known /\ Cycle # 0
    <2>1. cpu.cycle \in 1 .. 6
        <3>1. cpu.cycle \in 0 .. 7 /\ cpu.cycle # 0
            BY <1>1, <1>5 DEF TypeOK, Registers, Cycle
        <3> QED
            BY <1>1, <1>5, <3>1, CyclesOf DEF Inv, CycleInRange
    <2>2. /\ cpu'.cycle = cpu.cycle /\ cpu'.ir = cpu.ir /\ cpu'.resetStage = cpu.resetStage
          /\ cpu'.vector = cpu.vector /\ cpu'.fromSW = cpu.fromSW
        <3>1. cpu' \in {cpu, AdvancePC(cpu)}
            BY <1>1, <1>2, <1>5, LowDrivesOnly DEF DrivesOnly
        <3> QED
            BY <1>1, <3>1 DEF AdvancePC, TypeOK, Registers
    <2>3. boundary' = boundary
        BY <2>1, <2>2 DEF Record, AtBoundary
    <2>4. PICK s : s = Origin
        OBVIOUS
    <2>5. Origin' = s
        BY <1>2, <2>3, <2>4 DEF Origin
    <2>6. Underway(s) /\ Course(s, Op, Mode, cpu.fromSW, cpu.vector, cpu.cycle)
        BY <1>5, <2>1, <2>4 DEF TraceInv, OnCourse
    <2>7. InCycle(s, Op, Mode, cpu.fromSW, cpu.vector, cpu.cycle)
        BY <1>1, <1>5, <2>1, <2>4, <2>6, UnderwayCycle
    <2>8. Course(s, Op, Mode, cpu.fromSW, cpu.vector, cpu.cycle)'
        <3> DEFINE op == Op
                   mode == Mode
                   soft == cpu.fromSW
                   v == cpu.vector
                   k == cpu.cycle
        <3>1. PICK o, m, f, w, n : o = Op /\ m = Mode /\ f = cpu.fromSW /\ w = cpu.vector
                                   /\ n = cpu.cycle
            OBVIOUS
        <3>2. InCycle(s, o, m, f, w, n)
            BY <2>7, <3>1
        <3>3. Course(s, o, m, f, w, n)'
            BY <1>2, <3>2, CourseKept
        <3>4. Op' = o /\ Mode' = m /\ cpu'.fromSW = f /\ cpu'.vector = w /\ cpu'.cycle = n
            BY <2>2, <3>1 DEF Op, Mode
        <3> QED
            BY <3>3, <3>4
    <2>9. Underway(s)'
        BY <2>2, <2>6 DEF Underway, Software
    <2>10. TraceTypeOK'
        BY <2>3 DEF TraceInv, TraceTypeOK
    <2>11. cpu'.cycle # 0 /\ cpu'.resetStage = 2
        BY <1>1, <2>1, <2>2 DEF Inv, Sequencing
    <2>12. Underway(Origin)' /\ Course(Origin, Op, Mode, cpu.fromSW, cpu.vector, cpu.cycle)'
        BY <2>5, <2>8, <2>9
    <2>13. OnCourse'
        BY <2>11, <2>12 DEF OnCourse
    <2> QED
        BY <1>1, <2>3, <2>10, <2>13 DEF TraceInv
<1> QED
    BY <1>3, <1>4, <1>5

(* What the two cycles of the reset sequence leave.                                     *)
LEMMA ResetCycles ==
    ASSUME NEW c \in Registers, NEW r \in Byte, NEW w \in Word
    PROVE  /\ LET d == [[c EXCEPT !.pc = w] EXCEPT !.adl = r, !.resetStage = 1]
              IN  /\ d.a = c.a /\ d.x = c.x /\ d.y = c.y /\ d.sp = c.sp /\ d.status = c.status
                  /\ d.pc = w /\ d.adl = r /\ d.resetStage = 1 /\ d.cycle = c.cycle
           /\ LET d == [c EXCEPT !.adh = r, !.resetStage = 2, !.pc = w]
              IN  /\ d.a = c.a /\ d.x = c.x /\ d.y = c.y /\ d.sp = c.sp /\ d.status = c.status
                  /\ d.pc = w /\ d.resetStage = 2 /\ d.cycle = c.cycle
BY DEF Registers

(* The two bytes of the reset vector.                                                  *)
LEMMA TraceInvReset ==
    ASSUME TraceInv, Record, Phi2High, cpu.started, cpu.resetStage < 2, HandleReset
    PROVE  /\ TraceInv'
           /\ \/ boundary' = boundary
              \/ boundary' = [regs |-> AfterReset.regs, ram |-> boundary.ram]
<1>1. Inv' /\ Inv
    BY InvNext DEF TraceInv, Next
<1>2. cpu \in Registers /\ TypeOK
    BY <1>1 DEF Inv, TypeOK
<1>3. /\ Resetting /\ cpu.cycle = 0 /\ Architectural(cpu)
           = [AfterReset.regs EXCEPT !.pc = RESET_VECTOR + cpu.resetStage]
      /\ sram = boundary.ram /\ cpu.resetStage \in {0, 1}
    BY <1>2 DEF TraceInv, OnCourse, Resetting, Holds, Registers
<1>4. /\ cpu.a = 0 /\ cpu.x = 0 /\ cpu.y = 0 /\ cpu.sp = 255 /\ cpu.status = 0
      /\ cpu.pc = RESET_VECTOR + cpu.resetStage
    BY <1>3, Shown DEF AfterReset
<1>5. edge = "HIGH" /\ address' = address /\ rom' = rom
    BY DEF Phi2High
<1>6. address = RESET_VECTOR + cpu.resetStage
    BY <1>1, <1>3, <1>4, <1>5 DEF Inv, FetchesAtPC
<1> DEFINE r == ByteAt(rom, RESET_VECTOR + cpu.resetStage)
<1>7. ReadBytes = {r} /\ r \in Byte
    <2>1. address \in Word /\ address \in EEPROMAddresses
        BY <1>3, <1>6, WordMember, EEPROMMember DEF RESET_VECTOR
    <2>2. InMemorySpace(address)
        BY <2>1, MemoriesDecodeTheirRange DEF InMemorySpace
    <2>3. PICK s : s = [regs |-> boundary.regs, ram |-> sram, rom |-> rom]
        OBVIOUS
    <2>4. IsState(s) /\ s.ram = sram /\ s.rom = rom
        BY <1>2, <2>3 DEF TraceInv, TraceTypeOK, TypeOK, BusTypeOK, IsState
    <2>5. ReadBytes = {Peek(s, address)} /\ Peek(s, address) \in Byte
        BY <1>2, <2>2, <2>4, ReadsCell
    <2>6. ~(address < EEPROM_FIRST)
        BY <1>3, <1>6 DEF RESET_VECTOR, EEPROM_FIRST
    <2> QED
        BY <1>6, <2>4, <2>5, <2>6 DEF Peek
<1> HIDE DEF r
<1>8. /\ sram' = sram
      /\ \/ /\ cpu.resetStage = 0
            /\ cpu' = [AdvancePC(cpu) EXCEPT !.adl = r, !.resetStage = 1]
         \/ /\ cpu.resetStage = 1
            /\ cpu' = [cpu EXCEPT !.adh = r, !.resetStage = 2, !.pc = Join(r, cpu.adl)]
    BY <1>7 DEF HandleReset, FetchByte
<1>9. CASE cpu.resetStage = 0
    <2>1. U16(cpu.pc + 1) = RESET_VECTOR + 1
        BY <1>4, <1>9 DEF RESET_VECTOR, U16
    <2>2. /\ cpu'.a = 0 /\ cpu'.x = 0 /\ cpu'.y = 0 /\ cpu'.sp = 255 /\ cpu'.status = 0
          /\ cpu'.pc = RESET_VECTOR + 1 /\ cpu'.adl = r /\ cpu'.resetStage = 1 /\ cpu'.cycle = 0
        <3> DEFINE w == RESET_VECTOR + 1
        <3>1. w \in Word
            BY WordMember DEF RESET_VECTOR
        <3>2. cpu' = [[cpu EXCEPT !.pc = w] EXCEPT !.adl = r, !.resetStage = 1]
            <4>1. cpu' = [AdvancePC(cpu) EXCEPT !.adl = r, !.resetStage = 1]
                BY <1>8, <1>9
            <4>2. AdvancePC(cpu) = [cpu EXCEPT !.pc = w]
                BY <2>1 DEF AdvancePC
            <4> QED
                BY <4>1, <4>2, Zenon
        <3> HIDE DEF w
        <3>3. /\ cpu'.a = cpu.a /\ cpu'.x = cpu.x /\ cpu'.y = cpu.y /\ cpu'.sp = cpu.sp
              /\ cpu'.status = cpu.status /\ cpu'.pc = w /\ cpu'.adl = r
              /\ cpu'.resetStage = 1 /\ cpu'.cycle = cpu.cycle
            BY <1>2, <1>7, <3>1, <3>2, ResetCycles
        <3> QED
            BY <1>3, <1>4, <3>3 DEF w
    <2>3. boundary' = boundary
        BY <2>2 DEF Record, AtBoundary
    <2>4. r = ByteAt(rom, RESET_VECTOR)
        BY <1>9 DEF r, RESET_VECTOR
    <2>5. Architectural(cpu') = [AfterReset'.regs EXCEPT !.pc = RESET_VECTOR + 1]
        BY <2>2 DEF Architectural, AfterReset
    <2>6. Resetting'
        BY <1>3, <1>5, <1>8, <2>2, <2>3, <2>4, <2>5 DEF Resetting, Holds
    <2>7. TraceTypeOK'
        BY <2>3 DEF TraceInv, TraceTypeOK
    <2>8. OnCourse'
        BY <2>2, <2>6 DEF OnCourse
    <2> QED
        BY <1>1, <2>3, <2>7, <2>8 DEF TraceInv
<1>10. CASE cpu.resetStage = 1
    <2> DEFINE w == Join(r, cpu.adl)
    <2>1. /\ cpu'.a = 0 /\ cpu'.x = 0 /\ cpu'.y = 0 /\ cpu'.sp = 255 /\ cpu'.status = 0
          /\ cpu'.pc = w /\ cpu'.resetStage = 2 /\ cpu'.cycle = 0
        <3>1. w \in Word
            BY <1>2, <1>7, JoinType DEF Registers
        <3>2. cpu' = [cpu EXCEPT !.adh = r, !.resetStage = 2, !.pc = w]
            BY <1>8, <1>10
        <3> HIDE DEF w
        <3>3. /\ cpu'.a = cpu.a /\ cpu'.x = cpu.x /\ cpu'.y = cpu.y /\ cpu'.sp = cpu.sp
              /\ cpu'.status = cpu.status /\ cpu'.pc = w
              /\ cpu'.resetStage = 2 /\ cpu'.cycle = cpu.cycle
            BY <1>2, <1>7, <3>1, <3>2, ResetCycles
        <3> QED
            BY <1>3, <1>4, <3>3
    <2>2. boundary' = Snapshot'
        BY <2>1 DEF Record, AtBoundary
    <2>3. r = ByteAt(rom, RESET_VECTOR + 1) /\ cpu.adl = ByteAt(rom, RESET_VECTOR)
        BY <1>3, <1>10 DEF r, Resetting
    <2>4. Architectural(cpu') = AfterReset.regs
        BY <2>1, <2>3 DEF Architectural, AfterReset
    <2>5. boundary' = [regs |-> AfterReset.regs, ram |-> boundary.ram]
        BY <1>3, <1>8, <2>2, <2>4 DEF Snapshot
    <2>6. TypeOK'
        BY <1>1 DEF Inv
    <2>7. TraceTypeOK'
        <3>1. cpu' \in Registers /\ IsMemory(sram', SRAMAddresses)
            BY <2>6 DEF TypeOK, BusTypeOK
        <3>2. Architectural(cpu') \in File
            BY <3>1, ArchitecturalType
        <3> QED
            BY <2>2, <3>1, <3>2 DEF Snapshot, TraceTypeOK
    <2>8. OnCourse'
        BY <2>1, <2>2 DEF OnCourse
    <2> QED
        BY <1>1, <2>5, <2>7, <2>8 DEF TraceInv
<1> QED
    BY <1>3, <1>9, <1>10

(* Cycle 0: an instruction or an interrupt sequence begins.                            *)
LEMMA CourseBegins ==
    ASSUME NEW s, IsState(s), NEW op, NEW mode, NEW n,
           Row([op |-> op, mode |-> mode, cycles |-> n]),
           NEW soft, NEW v, edge' = "LOW", sram' = s.ram,
           Architectural(cpu') = IF op = "BRK" THEN [s.regs EXCEPT !.pc = ReturnAddress(s, soft, v)]
                                 ELSE Behind(s, 1)
    PROVE  Course(s, op, mode, soft, v, 1)'
<1>1. CASE op = "BRK"
    <2>1. mode = "IMP"
        BY <1>1 DEF Row, MemoryOps, ReadOps, ModifyOps, StoreOps, PointerOps, Branches
    <2> QED
        BY <1>1, <2>1 DEF Course, EntryCourse, Holds
<1>2. CASE op # "BRK"
    <2>1. Holds(Behind(s, 1), s.ram)' /\ Fetching(s, 1)' /\ Ready(s, 1, PCAfter(s, 1))'
        BY <1>2 DEF Holds, Fetching, Ready, Driving
    <2>2. 1 \in 1 .. 2
        OBVIOUS
    <2>3. /\ AccumulatorCourse(s, op, 1)' /\ ImmediateCourse(s, op, 1)'
          /\ ZeroPageCourse(s, op, 1)' /\ ZeroPageIndexedCourse(s, op, mode, 1)'
          /\ AbsoluteCourse(s, op, mode, 1)' /\ JumpCourse(s, 1)' /\ CallCourse(s, 1)'
        BY <2>1 DEF AccumulatorCourse, ImmediateCourse, ZeroPageCourse, ZeroPageIndexedCourse,
                    AbsoluteCourse, JumpCourse, CallCourse
    <2>4. /\ IndirectCourse(s, 1)' /\ PointerCourse(s, op, mode, 1)'
          /\ RelativeCourse(s, op, 1)' /\ RegisterCourse(s, op, 1)' /\ PushCourse(s, op, 1)'
        BY <2>1 DEF IndirectCourse, PointerCourse, RelativeCourse, RegisterCourse, PushCourse
    <2>5. PullCourse(s, op, 1)' /\ ReturnCourse(s, 1)' /\ InterruptReturnCourse(s, 1)'
        BY <2>1, <2>2 DEF PullCourse, ReturnCourse, InterruptReturnCourse
    <2>6. /\ mode \in AddressingMode
          /\ mode = "ABS" => op \in MemoryOps \cup {"JMP", "JSR"}
          /\ mode \in {"ABSX", "ABSY"} => op \in MemoryOps
          /\ mode = "IMP" => op \in RegisterOps \cup StackOps \cup {"NOP"}
        BY RowOps
    <2>7. mode = "IMP" => \/ op \in RegisterOps \cup {"NOP"}
                          \/ op \in {"PHA", "PHP"}
                          \/ op \in {"PLA", "PLP"}
                          \/ op = "RTS" \/ op = "RTI"
        BY <1>2, <2>6 DEF StackOps
    <2>8. CASE mode = "IMP"
        BY <2>4, <2>5, <2>7, <2>8, Zenon DEF Course
    <2>9. CASE mode \in {"ABS", "ABSX", "ABSY"}
        BY <2>3, <2>6, <2>9 DEF Course
    <2>10. CASE mode \in {"ACC", "IMM", "ZP", "ZPX", "ZPY"}
        BY <2>3, <2>10 DEF Course
    <2>11. CASE mode = "IND"
        <3>1. IndirectCourse(s, 1)'
            BY <2>4
        <3> QED
            BY <2>11, <3>1, Zenon DEF Course
    <2>12. CASE mode \in {"INDX", "INDY"}
        BY <2>4, <2>12, Zenon DEF Course
    <2>13. CASE mode = "REL"
        BY <2>4, <2>13, Zenon DEF Course
    <2> QED
        BY <2>6, <2>8, <2>9, <2>10, <2>11, <2>12, <2>13 DEF AddressingMode
<1> QED
    BY <1>1, <1>2

(* The first cycle of an instruction or an interrupt entry starts its course.         *)
LEMMA TraceInvBegin ==
    ASSUME TraceInv, CodeInMemory, Record, Phi2High, cpu.started, cpu.resetStage = 2, Cycle = 0,
           TakeNMI \/ TakeIRQ \/ FetchOpcode
    PROVE  TraceInv' /\ boundary' = boundary
<1>1. Inv' /\ Inv
    BY InvNext DEF TraceInv, Next
<1>2. cpu \in Registers /\ TypeOK /\ TypeOK'
    BY <1>1 DEF Inv, TypeOK
<1>3. edge = "HIGH" /\ edge' = "LOW" /\ address' = address /\ rom' = rom
    BY DEF Phi2High
<1>4. boundary = Snapshot
    BY DEF TraceInv, OnCourse, Cycle
<1>5. PICK s : s = Origin
    OBVIOUS
<1>6. /\ IsState(s) /\ s.rom = rom /\ s.ram = sram /\ s.regs = Architectural(cpu)
      /\ s.regs.pc = cpu.pc /\ s.regs.status = cpu.status /\ cpu.pc \in Word
    BY <1>2, <1>4, <1>5, OriginIsState DEF Snapshot, Architectural, Registers
<1>7. PCAfter(s, 0) = cpu.pc /\ Behind(s, 0) = s.regs
    <2>1. cpu.pc \in Int /\ 0 <= cpu.pc /\ cpu.pc <= 65535
        BY <1>6, WordMember
    <2>2. PCAfter(s, 0) = s.regs.pc
        BY <1>6, <2>1 DEF PCAfter, U16
    <2> QED
        BY <1>6, <2>2 DEF Behind, IsState, File
<1>8. CASE FetchOpcode
    <2>1. address = cpu.pc
        BY <1>1, <1>3 DEF Inv, FetchesAtPC, Cycle
    <2>2. InMemorySpace(address)
        BY <1>3 DEF CodeInMemory, Operating
    <2>3. ReadBytes = {CodeByte(s, 0)}
        BY <1>2, <1>6, <1>7, <2>1, <2>2, ReadsCell DEF CodeByte
    <2> DEFINE m == CodeByte(s, 0)
               w == PCAfter(s, 1)
    <2>4. m \in Byte /\ w \in Word /\ 0 \in 0 .. 2
        BY <1>6, CodeTypes, BehindFields
    <2>5. U16(cpu.pc + 1) = w
        BY <1>6, <1>7, <2>4, PCSteps
    <2>6. /\ sram' = sram
          /\ cpu' = [AdvancePC(cpu) EXCEPT !.ir = m, !.vector = IRQ_BRK_VECTOR,
                                           !.fromSW = TRUE, !.cycle = 1]
        BY <1>8, <2>3 DEF FetchOpcode, FetchByte
    <2>7. AdvancePC(cpu) = [cpu EXCEPT !.pc = w]
        BY <2>5 DEF AdvancePC
    <2> HIDE DEF m, w
    <2>8. /\ cpu'.a = cpu.a /\ cpu'.x = cpu.x /\ cpu'.y = cpu.y /\ cpu'.sp = cpu.sp
          /\ cpu'.status = cpu.status /\ cpu'.pc = w /\ cpu'.ir = m
          /\ cpu'.vector = IRQ_BRK_VECTOR /\ cpu'.fromSW = TRUE /\ cpu'.cycle = 1
          /\ cpu'.resetStage = 2
        <3>1. cpu' = [[cpu EXCEPT !.pc = w] EXCEPT !.ir = m, !.vector = IRQ_BRK_VECTOR,
                                           !.fromSW = TRUE, !.cycle = 1]
            BY <2>6, <2>7, Zenon
        <3> QED
            BY <1>2, <3>1 DEF Registers
    <2>9. Architectural(cpu') = Behind(s, 1)
        BY <1>6, <2>8 DEF Architectural, Behind, w
    <2>10. boundary' = boundary
        BY <2>8 DEF Record, AtBoundary
    <2>11. Origin' = s
        BY <1>3, <1>5, <2>10 DEF Origin
    <2>12. Underway(s)'
        BY <2>8 DEF Underway, Software, m
    <2>13. ReturnAddress(s, TRUE, IRQ_BRK_VECTOR) = PCAfter(s, 1)
        BY DEF ReturnAddress
    <2>14. Known' => Course(s, Op, Mode, cpu.fromSW, cpu.vector, cpu.cycle)'
        <3>1. PICK op, mode, n : op = OpcodeMap[m].op /\ mode = OpcodeMap[m].mode
                                 /\ n = OpcodeMap[m].cycles
            OBVIOUS
        <3>2. Known' => Row([op |-> op, mode |-> mode, cycles |-> n])
            BY <2>8, <3>1, RowsAssumption DEF Known, Row
        <3>3. Architectural(cpu') = IF op = "BRK"
                 THEN [s.regs EXCEPT !.pc = ReturnAddress(s, TRUE, IRQ_BRK_VECTOR)]
                 ELSE Behind(s, 1)
            BY <2>9, <2>13 DEF Behind
        <3>4. Known' => Course(s, op, mode, TRUE, IRQ_BRK_VECTOR, 1)'
            BY <1>3, <1>6, <2>6, <3>2, <3>3, CourseBegins
        <3>5. Op' = op /\ Mode' = mode
            BY <2>8, <3>1 DEF Op, Mode
        <3> QED
            BY <2>8, <3>4, <3>5
    <2>15. TraceTypeOK'
        BY <2>10 DEF TraceInv, TraceTypeOK
    <2>16. Known' => /\ Underway(Origin)'
                     /\ Course(Origin, Op, Mode, cpu.fromSW, cpu.vector, cpu.cycle)'
        BY <2>11, <2>12, <2>14
    <2>17. OnCourse'
        BY <2>8, <2>16 DEF OnCourse
    <2> QED
        BY <1>1, <2>10, <2>15, <2>17 DEF TraceInv
<1>9. CASE TakeNMI \/ TakeIRQ
    <2> DEFINE v == IF TakeNMI THEN NMI_VECTOR ELSE IRQ_BRK_VECTOR
               soft == IF TakeNMI THEN cpu.fromSW ELSE FALSE
    <2>1. /\ sram' = sram
          /\ cpu' = [cpu EXCEPT !.ir = BRK, !.vector = v, !.fromSW = soft, !.cycle = 1]
          /\ TakeNMI \/ ~Has(cpu.status, INTERRUPT)
        BY <1>2, <1>9 DEF TakeNMI, TakeIRQ, NoTransfer, InterruptPending, Registers
    <2>2. ReturnAddress(s, soft, v) = PCAfter(s, 0)
        BY DEF ReturnAddress, NMI_VECTOR, IRQ_BRK_VECTOR
    <2>3. v \in {NMI_VECTOR, IRQ_BRK_VECTOR} /\ ~(soft /\ v = IRQ_BRK_VECTOR)
          /\ (v = NMI_VECTOR \/ ~Has(cpu.status, INTERRUPT))
        BY <2>1 DEF NMI_VECTOR, IRQ_BRK_VECTOR
    <2> HIDE DEF v, soft
    <2>4. /\ cpu'.a = cpu.a /\ cpu'.x = cpu.x /\ cpu'.y = cpu.y /\ cpu'.sp = cpu.sp
          /\ cpu'.status = cpu.status /\ cpu'.pc = cpu.pc /\ cpu'.ir = BRK
          /\ cpu'.vector = v /\ cpu'.fromSW = soft /\ cpu'.cycle = 1
          /\ cpu'.resetStage = 2
        BY <1>2, <2>1 DEF Registers
    <2>5. Architectural(cpu') = [s.regs EXCEPT !.pc = ReturnAddress(s, soft, v)]
        <3>1. Architectural(cpu') = s.regs
            BY <1>6, <2>4 DEF Architectural
        <3> QED
            BY <1>7, <2>2, <3>1 DEF Behind
    <2>6. boundary' = boundary
        BY <2>4 DEF Record, AtBoundary
    <2>7. Origin' = s
        BY <1>3, <1>5, <2>6 DEF Origin
    <2>8. Underway(s)'
        BY <1>6, <2>3, <2>4 DEF Underway, Software
    <2>9. Op' = "BRK" /\ Mode' = "IMP"
        BY <2>4, OpcodeMapAssumption DEF Op, Mode, BRK
    <2>10. Course(s, Op, Mode, cpu.fromSW, cpu.vector, cpu.cycle)'
        <3>1. PICK op, mode, f, w : op = "BRK" /\ mode = "IMP" /\ f = soft /\ w = v
            OBVIOUS
        <3>2. Row([op |-> op, mode |-> mode, cycles |-> 7])
            BY <3>1, RowsAssumption, OpcodeMapAssumption
        <3>3. Architectural(cpu') = IF op = "BRK" THEN [s.regs EXCEPT !.pc = ReturnAddress(s, f, w)]
                                    ELSE Behind(s, 1)
            BY <2>5, <3>1
        <3>4. Course(s, op, mode, f, w, 1)'
            BY <1>3, <1>6, <2>1, <3>2, <3>3, CourseBegins
        <3>5. Op' = op /\ Mode' = mode /\ cpu'.fromSW = f /\ cpu'.vector = w /\ cpu'.cycle = 1
            BY <2>4, <2>9, <3>1
        <3> QED
            BY <3>4, <3>5
    <2>11. TraceTypeOK'
        BY <2>6 DEF TraceInv, TraceTypeOK
    <2>12. Underway(Origin)' /\ Course(Origin, Op, Mode, cpu.fromSW, cpu.vector, cpu.cycle)'
        BY <2>7, <2>8, <2>10
    <2>13. OnCourse'
        BY <2>4, <2>12 DEF OnCourse
    <2> QED
        BY <1>1, <2>6, <2>11, <2>13 DEF TraceInv
<1> QED
    BY <1>8, <1>9

(* A cycle inside an instruction.                                                      *)
LEMMA InstructionRuns ==
    ASSUME TraceInv, CodeInMemory, Phi2High, Cycle # 0, Known, InstructionHigh,
           NEW s, s = Origin, NEW op, NEW mode, NEW soft, NEW v, NEW k,
           Op = op, Mode = mode, cpu.fromSW = soft, cpu.vector = v, Cycle = k
    PROVE  /\ InCycle(s, op, mode, soft, v, k)
           /\ Underway(s)
           /\ Course(s, op, mode, soft, v, k + 1)'
<1>1. Inv /\ TypeOK
    BY DEF TraceInv, Inv
<1>2. HighPhase
    BY DEF Phi2High, HighPhase
<1>3. cpu.cycle \in 1 .. 6
    <2>1. cpu.cycle \in 0 .. 7 /\ cpu.cycle # 0
        BY <1>1 DEF TypeOK, Registers, Cycle
    <2> QED
        BY <1>1, <2>1, CyclesOf DEF Inv, CycleInRange
<1>4. Underway(s) /\ Course(s, Op, Mode, cpu.fromSW, cpu.vector, cpu.cycle)
    BY <1>3 DEF TraceInv, OnCourse
<1>5. InCycle(s, op, mode, soft, v, k)
    <2>1. InCycle(s, Op, Mode, cpu.fromSW, cpu.vector, cpu.cycle)
        BY <1>3, <1>4, UnderwayCycle
    <2> QED
        BY <2>1 DEF Cycle
<1>6. cpu.started
    BY <1>1, <1>3 DEF Inv, Sequencing
<1>7. Served
    BY <1>6 DEF CodeInMemory, Served, Phi2High
<1> QED
    BY <1>2, <1>4, <1>5, <1>7, CourseKept

(* The later ones keep it, and the last one ends it with a new boundary.              *)
LEMMA TraceInvInstruction ==
    ASSUME TraceInv, CodeInMemory, Record, Phi2High, Cycle # 0, Known, InstructionHigh
    PROVE  /\ TraceInv'
           /\ \/ boundary' = boundary
              \/ /\ boundary' = Snapshot'
                 /\ Cycle + 1 = OpcodeMap[cpu.ir].cycles
<1>1. Inv' /\ Inv
    BY InvNext DEF TraceInv, Next
<1>2. cpu \in Registers /\ TypeOK /\ TypeOK' /\ cpu.cycle # 0 /\ cpu.cycle \in Nat
    BY <1>1 DEF Inv, TypeOK, Cycle, Registers
<1>3. PICK c : Leaves(c) /\ Step(c)
    BY <1>2, HighAdvances DEF Advances
<1>4. /\ cpu'.ir = cpu.ir /\ cpu'.vector = cpu.vector /\ cpu'.fromSW = cpu.fromSW
      /\ cpu'.resetStage = cpu.resetStage
      /\ \/ cpu'.cycle = 0 /\ Cycle + 1 = OpcodeMap[cpu.ir].cycles
         \/ cpu'.cycle = cpu.cycle + 1
    BY <1>3 DEF Leaves, Step, NextCycle, Registers, Cycle
<1>5. cpu.resetStage = 2
    BY <1>1, <1>2 DEF Inv, Sequencing
<1>6. CASE cpu'.cycle = 0 /\ Cycle + 1 = OpcodeMap[cpu.ir].cycles
    <2>1. boundary' = Snapshot'
        BY <1>4, <1>5, <1>6 DEF Record, AtBoundary
    <2>2. TraceTypeOK'
        <3>1. cpu' \in Registers /\ IsMemory(sram', SRAMAddresses)
            BY <1>2 DEF TypeOK, BusTypeOK
        <3>2. Architectural(cpu') \in File
            BY <3>1, ArchitecturalType
        <3> QED
            BY <2>1, <3>1, <3>2 DEF Snapshot, TraceTypeOK
    <2>3. OnCourse'
        BY <1>4, <1>5, <1>6, <2>1 DEF OnCourse
    <2> QED
        BY <1>1, <1>6, <2>1, <2>2, <2>3 DEF TraceInv
<1>7. CASE cpu'.cycle = cpu.cycle + 1
    <2>1. cpu'.cycle # 0
        BY <1>2, <1>7
    <2>2. boundary' = boundary
        BY <2>1 DEF Record, AtBoundary
    <2>3. PICK s, op, mode, soft, v, k :
              /\ s = Origin /\ op = Op /\ mode = Mode /\ soft = cpu.fromSW /\ v = cpu.vector
              /\ k = Cycle
        OBVIOUS
    <2>4. Underway(s) /\ Course(s, op, mode, soft, v, k + 1)'
        BY <2>3, InstructionRuns
    <2>5. Origin' = s
        BY <2>2, <2>3 DEF Origin, Phi2High
    <2>6. Op' = op /\ Mode' = mode /\ cpu'.fromSW = soft /\ cpu'.vector = v /\ cpu'.cycle = k + 1
        BY <1>4, <1>7, <2>3 DEF Op, Mode, Cycle
    <2>7. Underway(s)'
        BY <1>4, <2>4 DEF Underway, Software
    <2>8. Underway(Origin)' /\ Course(Origin, Op, Mode, cpu.fromSW, cpu.vector, cpu.cycle)'
        BY <2>4, <2>5, <2>6, <2>7
    <2>9. TraceTypeOK'
        BY <2>2 DEF TraceInv, TraceTypeOK
    <2>10. OnCourse'
        BY <1>4, <1>5, <2>1, <2>8 DEF OnCourse
    <2> QED
        BY <1>1, <2>2, <2>9, <2>10 DEF TraceInv
<1> QED
    BY <1>4, <1>6, <1>7

(* The HIGH phase.                                                                     *)
LEMMA TraceInvHigh ==
    ASSUME TraceInv, CodeInMemory, Record, Phi2High
    PROVE  TraceInv'
<1>1. Inv' /\ Inv
    BY InvNext DEF TraceInv, Next
<1>2. HandlePhi2High /\ rom' = rom
    BY DEF Phi2High
<1>3. CASE NoTransfer /\ UNCHANGED cpu /\ (~cpu.started \/ ~Known)
    <2>1. cpu.cycle = 0 \/ ~Known
        BY <1>1, <1>3 DEF Inv, TypeOK, Registers, Sequencing
    <2> QED
        BY <1>1, <1>2, <1>3, <2>1, TraceInvQuiet DEF NoTransfer, Unseen
<1>4. CASE cpu.started /\ cpu.resetStage < 2 /\ HandleReset
    BY <1>4, TraceInvReset
<1>5. CASE /\ cpu.started /\ cpu.resetStage = 2 /\ Cycle = 0
           /\ TakeNMI \/ TakeIRQ \/ FetchOpcode
    BY <1>5, TraceInvBegin
<1>6. CASE Cycle # 0 /\ Known /\ InstructionHigh
    BY <1>6, TraceInvInstruction
<1> QED
    BY <1>2, <1>3, <1>4, <1>5, <1>6 DEF HandlePhi2High, UnlistedHigh, InstructionHigh

(* The pins, and a stuttering step.                                                    *)
LEMMA TraceInvPins ==
    ASSUME TraceInv, UNCHANGED <<cpu, edge, busVars>>, Record \/ boundary' = boundary, Inv'
    PROVE  TraceInv' /\ boundary' = boundary
<1>1. /\ cpu' = cpu /\ edge' = edge /\ address' = address /\ sram' = sram /\ rom' = rom
    BY DEF busVars
<1>2. Snapshot' = Snapshot
    BY <1>1 DEF Snapshot, Architectural
<1>3. boundary' = boundary
    BY <1>1, <1>2 DEF Record, AtBoundary, TraceInv, OnCourse
<1>4. TraceTypeOK'
    BY <1>3 DEF TraceInv, TraceTypeOK
<1>5. cpu.resetStage < 2 => Resetting'
    BY <1>1, <1>3 DEF TraceInv, OnCourse, Resetting, Holds, Architectural, AfterReset
<1>6. cpu.resetStage = 2 /\ cpu.cycle = 0 => boundary' = Snapshot'
    BY <1>2, <1>3 DEF TraceInv, OnCourse
<1>7. ASSUME cpu.cycle > 0, Known
      PROVE  (Underway(Origin) /\ Course(Origin, Op, Mode, cpu.fromSW, cpu.vector, cpu.cycle))'
    <2>1. PICK s, op, mode, soft, v, k :
              /\ s = Origin /\ op = Op /\ mode = Mode /\ soft = cpu.fromSW /\ v = cpu.vector
              /\ k = cpu.cycle
        OBVIOUS
    <2>2. Underway(s) /\ Course(s, op, mode, soft, v, k)
        BY <1>7, <2>1 DEF TraceInv, OnCourse
    <2>3. Course(s, op, mode, soft, v, k)'
        BY <1>1, <2>2, CourseStays
    <2>4. Underway(s)'
        BY <1>1, <2>2 DEF Underway, Software
    <2>5. /\ Origin' = s /\ Op' = op /\ Mode' = mode /\ cpu'.fromSW = soft /\ cpu'.vector = v
          /\ cpu'.cycle = k
        BY <1>1, <1>3, <2>1 DEF Origin, Op, Mode
    <2> QED
        BY <2>3, <2>4, <2>5
<1>8. OnCourse'
    BY <1>1, <1>5, <1>6, <1>7 DEF OnCourse, Known
<1> QED
    BY <1>3, <1>4, <1>8 DEF TraceInv

(* No step breaks it, as long as the program's code and pointers lie in the memories.   *)
LEMMA TraceInvNext == TraceInv /\ CodeInMemory /\ [TraceNext]_traceVars => TraceInv'
<1> SUFFICES ASSUME TraceInv, CodeInMemory, [TraceNext]_traceVars PROVE TraceInv'
    OBVIOUS
<1>1. Inv'
    BY InvNext DEF TraceInv, TraceNext, traceVars
<1>2. CASE UNCHANGED traceVars
    BY <1>1, <1>2, TraceInvPins DEF traceVars, vars
<1>3. CASE TraceNext
    <2>1. Record
        BY <1>3 DEF TraceNext
    <2>2. CASE Phi2Low
        BY <2>1, <2>2, TraceInvLow
    <2>3. CASE Phi2High
        BY <2>1, <2>3, TraceInvHigh
    <2>4. CASE SetIRQ \/ SetNMI
        BY <1>1, <2>1, <2>4, TraceInvPins DEF SetIRQ, SetNMI
    <2>5. CASE ResetBetweenInstructions
        BY <2>1, <2>5, TraceInvResetCall
    <2> QED
        BY <1>3, <2>2, <2>3, <2>4, <2>5 DEF TraceNext, Next
<1> QED
    BY <1>2, <1>3

(* Every instruction keeps to its course from its first cycle to its last, and a reset  *)
(* to its own, whatever the opcode table, the moments at which the pins change and the  *)
(* program, as long as its code and pointers lie in SRAM and EEPROM: no latch of        *)
(* W65C02S.cpp is disturbed before the cycle that uses it.                              *)
THEOREM InstructionsKeepCourse == TraceSpec /\ []CodeInMemory => []OnCourse
<1>1. TraceInv => OnCourse
    BY DEF TraceInv
<1> QED
    BY <1>1, TraceInvInit, TraceInvNext, PTL DEF TraceSpec

-----------------------------------------------------------------------------------
(* The memories' addresses: the zero page and the stack, the vectors, and the rest.     *)
LEMMA MemoryAddresses ==
    ASSUME NEW a \in Word
    PROVE  InMemorySpace(a) <=> a < 16384 \/ a >= 32768
<1>1. InMemorySpace(a) <=> a \in SRAMAddresses \/ a \in EEPROMAddresses
    BY MemoriesDecodeTheirRange DEF InMemorySpace
<1>2. a \in Int /\ 0 <= a /\ a <= 65535
    BY WordMember
<1> QED
    BY <1>1, <1>2, SRAMMember, EEPROMMember

(* What a LOW phase may make of the address latch, and the HIGH phase then finds there.  *)
LowAddress ==
    \/ address' = address
    \/ InMemorySpace(address')
    \/ Operating /\ Decoded(address')

(* The stack, the zero page and the vectors lie in the memories.                        *)
LEMMA DrivesMemory ==
    ASSUME TypeOK
    PROVE  /\ InMemorySpace(StackTop) /\ InMemorySpace(cpu.adl) /\ InMemorySpace(cpu.adh)
           /\ InMemorySpace(cpu.add) /\ InMemorySpace(cpu.add + 1)
           /\ \A v \in {NMI_VECTOR, IRQ_BRK_VECTOR} : InMemorySpace(v) /\ InMemorySpace(U16(v + 1))
<1>1. /\ cpu.sp \in Int /\ 0 <= cpu.sp /\ cpu.sp <= 255
      /\ cpu.adl \in Int /\ 0 <= cpu.adl /\ cpu.adl <= 255
      /\ cpu.adh \in Int /\ 0 <= cpu.adh /\ cpu.adh <= 255
      /\ cpu.add \in Int /\ 0 <= cpu.add /\ cpu.add <= 255
    BY RegisterTypes, ByteMember
<1>2. \A a \in Int : 0 <= a /\ a <= 511 => InMemorySpace(a)
    BY MemoryAddresses, WordMember
<1>3. \A a \in Int : 65530 <= a /\ a <= 65535 => InMemorySpace(a)
    BY MemoryAddresses, WordMember
<1>4. \A v \in {NMI_VECTOR, IRQ_BRK_VECTOR} : InMemorySpace(v) /\ InMemorySpace(U16(v + 1))
    BY <1>3 DEF NMI_VECTOR, IRQ_BRK_VECTOR, U16
<1> QED
    BY <1>1, <1>2, <1>4 DEF StackTop

(* The implied and the accumulator modes drive the stack and the vectors only.           *)
LEMMA ImpliedStays ==
    ASSUME TypeOK, cpu.vector \in {NMI_VECTOR, IRQ_BRK_VECTOR}, ImpliedLow
    PROVE  LowAddress
BY DrivesMemory DEF ImpliedLow, Drive, Hold, LowAddress

(* A memory instruction writes its result to A, X, Y or the status, and to no latch.      *)
Untouched(r, c) ==
    r \in Registers /\ r.pc = c.pc /\ r.sp = c.sp /\ r.adl = c.adl /\ r.adh = c.adh

LEMMA SetKeeps ==
    ASSUME NEW c \in Registers, NEW v \in Byte
    PROVE  /\ Untouched(SetA(c, v), c) /\ SetA(c, v).x = c.x /\ SetA(c, v).y = c.y
           /\ Untouched(SetX(c, v), c) /\ SetX(c, v).y = c.y
           /\ Untouched(SetY(c, v), c) /\ SetY(c, v).x = c.x
<1> DEFINE u == UpdateStatusFlags(c.status, v)
<1>1. u \in Byte
    BY FlagsType
<1>2. /\ SetA(c, v) = [c EXCEPT !.a = v, !.status = u]
      /\ SetX(c, v) = [c EXCEPT !.x = v, !.status = u]
      /\ SetY(c, v) = [c EXCEPT !.y = v, !.status = u]
    BY DEF SetA, SetX, SetY
<1> HIDE DEF u
<1>3. Untouched(SetA(c, v), c) /\ SetA(c, v).x = c.x /\ SetA(c, v).y = c.y
    <2>1. LET r == [c EXCEPT !.a = v, !.status = u]
          IN  Untouched(r, c) /\ r.x = c.x /\ r.y = c.y
        BY <1>1 DEF Registers, Untouched
    <2> QED
        BY <1>2, <2>1
<1>4. Untouched(SetX(c, v), c) /\ SetX(c, v).y = c.y
    BY <1>1, <1>2 DEF Registers, Untouched
<1>5. Untouched(SetY(c, v), c) /\ SetY(c, v).x = c.x
    BY <1>1, <1>2 DEF Registers, Untouched
<1> QED
    BY <1>3, <1>4, <1>5

(* The status alone.                                                                   *)
LEMMA StatusKeeps ==
    ASSUME NEW c \in Registers, NEW p \in Byte
    PROVE  LET r == [c EXCEPT !.status = p]
           IN  Untouched(r, c) /\ r.x = c.x /\ r.y = c.y /\ r.a = c.a
BY DEF Registers, Untouched

(* Loads, sums and comparisons.                                                        *)
LEMMA ReadResultKeeps ==
    ASSUME NEW c \in Registers, NEW m \in Byte, NEW op \in ReadOps
    PROVE  LET r == ReadResult(op, c, m)
           IN  /\ Untouched(r, c)
               /\ op # "LDX" => r.x = c.x
               /\ op # "LDY" => r.y = c.y
<1>1. CASE op \in {"LDA", "LDX", "LDY"}
    BY <1>1, SetKeeps DEF ReadResult
<1>2. CASE op \in {"AND", "ORA", "EOR"}
    <2>1. BitAnd(c.a, m) \in Byte /\ BitOr(c.a, m) \in Byte /\ BitXor(c.a, m) \in Byte
        BY ByteOfType DEF BitAnd, BitOr, BitXor
    <2> QED
        BY <1>2, <2>1, SetKeeps DEF ReadResult, doAND, doORA, doEOR
<1>3. CASE op \in {"ADC", "SBC"}
    <2>1. c.a \in Int /\ m \in Int /\ CarryOf(c.status) \in Int
        BY ByteMember, CarryType DEF Registers
    <2> DEFINE n == c.a + m + CarryOf(c.status)
               l == U16(c.a - m - (1 - CarryOf(c.status)))
               p == Put(c.status, CARRY, n > 255)
               q == Put(c.status, CARRY, l <= 255)
    <2>2. U8(n) \in Byte /\ U8(l) \in Byte /\ p \in Byte /\ q \in Byte
        <3>1. n \in Int /\ l \in Int
            BY <2>1, NarrowType, WordMember
        <3> QED
            BY <3>1, NarrowType, PutType
    <2>3. /\ doADC(c, m) = SetA([c EXCEPT !.status = p], U8(n))
          /\ doSBC(c, m) = SetA([c EXCEPT !.status = q], U8(l))
        BY DEF doADC, doSBC
    <2> HIDE DEF n, l, p, q
    <2>4. ASSUME NEW b \in Byte, NEW v \in Byte
          PROVE  LET r == SetA([c EXCEPT !.status = b], v)
                 IN  Untouched(r, c) /\ r.x = c.x /\ r.y = c.y
        <3> DEFINE e == [c EXCEPT !.status = b]
        <3>1. Untouched(e, c) /\ e.x = c.x /\ e.y = c.y
            BY StatusKeeps
        <3> HIDE DEF e
        <3>2. e \in Registers
            BY <3>1 DEF Untouched
        <3>3. Untouched(SetA(e, v), e) /\ SetA(e, v).x = e.x /\ SetA(e, v).y = e.y
            BY <3>2, SetKeeps
        <3>4. Untouched(SetA(e, v), c) /\ SetA(e, v).x = c.x /\ SetA(e, v).y = c.y
            BY <3>1, <3>3 DEF Untouched
        <3> QED
            BY <3>4 DEF e
    <2>5. CASE op = "ADC"
        BY <2>2, <2>3, <2>4, <2>5 DEF ReadResult
    <2>6. CASE op = "SBC"
        BY <2>2, <2>3, <2>4, <2>6 DEF ReadResult
    <2> QED
        BY <1>3, <2>5, <2>6
<1>4. CASE op \in {"CMP", "CPX", "CPY", "BIT"}
    <2>1. \A reg : LET r == doCMP(c, reg, m) IN Untouched(r, c) /\ r.x = c.x /\ r.y = c.y
        BY FlagsType, StatusKeeps DEF doCMP
    <2>2. LET r == doBIT(c, m) IN Untouched(r, c) /\ r.x = c.x /\ r.y = c.y
        BY PutType, StatusKeeps DEF doBIT
    <2> QED
        BY <1>4, <2>1, <2>2 DEF ReadResult
<1> QED
    BY <1>1, <1>2, <1>3, <1>4 DEF ReadOps

(* Whatever a memory instruction does in its cycle, the latches with its operand and an   *)
(* index that is not what it loads stay.                                               *)
LEMMA ExecuteKeeps ==
    ASSUME TypeOK, NEW ops, Execute(ops)
    PROVE  /\ cpu'.pc = cpu.pc /\ cpu'.sp = cpu.sp /\ cpu'.adl = cpu.adl /\ cpu'.adh = cpu.adh
           /\ Op # "LDX" => cpu'.x = cpu.x
           /\ Op # "LDY" => cpu'.y = cpu.y
<1>1. cpu \in Registers /\ ReadBytes \subseteq Byte
    BY ReadBytesType DEF TypeOK
<1>2. PICK c : /\ Step(c) /\ Untouched(c, cpu)
               /\ Op # "LDX" => c.x = cpu.x
               /\ Op # "LDY" => c.y = cpu.y
    <2>1. CASE Op \in ReadOps /\ \E m \in ReadBytes : Read(m)
        BY <1>1, <2>1, ReadResultKeeps DEF Read
    <2>2. CASE Op \in ModifyOps /\ \E m \in ReadBytes : Modify(m)
        <3>1. PICK m \in ReadBytes : Modify(m)
            BY <2>2
        <3> DEFINE r == ModifyResult(Op, cpu.status, m)
        <3>2. Step(InMemory(Op, cpu, r))
            BY <3>1 DEF Modify
        <3>3. LET e == InMemory(Op, cpu, r) IN Untouched(e, cpu) /\ e.x = cpu.x /\ e.y = cpu.y
            BY <1>1, FlagsType, StatusKeeps DEF InMemory, CountedInMemory, ShiftedInMemory
        <3> QED
            BY <3>2, <3>3
    <2>3. CASE Store \/ Idle
        BY <1>1, <2>3 DEF Store, Idle, Untouched
    <2> QED
        BY <2>1, <2>2, <2>3 DEF Execute
<1>3. /\ cpu'.pc = c.pc /\ cpu'.sp = c.sp /\ cpu'.adl = c.adl /\ cpu'.adh = c.adh
      /\ cpu'.x = c.x /\ cpu'.y = c.y
    BY <1>2 DEF Step, NextCycle, Untouched, Registers
<1> QED
    BY <1>2, <1>3 DEF Untouched

(* When a memory instruction has been carried out, the program counter is past it.       *)
LEMMA PerformedPC ==
    ASSUME NEW s, IsState(s), NEW n \in 0 .. 3, NEW op, NEW t, Performed(s, op, n, t)'
    PROVE  cpu'.pc = PCAfter(s, n)
<1> DEFINE d == Behind(s, n)
<1>1. d \in File /\ d.pc = PCAfter(s, n)
    BY BehindFields
<1>2. Readable(s, t) \subseteq Byte
    BY CellType DEF Readable
<1>3. PICK m \in Readable(s, t) : PerformedOn(s, op, n, t, m)'
    BY DEF Performed
<1>4. CASE op \in ReadOps /\ Holds(ReadResult(op, d, m), s.ram)'
    <2> DEFINE c == [a |-> d.a, x |-> d.x, y |-> d.y, sp |-> d.sp, pc |-> d.pc,
                     status |-> d.status, ir |-> m, adl |-> m, adh |-> m, add |-> m,
                     vector |-> d.pc, fromSW |-> TRUE, cycle |-> 0, started |-> TRUE,
                     resetStage |-> 0]
    <2>1. m \in Byte
        BY <1>2
    <2>2. c \in Registers /\ Same(c, d) /\ c.pc = d.pc
        BY <1>1, <2>1, SameFields DEF File, Registers
    <2> HIDE DEF c, d
    <2>3. ReadResult(op, c, m).pc = c.pc
        BY <1>4, <2>1, <2>2, ReadResultKeeps DEF Untouched
    <2>4. Same(ReadResult(op, c, m), ReadResult(op, d, m))
        BY <1>1, <1>4, <2>1, <2>2, ReadSame
    <2>5. cpu'.pc = ReadResult(op, d, m).pc
        BY <1>4 DEF Holds, Architectural
    <2> QED
        BY <1>1, <2>2, <2>3, <2>4, <2>5, SameFields
<1>5. CASE op \in ModifyOps /\ \E f : Holds(InMemory(op, d, ModifyResult(op, s.regs.status, m)), f)'
    <2>1. cpu'.pc = InMemory(op, d, ModifyResult(op, s.regs.status, m)).pc
        BY <1>5 DEF Holds, Architectural
    <2> HIDE DEF d
    <2> QED
        BY <1>1, <2>1 DEF InMemory, CountedInMemory, ShiftedInMemory, File
<1>6. CASE \E f : Holds(d, f)'
    BY <1>1, <1>6 DEF Holds, Architectural
<1> QED
    BY <1>3, <1>4, <1>5, <1>6 DEF PerformedOn

(* A mode that fetches its operand bytes drives the program counter.                   *)
LEMMA FetchStays ==
    ASSUME NEW s, NEW n \in 1 .. 2, InMemorySpace(PCAfter(s, n)), Fetching(s, n)',
           edge' = "HIGH"
    PROVE  InMemorySpace(address')
BY DEF Fetching

(* The memory instructions.                                                            *)
LEMMA MemoryStays ==
    ASSUME NEW s, NEW op \in MemoryOps, NEW mode, NEW soft, NEW v, NEW k,
           InCycle(s, op, mode, soft, v, k), mode \notin {"ACC", "IMP"},
           LowPhase, HandlePhi2Low, DrivenTwice,
           \A n \in 0 .. 3 : InMemorySpace(PCAfter(s, n)), Decoded(Target(s, mode))
    PROVE  LowAddress
<1>1. /\ TypeOK /\ IsState(s) /\ Op = op /\ Mode = mode /\ k \in 1 .. 6 /\ Cycle = k
      /\ Known /\ Cycle # 0
    BY DEF InCycle
<1>2. mode \in {"IMM", "ZP", "ZPX", "ZPY", "ABS", "ABSX", "ABSY", "INDX", "INDY"}
    BY RowOps DEF InCycle, MemoryOps, ReadOps, ModifyOps, StoreOps, Branches, AddressingMode
<1>3. OneCourse(s, op, mode, soft, v, k)'
    <2>1. Course(s, op, mode, soft, v, k)'
        BY MemoryKept
    <2> QED
        BY <2>1 DEF Course, OneCourse, MemoryOps, ReadOps, ModifyOps, StoreOps, RegisterOps
<1>4. op \notin {"JSR", "JMP"}
    BY DEF MemoryOps, ReadOps, ModifyOps, StoreOps
<1>5. edge' = "HIGH"
    BY DEF LowPhase
<1>6. CASE mode = "IMM"
    <2>1. ImmediateLow
        BY <1>1, <1>6, LowHandler
    <2>2. CASE k = 1
        <3>1. ImmediateCourse(s, op, k)'
            BY <1>3, <1>6 DEF OneCourse
        <3>2. Fetching(s, 1)'
            BY <2>2, <3>1 DEF ImmediateCourse
        <3> QED
            BY <1>5, <3>2, FetchStays DEF LowAddress
    <2> QED
        BY <1>1, <2>1, <2>2 DEF ImmediateLow, Hold, LowAddress
<1>7. CASE mode \in {"ZP", "ZPX", "ZPY"}
    <2>1. ZeroPageLow \/ ZeroPageIndexedLow
        BY <1>1, <1>7, LowHandler
    <2>2. CASE k = 1
        <3>1. ZeroPageCourse(s, op, k)' \/ ZeroPageIndexedCourse(s, op, mode, k)'
            BY <1>3, <1>7 DEF OneCourse
        <3>2. Fetching(s, 1)'
            BY <2>2, <3>1 DEF ZeroPageCourse, ZeroPageIndexedCourse
        <3> QED
            BY <1>5, <3>2, FetchStays DEF LowAddress
    <2>3. CASE k # 1
        BY <1>1, <2>1, <2>3, DrivesMemory
           DEF ZeroPageLow, ZeroPageIndexedLow, Drive, Hold, LowAddress
    <2> QED
        BY <2>2, <2>3
<1>8. CASE mode \in {"ABS", "ABSX", "ABSY"}
    <2>1. AbsoluteCourse(s, op, mode, k)'
        BY <1>3, <1>8 DEF OneCourse
    <2>2. CASE k < 3
        <3>1. Fetching(s, 1)' \/ Fetching(s, 2)'
            BY <1>1, <2>1, <2>2 DEF AbsoluteCourse
        <3> QED
            BY <1>5, <3>1, FetchStays DEF LowAddress
    <2>3. CASE k = 3
        <3>1. address' = Target(s, mode)
            BY <1>5, <2>1, <2>3 DEF AbsoluteCourse, Ready, Driving
        <3>2. Operating
            BY <1>1, <1>8, <2>3 DEF Operating, OperandCycle
        <3> QED
            BY <3>1, <3>2 DEF LowAddress
    <2>4. CASE k > 3
        <3>1. AbsoluteLow \/ AbsoluteIndexedLow
            BY <1>1, <1>8, LowHandler
        <3>2. Mode = "ABS" => AbsoluteLow
            BY <1>1, <1>8, LowHandler
        <3>3. CASE AbsoluteLow
            <4>1. cpu' = cpu
                BY <1>1, <2>4, <3>3 DEF AbsoluteLow, Drive, Hold
            <4>2. Performed(s, op, 3, Target(s, mode))'
                BY <1>1, <2>1, <2>4 DEF AbsoluteCourse
            <4>3. cpu'.pc = PCAfter(s, 3)
                BY <1>1, <4>2, PerformedPC
            <4>4. CASE k = 5
                BY <1>1, <1>4, <3>3, <4>1, <4>3, <4>4 DEF AbsoluteLow, Drive, LowAddress
            <4>5. CASE k # 5
                BY <1>1, <1>4, <2>4, <3>3, <4>5, DrivesMemory
                   DEF AbsoluteLow, Drive, Hold, LowAddress
            <4> QED
                BY <4>4, <4>5
        <3>4. CASE AbsoluteIndexedLow
            BY <1>1, <1>8, <2>4, <3>4 DEF AbsoluteIndexedLow, Drive, Hold, LowAddress, DrivenTwice
        <3> QED
            BY <3>1, <3>3, <3>4
    <2> QED
        BY <1>1, <2>2, <2>3, <2>4
<1>9. CASE mode \in {"INDX", "INDY"}
    <2>1. PointerLow
        BY <1>1, <1>9, LowHandler
    <2>2. PointerCourse(s, op, mode, k)'
        BY <1>3, <1>9 DEF OneCourse
    <2>3. CASE k = 1
        <3>1. Fetching(s, 1)'
            BY <2>2, <2>3 DEF PointerCourse
        <3> QED
            BY <1>5, <3>1, FetchStays DEF LowAddress
    <2>4. CASE k = 4
        <3>1. address' = Target(s, mode)
            BY <1>5, <2>2, <2>4 DEF PointerCourse, Ready, Driving
        <3>2. Operating
            BY <1>1, <1>9, <2>4 DEF Operating, OperandCycle
        <3> QED
            BY <3>1, <3>2 DEF LowAddress
    <2>5. CASE k \notin {1, 4}
        BY <1>1, <2>1, <2>5, DrivesMemory DEF PointerLow, Drive, Hold, LowAddress
    <2> QED
        BY <2>3, <2>4, <2>5
<1> QED
    BY <1>2, <1>6, <1>7, <1>8, <1>9

(* The jumps, the branches, and the instructions on registers and stack.                *)
LEMMA OthersStay ==
    ASSUME NEW s, NEW op, NEW mode, NEW soft, NEW v, NEW k, NEW n,
           InCycle(s, op, mode, soft, v, k),
           Row([op |-> op, mode |-> mode, cycles |-> n]), k < n,
           ~(op \in MemoryOps /\ mode \notin {"ACC", "IMP"}),
           LowPhase, HandlePhi2Low,
           \A i \in 0 .. 3 : InMemorySpace(PCAfter(s, i)),
           mode = "REL" /\ Taken(op, s.regs.status) => InMemorySpace(BranchTarget(s)),
           mode = "IND" => InMemorySpace(CodeWord(s)) /\ InMemorySpace(SecondCell(s))
    PROVE  LowAddress
<1>1. /\ TypeOK /\ IsState(s) /\ Op = op /\ Mode = mode /\ k \in 1 .. 6 /\ Cycle = k
      /\ Known /\ Cycle # 0 /\ cpu.vector \in {NMI_VECTOR, IRQ_BRK_VECTOR}
    BY DEF InCycle
<1>2. /\ mode \in {"ACC", "IMP", "ABS", "IND", "REL"}
      /\ mode = "ABS" => op = "JSR" \/ (op = "JMP" /\ n = 3)
      /\ mode = "IND" => op = "JMP"
    <2>1. mode = "ABS" /\ op \notin MemoryOps => op = "JSR" \/ (op = "JMP" /\ n = 3)
        BY DEF Row
    <2>2. mode = "IND" => op = "JMP"
        BY RowOps
    <2>3. mode \in {"IMM", "ZP", "ZPX", "ZPY", "ABSX", "ABSY", "INDX", "INDY"} => op \in MemoryOps
        BY RowOps DEF MemoryOps, ReadOps, StoreOps, PointerOps
    <2>4. mode \in AddressingMode
        BY RowOps
    <2> QED
        BY <2>1, <2>2, <2>3, <2>4 DEF AddressingMode
<1>3. OneCourse(s, op, mode, soft, v, k)'
    <2>1. Course(s, op, mode, soft, v, k)'
        BY OthersKept
    <2> QED
        BY <2>1 DEF Course, OneCourse, MemoryOps, ReadOps, ModifyOps, StoreOps, RegisterOps
<1>4. edge' = "HIGH"
    BY DEF LowPhase
<1>5. op \in {"JSR", "JMP"} => op \notin MemoryOps
    BY DEF MemoryOps, ReadOps, ModifyOps, StoreOps
<1>6. CASE mode \in {"ACC", "IMP"}
    BY <1>1, <1>6, LowHandler, ImpliedStays
<1>7. CASE mode = "ABS" /\ op = "JMP"
    <2>1. JumpCourse(s, k)' /\ k < 3
        BY <1>2, <1>3, <1>5, <1>7 DEF OneCourse
    <2>2. Fetching(s, 1)' \/ Fetching(s, 2)'
        BY <1>1, <2>1 DEF JumpCourse
    <2> QED
        BY <1>4, <2>2, FetchStays DEF LowAddress
<1>8. CASE mode = "ABS" /\ op = "JSR"
    <2>1. AbsoluteLow
        BY <1>1, <1>8, LowHandler
    <2>2. CallCourse(s, k)'
        BY <1>3, <1>8 DEF OneCourse
    <2>3. CASE k = 1
        <3>1. Fetching(s, 1)'
            BY <2>2, <2>3 DEF CallCourse
        <3> QED
            BY <1>4, <3>1, FetchStays DEF LowAddress
    <2>4. CASE k = 5
        <3>1. address' = PCAfter(s, 2)
            BY <1>4, <2>2, <2>4 DEF CallCourse, Driving
        <3> QED
            BY <3>1 DEF LowAddress
    <2>5. CASE k \notin {1, 5}
        BY <1>1, <1>8, <2>1, <2>5, DrivesMemory DEF AbsoluteLow, Drive, Hold, LowAddress
    <2> QED
        BY <2>3, <2>4, <2>5
<1>9. CASE mode = "IND"
    <2>1. IndirectLow
        BY <1>1, <1>9, LowHandler
    <2>2. IndirectCourse(s, k)'
        BY <1>3, <1>9 DEF OneCourse
    <2>3. CASE k < 3
        <3>1. Fetching(s, 1)' \/ Fetching(s, 2)'
            BY <1>1, <2>2, <2>3 DEF IndirectCourse
        <3> QED
            BY <1>4, <3>1, FetchStays DEF LowAddress
    <2>4. CASE k \in {3, 4}
        <3>1. address' \in {CodeWord(s), SecondCell(s)}
            BY <1>4, <2>2, <2>4 DEF IndirectCourse, Ready, Driving
        <3> QED
            BY <1>9, <3>1 DEF LowAddress
    <2>5. CASE k > 4
        BY <1>1, <2>1, <2>5 DEF IndirectLow, Drive, Hold, LowAddress
    <2> QED
        BY <1>1, <2>3, <2>4, <2>5
<1>10. CASE mode = "REL"
    <2>1. address' = cpu.pc /\ cpu' = cpu
        BY <1>1, <1>10, LowHandler DEF RelativeLow, Drive
    <2>2. RelativeCourse(s, op, k)'
        BY <1>3, <1>10 DEF OneCourse
    <2>3. cpu'.pc \in {PCAfter(s, 1), PCAfter(s, 2), BranchTarget(s)}
        <3>1. \A i \in 0 .. 3 : Behind(s, i).pc = PCAfter(s, i)
            BY <1>1, BehindFields
        <3>2. CASE k = 1
            BY <2>2, <3>1, <3>2 DEF RelativeCourse, Ready, Holds, Architectural
        <3>3. CASE k = 2
            BY <2>2, <3>1, <3>3 DEF RelativeCourse, Holds, Architectural
        <3>4. CASE k > 2
            BY <1>1, <2>2, <3>4 DEF RelativeCourse, Holds, Architectural, BranchTarget, IsState, File
        <3> QED
            BY <1>1, <3>2, <3>3, <3>4
    <2>4. cpu'.pc # PCAfter(s, 1) /\ cpu'.pc # PCAfter(s, 2) => Taken(op, s.regs.status)
        <3>1. \A i \in 0 .. 3 : Behind(s, i).pc = PCAfter(s, i)
            BY <1>1, BehindFields
        <3>2. CASE k \in {1, 2}
            BY <2>2, <3>1, <3>2 DEF RelativeCourse, Ready, Holds, Architectural
        <3>3. CASE k > 2
            BY <1>1, <2>2, <3>3 DEF RelativeCourse, Holds, Architectural, IsState, File
        <3> QED
            BY <1>1, <3>2, <3>3
    <2> QED
        BY <1>10, <2>1, <2>3, <2>4 DEF LowAddress
<1> QED
    BY <1>2, <1>6, <1>7, <1>8, <1>9, <1>10

(* What the address latch holds as long as the program keeps inside.                      *)
BusInv == OnTheBus /\ DrivenTwice

LEMMA BusCode == OnTheBus => CodeInMemory
BY DEF OnTheBus, CodeInMemory

(* Power-up: address 0.                                                                *)
LEMMA BusInit0 == TraceInit => BusInv
<1> SUFFICES ASSUME TraceInit PROVE BusInv
    OBVIOUS
<1>1. address = 0
    BY DEF TraceInit, Init, BusInit
<1>2. InMemorySpace(0)
    BY MemoryAddresses, WordMember
<1>3. cpu.started = FALSE /\ cpu.cycle = 0
    BY DEF TraceInit, Init, Reset, PoweredUp
<1> QED
    BY <1>1, <1>2, <1>3 DEF BusInv, OnTheBus, DrivenTwice, Decoded, Cycle

(* The LOW phase of a cycle inside an instruction.                                      *)
LEMMA LowStaysInside ==
    ASSUME TraceInv, StaysInside, DrivenTwice, Phi2Low, Known, Cycle # 0
    PROVE  LowAddress
<1>1. LowPhase /\ HandlePhi2Low /\ TypeOK /\ Inv
    BY DEF Phi2Low, LowPhase, TraceInv, Inv
<1>2. cpu.cycle \in 1 .. 6
    <2>1. cpu.cycle \in 0 .. 7 /\ cpu.cycle # 0
        BY <1>1 DEF TypeOK, Registers, Cycle
    <2> QED
        BY <1>1, <2>1, CyclesOf DEF Inv, CycleInRange
<1>3. PICK s, op, mode, soft, v, k, n :
          /\ s = Origin /\ op = Op /\ mode = Mode /\ soft = cpu.fromSW /\ v = cpu.vector
          /\ k = Cycle /\ n = OpcodeMap[cpu.ir].cycles
    OBVIOUS
<1>4. Underway(s) /\ Course(s, Op, Mode, cpu.fromSW, cpu.vector, cpu.cycle)
    BY <1>2, <1>3 DEF TraceInv, OnCourse
<1>5. InCycle(s, op, mode, soft, v, k)
    <2>1. InCycle(s, Op, Mode, cpu.fromSW, cpu.vector, cpu.cycle)
        BY <1>2, <1>3, <1>4, UnderwayCycle
    <2> QED
        BY <1>3, <2>1 DEF Cycle
<1>6. Row([op |-> op, mode |-> mode, cycles |-> n]) /\ k < n
    <2>1. k < n
        BY <1>1, <1>2, <1>3 DEF Inv, CycleInRange, Cycle
    <2>2. Row([op |-> op, mode |-> mode, cycles |-> n])
        BY <1>3, RowsAssumption DEF Known, Row, Op, Mode
    <2> QED
        BY <2>1, <2>2
<1>7. \A i \in 0 .. 3 : InMemorySpace(PCAfter(s, i))
    BY <1>3 DEF StaysInside, Contained
<1>8. CASE Software
    <2>1. /\ CodeByte(s, 0) \in DOMAIN OpcodeMap
          /\ OpcodeMap[CodeByte(s, 0)].op = op /\ OpcodeMap[CodeByte(s, 0)].mode = mode
        BY <1>3, <1>4, <1>8 DEF Underway, Known, Op, Mode
    <2>2. /\ mode = "REL" /\ Taken(op, s.regs.status) => InMemorySpace(BranchTarget(s))
          /\ mode = "IND" => InMemorySpace(CodeWord(s)) /\ InMemorySpace(SecondCell(s))
          /\ op \in MemoryOps /\ mode # "ACC" => Decoded(Target(s, mode))
        BY <1>3, <2>1 DEF StaysInside, Contained
    <2>3. CASE op \in MemoryOps /\ mode \notin {"ACC", "IMP"}
        BY <1>1, <1>5, <1>7, <2>2, <2>3, MemoryStays
    <2>4. CASE ~(op \in MemoryOps /\ mode \notin {"ACC", "IMP"})
        BY <1>1, <1>5, <1>6, <1>7, <2>2, <2>4, OthersStay
    <2> QED
        BY <2>3, <2>4
<1>9. CASE ~Software
    <2>1. op = "BRK" /\ mode = "IMP"
        BY <1>3, <1>4, <1>9, OpcodeMapAssumption DEF Underway, Op, Mode, BRK
    <2> QED
        BY <1>1, <1>5, <1>6, <1>7, <2>1, OthersStay
<1> QED
    BY <1>8, <1>9

LEMMA BusLow ==
    ASSUME TraceInv, StaysInside, BusInv, Phi2Low
    PROVE  BusInv'
<1>1. LowPhase /\ HandlePhi2Low /\ TypeOK /\ Inv /\ edge' = "HIGH"
    BY DEF Phi2Low, LowPhase, TraceInv, Inv
<1>2. cpu \in Registers
    BY <1>1 DEF TypeOK
<1>3. CASE ~Known
    <2>1. cpu' = cpu /\ address' = address
        BY <1>1, <1>3 DEF HandlePhi2Low, Hold
    <2>2. cpu.started => Cycle # 0
        BY <1>1, <1>3 DEF Inv, Sequencing, Cycle
    <2>3. cpu.started => InMemorySpace(address)
        BY <1>3, <2>2 DEF BusInv, OnTheBus, Operating
    <2> QED
        BY <1>3, <2>1, <2>3 DEF BusInv, OnTheBus, DrivenTwice, Known
<1>4. CASE Known /\ Cycle = 0
    <2>1. address' = cpu.pc /\ cpu' = [cpu EXCEPT !.started = TRUE]
        BY <1>1, <1>4 DEF HandlePhi2Low, OpcodeLow
    <2>2. InMemorySpace(cpu.pc)
        <3>1. CASE cpu.resetStage = 2
            <4>1. boundary.regs.pc = cpu.pc
                BY <1>4, <3>1 DEF TraceInv, OnCourse, Snapshot, Architectural, Cycle
            <4>2. PCAfter(Origin, 0) = cpu.pc
                <5>1. cpu.pc \in Int /\ 0 <= cpu.pc /\ cpu.pc <= 65535
                    BY <1>1, RegisterTypes, WordMember
                <5> QED
                    BY <4>1, <5>1 DEF PCAfter, Origin, U16
            <4> QED
                BY <4>2 DEF StaysInside, Contained
        <3>2. CASE cpu.resetStage # 2
            <4>1. cpu.resetStage \in {0, 1}
                BY <1>2, <3>2 DEF Registers
            <4>2. cpu.pc = RESET_VECTOR + cpu.resetStage
                BY <4>1, Shown DEF TraceInv, OnCourse, Resetting, Holds, AfterReset
            <4>3. InMemorySpace(65532) /\ InMemorySpace(65533)
                BY MemoryAddresses, WordMember
            <4> QED
                BY <4>1, <4>2, <4>3 DEF RESET_VECTOR
        <3> QED
            BY <3>1, <3>2
    <2>3. cpu'.cycle = 0
        BY <1>2, <1>4, <2>1 DEF Registers, Cycle
    <2> QED
        BY <2>1, <2>2, <2>3 DEF BusInv, OnTheBus, DrivenTwice, Decoded, Cycle
<1>5. CASE Known /\ Cycle # 0
    <2>1. LowAddress
        BY <1>5, LowStaysInside DEF BusInv
    <2>2. /\ cpu'.cycle = cpu.cycle /\ cpu'.ir = cpu.ir
        <3>1. cpu' \in {cpu, AdvancePC(cpu)}
            BY <1>1, <1>5, LowDrivesOnly DEF DrivesOnly
        <3> QED
            BY <1>2, <3>1 DEF AdvancePC, Registers
    <2>3. Op' = Op /\ Mode' = Mode /\ Cycle' = Cycle /\ (Operating' <=> Operating)
        BY <2>2 DEF Op, Mode, Cycle, Operating, OperandCycle, Known
    <2>4. OnTheBus'
        <3>1. cpu.started
            <4>1. cpu.cycle > 0
                BY <1>2, <1>5 DEF Registers, Cycle
            <4> QED
                BY <1>1, <4>1 DEF Inv, Sequencing
        <3> QED
            BY <1>5, <2>1, <2>3, <3>1 DEF LowAddress, BusInv, OnTheBus, Decoded
    <2>5. DrivenTwice'
        <3> SUFFICES ASSUME Mode \in {"ABSX", "ABSY"}, Cycle \in {3, 4}
                     PROVE  address' = U16(Operand + IF Mode = "ABSX" THEN cpu.x ELSE cpu.y)
                            /\ cpu' = cpu
            BY <2>3 DEF DrivenTwice, Operand
        <3>1. AbsoluteIndexedLow
            BY <1>1, <1>5, LowHandler DEF AbsoluteLow
        <3> QED
            BY <3>1 DEF AbsoluteIndexedLow, Drive
    <2> QED
        BY <2>4, <2>5 DEF BusInv
<1> QED
    BY <1>3, <1>4, <1>5

LEMMA BusHigh ==
    ASSUME TraceInv, BusInv, Phi2High
    PROVE  BusInv'
<1>1. TypeOK /\ Inv /\ edge = "HIGH" /\ edge' = "LOW" /\ address' = address /\ HandlePhi2High
    BY DEF Phi2High, TraceInv, Inv
<1>2. cpu \in Registers
    BY <1>1 DEF TypeOK
<1>3. Decoded(address) /\ (cpu.started => InMemorySpace(address) \/ Operating)
    BY <1>1 DEF BusInv, OnTheBus
<1>4. CASE UNCHANGED cpu /\ (~cpu.started \/ ~Known)
    <2>1. ~cpu.started => Cycle = 0
        BY <1>1, <1>2 DEF Inv, Sequencing, Cycle, Registers
    <2> QED
        BY <1>1, <1>3, <1>4, <2>1
        DEF BusInv, OnTheBus, DrivenTwice, Decoded, Operating, Known, Cycle
<1>5. CASE cpu.resetStage < 2 /\ HandleReset
    <2>1. cpu.cycle = 0
        BY <1>5 DEF TraceInv, OnCourse, Resetting
    <2>2. cpu'.cycle = 0
        BY <1>2, <1>5, <2>1 DEF HandleReset, AdvancePC, Registers
    <2> QED
        BY <1>1, <1>3, <2>2 DEF BusInv, OnTheBus, DrivenTwice, Decoded, Cycle
<1>6. CASE cpu.started /\ Cycle = 0 /\ (TakeNMI \/ TakeIRQ \/ FetchOpcode)
    <2>1. InMemorySpace(address)
        BY <1>3, <1>6 DEF Operating
    <2>2. cpu'.cycle = 1
        BY <1>2, <1>6 DEF TakeNMI, TakeIRQ, FetchOpcode, AdvancePC, Registers
    <2> QED
        BY <1>1, <2>1, <2>2 DEF BusInv, OnTheBus, DrivenTwice, Decoded, Cycle
<1>7. CASE Cycle # 0 /\ Known /\ InstructionHigh
    <2>1. PICK c : Leaves(c) /\ Step(c)
        BY <1>1, <1>7, HighAdvances DEF Advances
    <2>2. /\ cpu'.ir = cpu.ir
          /\ cpu'.cycle = 0 \/ cpu'.cycle = cpu.cycle + 1
        BY <2>1 DEF Leaves, Step, NextCycle, Registers
    <2>3. cpu.cycle \in Nat /\ cpu.cycle # 0
        BY <1>2, <1>7 DEF Registers, Cycle
    <2>4. cpu.started
        BY <1>1, <2>3 DEF Inv, Sequencing
    <2>5. Op' = Op /\ Mode' = Mode /\ Known'
        BY <1>7, <2>2 DEF Op, Mode, Known
    <2>6. cpu'.cycle # 0 /\ Operating => Operating'
        BY <2>2, <2>3, <2>5 DEF Operating, OperandCycle, Cycle
    <2>7. OnTheBus'
        BY <1>1, <1>3, <2>4, <2>6 DEF OnTheBus, Decoded, Cycle
    <2>8. DrivenTwice'
        <3> SUFFICES ASSUME Mode \in {"ABSX", "ABSY"}, cpu'.cycle = 4
                     PROVE  address = U16(Operand' + IF Mode = "ABSX" THEN cpu'.x ELSE cpu'.y)
            BY <1>1, <2>5 DEF DrivenTwice, Cycle
        <3>1. Cycle = 3
            BY <2>2, <2>3 DEF Cycle
        <3>2. address = U16(Operand + IF Mode = "ABSX" THEN cpu.x ELSE cpu.y)
            BY <1>1, <1>7, <3>1 DEF BusInv, DrivenTwice
        <3>3. /\ Mode = "ABSX" => Op # "LDX"
              /\ Mode = "ABSY" => Op # "LDY"
              /\ Op # "JSR"
            <4>1. Row(OpcodeMap[cpu.ir])
                BY <1>7, RowsAssumption DEF Known
            <4> QED
                BY <4>1 DEF Row, Op, Mode, MemoryOps, ReadOps, ModifyOps, StoreOps
        <3>4. AbsoluteHigh
            BY <1>7, HighHandler
        <3>5. \E ops : Execute(ops)
            BY <3>1, <3>3, <3>4 DEF AbsoluteHigh
        <3>6. /\ cpu'.adl = cpu.adl /\ cpu'.adh = cpu.adh
              /\ Op # "LDX" => cpu'.x = cpu.x
              /\ Op # "LDY" => cpu'.y = cpu.y
            BY <1>1, <3>5, ExecuteKeeps
        <3> QED
            BY <3>2, <3>3, <3>6 DEF Operand
    <2> QED
        BY <2>7, <2>8 DEF BusInv
<1> QED
    BY <1>1, <1>4, <1>5, <1>6, <1>7
    DEF HandlePhi2High, UnlistedHigh, InstructionHigh

(* Every other step leaves the address latch alone.                                     *)
LEMMA BusStays ==
    ASSUME BusInv, UNCHANGED <<cpu, edge, address>>
    PROVE  BusInv'
BY DEF BusInv, OnTheBus, DrivenTwice, Decoded, Operating, OperandCycle, Known, Op, Mode, Cycle,
       Operand

LEMMA BusNext == TraceInv /\ StaysInside /\ BusInv /\ [TraceNext]_traceVars => BusInv'
<1> SUFFICES ASSUME TraceInv, StaysInside, BusInv, [TraceNext]_traceVars PROVE BusInv'
    OBVIOUS
<1>1. CASE UNCHANGED traceVars
    BY <1>1, BusStays DEF traceVars, vars, busVars
<1>2. CASE Phi2Low \/ Phi2High
    BY <1>2, BusLow, BusHigh
<1>3. CASE SetIRQ \/ SetNMI
    BY <1>3, BusStays DEF SetIRQ, SetNMI, busVars
<1>4. CASE ResetBetweenInstructions
    <2>1. /\ edge = "LOW" /\ edge' = edge /\ address' = address /\ cpu.cycle = 0
          /\ cpu' = Reset(cpu) /\ cpu \in Registers
        BY <1>4 DEF ResetBetweenInstructions, busVars, TraceInv, Inv, TypeOK
    <2>2. cpu'.cycle = 0
        BY <2>1 DEF Reset, Registers
    <2> QED
        BY <2>1, <2>2 DEF BusInv, OnTheBus, DrivenTwice, Decoded, Cycle
<1> QED
    BY <1>1, <1>2, <1>3, <1>4 DEF TraceNext, Next

(* A program whose instructions have their bytes, targets and pointers in SRAM and      *)
(* EEPROM and their operands where a slave decodes them is read from the memories      *)
(* throughout, and no address of W65C02S.cpp's in between is left without an answer:    *)
(* neither the byte it looks ahead at nor the operand it drives once more.             *)
THEOREM StaysInMemory == TraceSpec /\ []StaysInside => [](CodeInMemory /\ OnTheBus)
<1>1. TraceInv /\ BusInv /\ StaysInside /\ [TraceNext]_traceVars => TraceInv' /\ BusInv'
    BY BusNext, TraceInvNext, BusCode DEF BusInv
<1>2. BusInv => CodeInMemory /\ OnTheBus
    BY BusCode DEF BusInv
<1> QED
    BY <1>1, <1>2, TraceInvInit, BusInit0, PTL DEF TraceSpec
=================================================================================
