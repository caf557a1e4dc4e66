-------------------------- MODULE W65C02S_ISA_proofs --------------------------
(***********************************************************************************)
(* The clocked CPU implements the instruction set: at the end of its course every    *)
(* instruction, interrupt entry and reset has done what ISA says, for every opcode   *)
(* table that satisfies RowsAssumption and every program whose code and pointers lie *)
(* in SRAM and EEPROM; and interrupts are transparent to such a program when its     *)
(* handlers give back what they were handed.                                         *)
(***********************************************************************************)
EXTENDS W65C02S_Cycles_proofs, W65C02S_Interrupts, SequenceTheorems

(* The instruction set's copies of the operators on bytes.                             *)
LEMMA MachineBytes ==
    /\ \A n : Machine!U8(n) = U8(n) /\ Machine!U16(n) = U16(n)
    /\ \A n : Machine!Lo(n) = Lo(n) /\ Machine!Hi(n) = Hi(n) /\ Machine!Signed(n) = Signed(n)
    /\ \A h, l : Machine!Join(h, l) = Join(h, l)
    /\ \A b, k : Machine!Has(b, k) = Has(b, k)
    /\ \A b : Machine!CarryOf(b) = CarryOf(b)
    /\ \A b : Machine!Ones(b) = Ones(b)
    /\ \A S : Machine!ByteOf(S) = ByteOf(S)
    /\ Machine!Masks = Masks
<1>1. \A n : Machine!U8(n) = U8(n) /\ Machine!U16(n) = U16(n)
    BY DEF Machine!U8, Machine!U16, U8, U16
<1>2. \A n : Machine!Lo(n) = Lo(n) /\ Machine!Hi(n) = Hi(n) /\ Machine!Signed(n) = Signed(n)
    BY DEF Machine!Lo, Machine!Hi, Machine!Signed, Lo, Hi, Signed
<1>3. \A h, l : Machine!Join(h, l) = Join(h, l)
    BY DEF Machine!Join, Join
<1>4. \A b, k : Machine!Has(b, k) = Has(b, k)
    BY DEF Machine!Has, Has
<1>5. \A b : Machine!CarryOf(b) = CarryOf(b)
    BY DEF Machine!CarryOf, CarryOf
<1>6. \A b : Machine!Ones(b) = Ones(b)
    BY DEF Machine!Ones, Ones, Machine!Masks, Masks, Machine!Has, Has
<1>7. \A S : Machine!ByteOf(S) = ByteOf(S)
    BY DEF Machine!ByteOf, ByteOf
<1>8. Machine!Masks = Masks
    BY DEF Machine!Masks, Masks
<1> QED
    BY <1>1, <1>2, <1>3, <1>4, <1>5, <1>6, <1>7, <1>8

(* The flags have the same masks in both.                                              *)
LEMMA MachineFlags ==
    /\ Machine!CARRY = CARRY /\ Machine!ZERO = ZERO /\ Machine!INTERRUPT = INTERRUPT
    /\ Machine!DECIMAL = DECIMAL /\ Machine!BREAK = BREAK /\ Machine!OVERFLOW = OVERFLOW
    /\ Machine!NEGATIVE = NEGATIVE
BY DEF Machine!CARRY, Machine!ZERO, Machine!INTERRUPT, Machine!DECIMAL, Machine!BREAK,
       Machine!OVERFLOW, Machine!NEGATIVE, CARRY, ZERO, INTERRUPT, DECIMAL, BREAK, OVERFLOW,
       NEGATIVE

(* s is the state the instruction op in the given mode starts from.                     *)
Starts(s, op, mode) ==
    /\ IsState(s)
    /\ s.regs = boundary.regs /\ s.ram = boundary.ram /\ s.rom = rom
    /\ CodeByte(s, 0) \in DOMAIN OpcodeMap
    /\ OpcodeMap[CodeByte(s, 0)].op = op /\ OpcodeMap[CodeByte(s, 0)].mode = mode

(* The instruction set reads the cells the machine reads.                              *)
LEMMA MachineReads ==
    ASSUME NEW s, IsState(s), s.ram = boundary.ram, s.rom = rom
    PROVE  /\ \A a : Machine!Peek(a) = Peek(s, a)
           /\ \A f, a : Machine!PeekIn(f, a) = Peek([s EXCEPT !.ram = f], a)
<1>1. \A f, a : Machine!At(f, a) = ByteAt(f, a)
    BY DEF Machine!At, ByteAt
<1>2. \A a : Machine!Peek(a) = Peek(s, a)
    BY <1>1 DEF Machine!Peek, Machine!PeekIn, Peek, EEPROM_FIRST
<1>3. \A f : [s EXCEPT !.ram = f].ram = f /\ [s EXCEPT !.ram = f].rom = rom
    BY DEF IsState
<1>4. \A f, a : Machine!PeekIn(f, a) = Peek([s EXCEPT !.ram = f], a)
    BY <1>1, <1>3 DEF Machine!PeekIn, Peek, EEPROM_FIRST
<1> QED
    BY <1>2, <1>4

(* An operand of the instruction set is what the machine may read at the address.       *)
LEMMA MachineFinds ==
    ASSUME NEW s, IsState(s), s.ram = boundary.ram, s.rom = rom, NEW a \in Word
    PROVE  Machine!Found(a) = Readable(s, a) /\ Readable(s, a) \subseteq Byte
<1>1. a \in Int /\ 0 <= a /\ a <= 65535
    BY WordMember
<1>2. InMemorySpace(a) <=> a < 16384 \/ a >= 32768
    BY <1>1, MemoriesDecodeTheirRange, SRAMMember, EEPROMMember DEF InMemorySpace
<1>3. Machine!Peek(a) = Peek(s, a) /\ Peek(s, a) \in Byte
    BY MachineReads, CellType
<1>4. Machine!Byte = Byte
    BY DEF Machine!Byte, Machine!UINT8_MAX, Byte, UINT8_MAX
<1> QED
    BY <1>2, <1>3, <1>4 DEF Machine!Found, Readable

(* The instruction, its operand bytes and the address behind it.                       *)
LEMMA MachineDecodes ==
    ASSUME NEW s, NEW op, NEW mode, Starts(s, op, mode)
    PROVE  /\ Machine!Known /\ Machine!Op = op /\ Machine!Mode = mode
           /\ Machine!Byte1 = CodeByte(s, 1) /\ Machine!Byte2 = CodeByte(s, 2)
           /\ Machine!Then = Behind(s, Machine!Length)
<1>1. /\ IsState(s) /\ s.regs = boundary.regs /\ s.ram = boundary.ram /\ s.rom = rom
      /\ s.regs.pc \in Word
    BY DEF Starts, IsState, File
<1>2. \A a : Machine!Peek(a) = Peek(s, a)
    BY <1>1, MachineReads
<1>3. U16(s.regs.pc + 0) = s.regs.pc
    BY <1>1, WordMember DEF U16
<1>4. Machine!Opcode = CodeByte(s, 0)
    BY <1>1, <1>2, <1>3 DEF Machine!Opcode, CodeByte, PCAfter
<1>5. Machine!Byte1 = CodeByte(s, 1) /\ Machine!Byte2 = CodeByte(s, 2)
    BY <1>1, <1>2, MachineBytes DEF Machine!Byte1, Machine!Byte2, CodeByte, PCAfter
<1>6. Machine!Then = Behind(s, Machine!Length)
    BY <1>1, MachineBytes DEF Machine!Then, Behind, PCAfter
<1> QED
    BY <1>4, <1>5, <1>6 DEF Starts, Machine!Known, Machine!Op, Machine!Mode

(* The bytes an instruction of each mode takes.                                        *)
LEMMA MachineLength ==
    ASSUME NEW s, NEW op, NEW mode, Starts(s, op, mode)
    PROVE  /\ mode \in {"IMP", "ACC"} => Machine!Then = Behind(s, 1)
           /\ mode \in {"IMM", "ZP", "ZPX", "ZPY", "INDX", "INDY", "REL"} =>
                 Machine!Then = Behind(s, 2)
           /\ mode \in {"ABS", "ABSX", "ABSY", "IND"} => Machine!Then = Behind(s, 3)
<1>1. Machine!Then = Behind(s, Machine!Length) /\ Machine!Mode = mode
    BY MachineDecodes
<1>2. /\ mode \in {"IMP", "ACC"} => Machine!Length = 1
      /\ mode \in {"IMM", "ZP", "ZPX", "ZPY", "INDX", "INDY", "REL"} => Machine!Length = 2
      /\ mode \in {"ABS", "ABSX", "ABSY", "IND"} => Machine!Length = 3
    BY <1>1 DEF Machine!Length
<1> QED
    BY <1>1, <1>2

(* A store of the instruction set is a store of the machine.                           *)
LEMMA MachinePokes ==
    ASSUME NEW f, NEW a \in Word, NEW v
    PROVE  Machine!Poke(f, a, v) = AfterWrite(f, a, v)
<1>1. a \in Int /\ 0 <= a
    BY WordMember
<1>2. SRAMSelected(a) <=> a < 16384
    BY <1>1, MemoriesDecodeTheirRange, SRAMMember
<1> QED
    BY <1>2 DEF Machine!Poke, AfterWrite, Written

(* The stack as the instruction set and as the machine address it.                     *)
LEMMA MachineStack ==
    ASSUME NEW s, IsState(s), s.regs = boundary.regs, s.ram = boundary.ram, s.rom = rom
    PROVE  /\ Machine!Slot(0) = SlotAt(s, 0) /\ Machine!Slot(1) = SlotAt(s, -1)
           /\ Machine!Slot(2) = SlotAt(s, -2)
           /\ \A n : Machine!Pulled(n) = Peek(s, SlotAt(s, n)) /\ Machine!Sp(n) = Moved(s, n)
           /\ SlotAt(s, 0) \in Word /\ SlotAt(s, -1) \in Word /\ SlotAt(s, -2) \in Word
<1>1. s.regs.sp \in Int
    BY ByteMember DEF IsState, File
<1>2. /\ s.regs.sp - 0 = s.regs.sp + 0 /\ s.regs.sp - 1 = s.regs.sp + (-1)
      /\ s.regs.sp - 2 = s.regs.sp + (-2)
    BY <1>1
<1>3. \A n : Machine!Pulled(n) = Peek(s, SlotAt(s, n)) /\ Machine!Sp(n) = Moved(s, n)
    BY MachineBytes, MachineReads DEF Machine!Pulled, Machine!Sp, Moved, SlotAt
<1>4. /\ Machine!Slot(0) = SlotAt(s, 0) /\ Machine!Slot(1) = SlotAt(s, -1)
      /\ Machine!Slot(2) = SlotAt(s, -2)
    BY <1>2, MachineBytes DEF Machine!Slot, Moved, SlotAt
<1>5. Moved(s, 0) \in Byte /\ Moved(s, -1) \in Byte /\ Moved(s, -2) \in Byte
    BY <1>1, NarrowType DEF Moved
<1>6. SlotAt(s, 0) \in Word /\ SlotAt(s, -1) \in Word /\ SlotAt(s, -2) \in Word
    BY <1>5, ByteMember, WordMember DEF SlotAt
<1> QED
    BY <1>3, <1>4, <1>6

-----------------------------------------------------------------------------------
(* The instruction ends with the registers d and the SRAM f.                           *)
Ends(d, f) == boundary' = [regs |-> d, ram |-> f]

(* Registers, memory and flags that agree are what the instruction leads to.           *)
LEMMA Reached ==
    ASSUME NEW d \in File, NEW r \in File, NEW f, NEW open, Ends(d, f),
           d.a = r.a, d.x = r.x, d.y = r.y, d.sp = r.sp, d.pc = r.pc,
           Ones(d.status) \ open = Ones(r.status) \ open
    PROVE  Machine!Becomes(r, f, open)
<1>1. boundary'.regs = d /\ boundary'.ram = f
    BY DEF Ends
<1>2. d = [r EXCEPT !.status = d.status]
    BY DEF File
<1>3. Machine!SameMemory(f, f)
    BY DEF Machine!SameMemory
<1> QED
    BY <1>1, <1>2, <1>3, MachineBytes DEF Machine!Becomes

(* The flags an instruction sets, and those it leaves.                                 *)
LEMMA MachineStatus ==
    ASSUME NEW w, NEW on \in SUBSET Masks
    PROVE  /\ Machine!Status(w, on) \in Byte
           /\ Ones(Machine!Status(w, on)) = (Ones(boundary.regs.status) \ w) \cup on
<1> DEFINE S == (Ones(boundary.regs.status) \ w) \cup on
<1>1. S \in SUBSET Masks
    BY DEF Ones
<1>2. Machine!Status(w, on) = ByteOf(S)
    BY MachineBytes DEF Machine!Status
<1>3. Ones(ByteOf(S)) = S /\ ByteOf(S) \in Byte
    BY <1>1, OnesByteOf, ByteOfType
<1> QED
    BY <1>2, <1>3

(* updateStatusFlags sets Z and N as the instruction set says.                         *)
LEMMA OnesUpdate ==
    ASSUME NEW b, NEW v \in Byte
    PROVE  /\ Ones(UpdateStatusFlags(b, v))
                  = (Ones(b) \ {Machine!ZERO, Machine!NEGATIVE}) \cup Machine!NZ(v)
           /\ Machine!NZ(v) \in SUBSET Masks
           /\ UpdateStatusFlags(b, v) \in Byte
<1>1. ZERO \in Masks /\ NEGATIVE \in Masks /\ ZERO # NEGATIVE
    BY DEF ZERO, NEGATIVE, Masks
<1>2. PICK z : z = Put(b, ZERO, v = 0)
    OBVIOUS
<1>3. Ones(z) = (Ones(b) \ {ZERO}) \cup (IF v = 0 THEN {ZERO} ELSE {})
    BY <1>1, <1>2, OnesPut
<1>4. Ones(Put(z, NEGATIVE, Has(v, 128)))
          = (Ones(z) \ {NEGATIVE}) \cup (IF Has(v, 128) THEN {NEGATIVE} ELSE {})
    BY <1>1, OnesPut
<1>5. UpdateStatusFlags(b, v) = Put(z, NEGATIVE, Has(v, 128))
    BY <1>2 DEF UpdateStatusFlags
<1>6. Machine!NZ(v) = (IF Has(v, 128) THEN {NEGATIVE} ELSE {}) \cup (IF v = 0 THEN {ZERO} ELSE {})
    BY TopBit, MachineFlags DEF Machine!NZ, Machine!If
<1>7. Machine!NZ(v) \in SUBSET Masks
    BY <1>1, <1>6
<1>8. UpdateStatusFlags(b, v) \in Byte
    BY <1>5, PutType
<1> QED
    BY <1>1, <1>3, <1>4, <1>5, <1>6, <1>7, <1>8, MachineFlags

(* A load: the register takes the byte, and Z and N with it.                           *)
LEMMA Loads ==
    ASSUME NEW t \in File, t = Machine!Then, t.status = boundary.regs.status, NEW v \in Byte,
           NEW d, Ends(d, boundary.ram)
    PROVE  /\ d = SetA(t, v) => Machine!Load("a", v)
           /\ d = SetX(t, v) => Machine!Load("x", v)
           /\ d = SetY(t, v) => Machine!Load("y", v)
<1>1. PICK w : w = Machine!Status({Machine!ZERO, Machine!NEGATIVE}, Machine!NZ(v))
    OBVIOUS
<1>2. /\ w \in Byte
      /\ Ones(w) = (Ones(t.status) \ {Machine!ZERO, Machine!NEGATIVE}) \cup Machine!NZ(v)
    BY <1>1, MachineStatus, OnesUpdate
<1>3. Ones(UpdateStatusFlags(t.status, v)) = Ones(w)
    BY <1>2, OnesUpdate
<1>4. ASSUME d = SetA(t, v) PROVE Machine!Load("a", v)
    <2>1. PICK r : r = [t EXCEPT !["a"] = v, !.status = w]
        OBVIOUS
    <2>2. /\ r \in File /\ r.a = v /\ r.x = t.x /\ r.y = t.y /\ r.sp = t.sp /\ r.pc = t.pc
          /\ r.status = w
        BY <1>2, <2>1 DEF File
    <2>3. /\ d \in File /\ d.a = r.a /\ d.x = r.x /\ d.y = r.y /\ d.sp = r.sp /\ d.pc = r.pc
          /\ d.status = UpdateStatusFlags(t.status, v)
        BY <1>4, <2>2, SetFields
    <2>4. Ones(d.status) \ {} = Ones(r.status) \ {}
        BY <1>3, <2>2, <2>3
    <2>5. Machine!Becomes(r, boundary.ram, {})
        BY <2>2, <2>3, <2>4, Reached
    <2> QED
        BY <1>1, <2>1, <2>5 DEF Machine!Load
<1>5. ASSUME d = SetX(t, v) PROVE Machine!Load("x", v)
    <2>1. PICK r : r = [t EXCEPT !["x"] = v, !.status = w]
        OBVIOUS
    <2>2. /\ r \in File /\ r.a = t.a /\ r.x = v /\ r.y = t.y /\ r.sp = t.sp /\ r.pc = t.pc
          /\ r.status = w
        BY <1>2, <2>1 DEF File
    <2>3. /\ d \in File /\ d.a = r.a /\ d.x = r.x /\ d.y = r.y /\ d.sp = r.sp /\ d.pc = r.pc
          /\ d.status = UpdateStatusFlags(t.status, v)
        BY <1>5, <2>2, SetFields
    <2>4. Ones(d.status) \ {} = Ones(r.status) \ {}
        BY <1>3, <2>2, <2>3
    <2>5. Machine!Becomes(r, boundary.ram, {})
        BY <2>2, <2>3, <2>4, Reached
    <2> QED
        BY <1>1, <2>1, <2>5 DEF Machine!Load
<1>6. ASSUME d = SetY(t, v) PROVE Machine!Load("y", v)
    <2>1. PICK r : r = [t EXCEPT !["y"] = v, !.status = w]
        OBVIOUS
    <2>2. /\ r \in File /\ r.a = t.a /\ r.x = t.x /\ r.y = v /\ r.sp = t.sp /\ r.pc = t.pc
          /\ r.status = w
        BY <1>2, <2>1 DEF File
    <2>3. /\ d \in File /\ d.a = r.a /\ d.x = r.x /\ d.y = r.y /\ d.sp = r.sp /\ d.pc = r.pc
          /\ d.status = UpdateStatusFlags(t.status, v)
        BY <1>6, <2>2, SetFields
    <2>4. Ones(d.status) \ {} = Ones(r.status) \ {}
        BY <1>3, <2>2, <2>3
    <2>5. Machine!Becomes(r, boundary.ram, {})
        BY <2>2, <2>3, <2>4, Reached
    <2> QED
        BY <1>1, <2>1, <2>5 DEF Machine!Load
<1> QED
    BY <1>4, <1>5, <1>6

-----------------------------------------------------------------------------------
(* ADC and SBC: the sum of a, v and the carry. V is left open.                         *)
LEMMA Adds ==
    ASSUME NEW t \in File, t = Machine!Then, t.status = boundary.regs.status,
           t.a = boundary.regs.a, NEW v \in Byte, "NoOverflow" \in Waived,
           NEW sum, sum = t.a + v + CarryOf(t.status),
           NEW d \in File, Ends(d, boundary.ram),
           d.a = U8(sum), d.x = t.x, d.y = t.y, d.sp = t.sp, d.pc = t.pc,
           d.status = UpdateStatusFlags(Put(t.status, CARRY, sum > 255), U8(sum))
    PROVE  Machine!Add(v)
<1>1. PICK signed : signed = Machine!Signed(boundary.regs.a) + Machine!Signed(v)
                             + Machine!CarryOf(boundary.regs.status)
    OBVIOUS
<1>2. PICK on : on = Machine!NZ(U8(sum)) \cup Machine!If(Machine!CARRY, sum > 255)
                     \cup Machine!If(Machine!OVERFLOW, signed \notin -128 .. 127)
    BY ZenonT(30)
<1>3. PICK w : w = Machine!Status({Machine!ZERO, Machine!NEGATIVE, Machine!CARRY,
                                   Machine!OVERFLOW}, on)
    OBVIOUS
<1>4. PICK b : b = Put(t.status, CARRY, sum > 255)
    OBVIOUS
<1>5. t.a \in Int /\ v \in Int /\ CarryOf(t.status) \in Int
    BY ByteMember DEF File, CarryOf
<1>6. U8(sum) \in Byte
    BY <1>5, NarrowType
<1>7. CARRY \in Masks /\ OVERFLOW \in Masks
    BY DEF CARRY, OVERFLOW, Masks
<1>8. on \in SUBSET Masks
    BY <1>2, <1>6, <1>7, OnesUpdate, MachineFlags DEF Machine!If
<1>9. w \in Byte /\ Ones(w) = (Ones(t.status) \ {ZERO, NEGATIVE, CARRY, OVERFLOW}) \cup on
    BY <1>3, <1>8, MachineStatus, MachineFlags
<1>10. Ones(b) = (Ones(t.status) \ {CARRY}) \cup (IF sum > 255 THEN {CARRY} ELSE {})
    <2>1. PICK st, g : st = t.status /\ g = (sum > 255)
        OBVIOUS
    <2>2. Ones(Put(st, CARRY, g)) = (Ones(st) \ {CARRY}) \cup (IF g THEN {CARRY} ELSE {})
        BY <1>7, OnesPut
    <2> QED
        BY <1>4, <2>1, <2>2
<1>11. Ones(d.status) = (Ones(b) \ {ZERO, NEGATIVE}) \cup Machine!NZ(U8(sum))
    BY <1>4, <1>6, OnesUpdate, MachineFlags
<1>12. CARRY # ZERO /\ CARRY # NEGATIVE /\ CARRY # OVERFLOW
    BY DEF CARRY, ZERO, NEGATIVE, OVERFLOW
<1>13. Ones(d.status) \ {OVERFLOW} = Ones(w) \ {OVERFLOW}
    BY <1>2, <1>9, <1>10, <1>11, <1>12, MachineFlags DEF Machine!If
<1>14. PICK r : r = [t EXCEPT !.a = U8(sum), !.status = w]
    OBVIOUS
<1>15. /\ r \in File /\ r.a = U8(sum) /\ r.x = t.x /\ r.y = t.y /\ r.sp = t.sp /\ r.pc = t.pc
       /\ r.status = w
    <2>1. PICK u : u = U8(sum)
        OBVIOUS
    <2>2. r = [t EXCEPT !.a = u, !.status = w] /\ u \in Byte /\ w \in Byte
        BY <1>6, <1>9, <1>14, <2>1
    <2>3. /\ r \in File /\ r.a = u /\ r.x = t.x /\ r.y = t.y /\ r.sp = t.sp /\ r.pc = t.pc
          /\ r.status = w
        BY ONLY t \in File, <2>2 DEF File
    <2> QED
        BY <2>1, <2>3
<1>16. Machine!Becomes(r, boundary.ram, {OVERFLOW})
    BY <1>13, <1>15, Reached
<1>17. Machine!Waive("NoOverflow", {Machine!OVERFLOW}) = {OVERFLOW}
    BY MachineFlags DEF Machine!Waive
<1>18. /\ boundary.regs.a + v + Machine!CarryOf(boundary.regs.status) = sum
       /\ Machine!U8(sum) = U8(sum)
    BY MachineBytes
<1> QED
    BY <1>1, <1>2, <1>3, <1>14, <1>16, <1>17, <1>18, ZenonT(30) DEF Machine!Add

(* CMP, CPX and CPY.                                                                   *)
LEMMA Compares ==
    ASSUME NEW t \in File, t = Machine!Then, t.status = boundary.regs.status,
           NEW m \in Byte, NEW reg \in Byte,
           NEW d, d = doCMP(t, reg, m), Ends(d, boundary.ram)
    PROVE  Machine!Compare(reg, m)
<1>1. PICK v : v = U8(reg - m)
    OBVIOUS
<1>2. reg \in Int /\ 0 <= reg /\ reg <= 255 /\ m \in Int /\ 0 <= m /\ m <= 255
    BY ByteMember
<1>3. v \in Byte
    BY <1>1, <1>2, NarrowType
<1>4. U8(U16(reg - m)) = v /\ (U16(reg - m) <= 255 <=> reg >= m)
    BY <1>1, <1>2 DEF U8, U16
<1>5. PICK b : b = Put(t.status, CARRY, reg >= m)
    OBVIOUS
<1>6. d = [t EXCEPT !.status = UpdateStatusFlags(b, v)]
    BY <1>4, <1>5 DEF doCMP, Put
<1>7. PICK on : on = Machine!NZ(v) \cup Machine!If(Machine!CARRY, reg >= m)
    OBVIOUS
<1>8. PICK w : w = Machine!Status({Machine!ZERO, Machine!NEGATIVE, Machine!CARRY}, on)
    OBVIOUS
<1>9. CARRY \in Masks /\ CARRY # ZERO /\ CARRY # NEGATIVE
    BY DEF CARRY, ZERO, NEGATIVE, Masks
<1>10. on \in SUBSET Masks
    BY <1>3, <1>7, <1>9, OnesUpdate, MachineFlags DEF Machine!If
<1>11. w \in Byte /\ Ones(w) = (Ones(t.status) \ {ZERO, NEGATIVE, CARRY}) \cup on
    BY <1>8, <1>10, MachineStatus, MachineFlags
<1>12. Ones(b) = (Ones(t.status) \ {CARRY}) \cup (IF reg >= m THEN {CARRY} ELSE {})
    BY <1>5, <1>9, OnesPut
<1>13. /\ UpdateStatusFlags(b, v) \in Byte
       /\ Ones(UpdateStatusFlags(b, v)) = (Ones(b) \ {ZERO, NEGATIVE}) \cup Machine!NZ(v)
    BY <1>3, OnesUpdate, MachineFlags
<1>14. Ones(UpdateStatusFlags(b, v)) \ {} = Ones(w) \ {}
    BY <1>7, <1>9, <1>11, <1>12, <1>13, MachineFlags DEF Machine!If
<1>15. PICK r : r = [t EXCEPT !.status = w]
    OBVIOUS
<1>16. /\ r \in File /\ r.a = t.a /\ r.x = t.x /\ r.y = t.y /\ r.sp = t.sp /\ r.pc = t.pc
       /\ r.status = w
    BY <1>11, <1>15 DEF File
<1>17. /\ d \in File /\ d.a = t.a /\ d.x = t.x /\ d.y = t.y /\ d.sp = t.sp /\ d.pc = t.pc
       /\ d.status = UpdateStatusFlags(b, v)
    BY <1>6, <1>13 DEF File
<1>18. Machine!Becomes(r, boundary.ram, {})
    BY <1>14, <1>16, <1>17, Reached
<1>19. Machine!U8(reg - m) = v
    BY <1>1, MachineBytes
<1> QED
    BY <1>7, <1>8, <1>15, <1>18, <1>19 DEF Machine!Compare

(* A byte is 0 when none of its bits is set.                                           *)
LEMMA NoOnes ==
    ASSUME NEW S \in SUBSET Masks
    PROVE  ByteOf(S) = 0 <=> S = {}
<1>1. Ones(ByteOf(S)) = S
    BY OnesByteOf
<1>2. Ones(0) = {}
    BY DEF Ones, Has, Masks
<1>3. ByteOf({}) = 0
    BY DEF ByteOf
<1> QED
    BY <1>1, <1>2, <1>3

(* BIT.                                                                                *)
LEMMA Tests ==
    ASSUME NEW t \in File, t = Machine!Then, t.status = boundary.regs.status,
           t.a = boundary.regs.a, NEW m \in Byte,
           NEW d, d = doBIT(t, m), Ends(d, boundary.ram)
    PROVE  Machine!TestBits(m)
<1>1. /\ OVERFLOW \in Masks /\ NEGATIVE \in Masks /\ ZERO \in Masks
      /\ OVERFLOW # NEGATIVE /\ OVERFLOW # ZERO /\ ZERO # NEGATIVE
      /\ OVERFLOW = 64 /\ NEGATIVE = 128
    BY DEF OVERFLOW, NEGATIVE, ZERO, Masks
<1>2. PICK b : b = Put(t.status, OVERFLOW, Has(m, 64))
    OBVIOUS
<1>3. PICK c : c = Put(b, NEGATIVE, Has(m, 128))
    OBVIOUS
<1>4. PICK e : e = Put(c, ZERO, BitAnd(m, t.a) = 0)
    OBVIOUS
<1>5. d = [t EXCEPT !.status = e] /\ e \in Byte
    BY <1>2, <1>3, <1>4, PutType DEF doBIT
<1>6. Ones(b) = (Ones(t.status) \ {OVERFLOW}) \cup (IF Has(m, 64) THEN {OVERFLOW} ELSE {})
    <2>1. PICK st : st = t.status
        OBVIOUS
    <2>2. Ones(Put(st, OVERFLOW, Has(m, 64)))
              = (Ones(st) \ {OVERFLOW}) \cup (IF Has(m, 64) THEN {OVERFLOW} ELSE {})
        BY <1>1, OnesPut
    <2> QED
        BY <1>2, <2>1, <2>2
<1>7. Ones(c) = (Ones(b) \ {NEGATIVE}) \cup (IF Has(m, 128) THEN {NEGATIVE} ELSE {})
    BY <1>1, <1>3, OnesPut
<1>8. Ones(e) = (Ones(c) \ {ZERO}) \cup (IF BitAnd(m, t.a) = 0 THEN {ZERO} ELSE {})
    <2>1. PICK g : g = (BitAnd(m, t.a) = 0)
        OBVIOUS
    <2>2. Ones(Put(c, ZERO, g)) = (Ones(c) \ {ZERO}) \cup (IF g THEN {ZERO} ELSE {})
        BY <1>1, OnesPut
    <2> QED
        BY <1>4, <2>1, <2>2
<1>9. BitAnd(m, t.a) = 0 <=> Ones(m) \cap Ones(t.a) = {}
    BY NoOnes DEF BitAnd, Ones
<1>10. /\ OVERFLOW \in Ones(m) <=> Has(m, 64)
       /\ NEGATIVE \in Ones(m) <=> Has(m, 128)
    BY <1>1 DEF Ones
<1>11. PICK on : on = (Machine!Ones(m) \cap {Machine!NEGATIVE, Machine!OVERFLOW})
                      \cup Machine!If(Machine!ZERO,
                              Machine!Ones(m) \cap Machine!Ones(t.a) = {})
    OBVIOUS
<1>12. on = (Ones(m) \cap {NEGATIVE, OVERFLOW})
            \cup (IF Ones(m) \cap Ones(t.a) = {} THEN {ZERO} ELSE {})
    BY <1>11, MachineBytes, MachineFlags DEF Machine!If
<1>13. on \in SUBSET Masks
    BY <1>1, <1>12
<1>14. PICK w : w = Machine!Status({Machine!ZERO, Machine!NEGATIVE, Machine!OVERFLOW}, on)
    OBVIOUS
<1>15. w \in Byte /\ Ones(w) = (Ones(t.status) \ {ZERO, NEGATIVE, OVERFLOW}) \cup on
    BY <1>13, <1>14, MachineStatus, MachineFlags
<1>16. Ones(e) \ {} = Ones(w) \ {}
    BY <1>1, <1>6, <1>7, <1>8, <1>9, <1>10, <1>12, <1>15
<1>17. PICK r : r = [t EXCEPT !.status = w]
    OBVIOUS
<1>18. /\ r \in File /\ r.a = t.a /\ r.x = t.x /\ r.y = t.y /\ r.sp = t.sp /\ r.pc = t.pc
       /\ r.status = w
    BY <1>15, <1>17 DEF File
<1>19. /\ d \in File /\ d.a = t.a /\ d.x = t.x /\ d.y = t.y /\ d.sp = t.sp /\ d.pc = t.pc
       /\ d.status = e
    BY <1>5 DEF File
<1>20. Machine!Becomes(r, boundary.ram, {})
    BY <1>16, <1>18, <1>19, Reached
<1> QED
    BY <1>11, <1>14, <1>17, <1>20 DEF Machine!TestBits

(* The two forms of the bitwise operators.                                             *)
LEMMA MachineBitwise ==
    ASSUME NEW u \in Byte, NEW v \in Byte
    PROVE  /\ Machine!ByteOf(Machine!Ones(u) \cap Machine!Ones(v)) = BitAnd(u, v)
           /\ Machine!ByteOf(Machine!Ones(u) \cup Machine!Ones(v)) = BitOr(u, v)
           /\ Machine!ByteOf({k \in Machine!Masks : Machine!Has(u, k) # Machine!Has(v, k)})
                  = BitXor(u, v)
           /\ BitAnd(u, v) \in Byte /\ BitOr(u, v) \in Byte /\ BitXor(u, v) \in Byte
<1>1. {k \in Masks : Has(u, k) # Has(v, k)} = (Ones(u) \cup Ones(v)) \ (Ones(u) \cap Ones(v))
    BY DEF Ones, Has
<1>2. {k \in Machine!Masks : Machine!Has(u, k) # Machine!Has(v, k)}
          = {k \in Masks : Has(u, k) # Has(v, k)}
    BY MachineBytes
<1> QED
    BY <1>1, <1>2, MachineBytes, ByteOfType DEF BitAnd, BitOr, BitXor

(* SBC: subtracting m and the borrow is adding its complement and the carry.            *)
LEMMA Subtracts ==
    ASSUME NEW a \in Byte, NEW m \in Byte, NEW c \in 0 .. 1
    PROVE  /\ U8(U16(a - m - (1 - c))) = U8(a + (255 - m) + c)
           /\ U16(a - m - (1 - c)) <= 255 <=> a + (255 - m) + c > 255
<1>1. a \in Int /\ 0 <= a /\ a <= 255 /\ m \in Int /\ 0 <= m /\ m <= 255 /\ c \in {0, 1}
    BY ByteMember
<1>2. CASE c = 0
    BY <1>1, <1>2 DEF U8, U16
<1>3. CASE c = 1
    BY <1>1, <1>3 DEF U8, U16
<1> QED
    BY <1>1, <1>2, <1>3

(* What the two sums write.                                                            *)
LEMMA SumFields ==
    ASSUME NEW t \in File, NEW w \in Byte, NEW v \in Byte,
           NEW d, d = SetA([t EXCEPT !.status = w], v)
    PROVE  /\ d \in File
           /\ d.a = v /\ d.x = t.x /\ d.y = t.y /\ d.sp = t.sp /\ d.pc = t.pc
           /\ d.status = UpdateStatusFlags(w, v)
<1>1. PICK c : c = [t EXCEPT !.status = w]
    OBVIOUS
<1>2. /\ c \in File /\ c.a = t.a /\ c.x = t.x /\ c.y = t.y /\ c.sp = t.sp /\ c.pc = t.pc
      /\ c.status = w
    BY <1>1 DEF File
<1>3. d = SetA(c, v)
    BY <1>1
<1>4. /\ SetA(c, v) \in File
      /\ SetA(c, v).a = v /\ SetA(c, v).x = c.x /\ SetA(c, v).y = c.y /\ SetA(c, v).sp = c.sp
      /\ SetA(c, v).pc = c.pc /\ SetA(c, v).status = UpdateStatusFlags(c.status, v)
    BY <1>2, SetFields
<1> QED
    BY <1>2, <1>3, <1>4, Zenon

(* An instruction that reads a byte does to the registers what the instruction set says. *)
LEMMA ReadEnds ==
    ASSUME NEW op \in ReadOps, Machine!Op = op, {"NoOverflow", "Decimal"} \subseteq Waived,
           NEW t \in File, t = Machine!Then, t.status = boundary.regs.status,
           t.a = boundary.regs.a, t.x = boundary.regs.x, t.y = boundary.regs.y,
           NEW m \in Byte, NEW d, d = ReadResult(op, t, m), Ends(d, boundary.ram)
    PROVE  Machine!ReadInstruction(m)
<1>1. t.a \in Byte /\ t.x \in Byte /\ t.y \in Byte /\ t.status \in Byte
    BY DEF File
<1>2. ~Machine!DecimalMode
    BY DEF Machine!DecimalMode
<1>4. CASE op \in {"LDA", "LDX", "LDY"}
    <2>1. /\ op = "LDA" => d = SetA(t, m)
          /\ op = "LDX" => d = SetX(t, m)
          /\ op = "LDY" => d = SetY(t, m)
        BY DEF ReadResult
    <2>2. /\ op = "LDA" => Machine!Load("a", m)
          /\ op = "LDX" => Machine!Load("x", m)
          /\ op = "LDY" => Machine!Load("y", m)
        BY <2>1, Loads
    <2> QED
        BY <1>4, <2>2 DEF Machine!ReadInstruction
<1>5. CASE op \in {"AND", "ORA", "EOR"}
    <2>1. /\ op = "AND" => d = SetA(t, BitAnd(t.a, m))
          /\ op = "ORA" => d = SetA(t, BitOr(t.a, m))
          /\ op = "EOR" => d = SetA(t, BitXor(t.a, m))
        BY DEF ReadResult, doAND, doORA, doEOR
    <2>2. BitAnd(t.a, m) \in Byte /\ BitOr(t.a, m) \in Byte /\ BitXor(t.a, m) \in Byte
        BY <1>1, MachineBitwise
    <2>3. /\ op = "AND" => Machine!Load("a", BitAnd(t.a, m))
          /\ op = "ORA" => Machine!Load("a", BitOr(t.a, m))
          /\ op = "EOR" => Machine!Load("a", BitXor(t.a, m))
        BY <2>1, <2>2, Loads
    <2>4. PICK u : u = t.a
        OBVIOUS
    <2>5. /\ BitAnd(t.a, m) = Machine!ByteOf(Machine!Ones(boundary.regs.a)
                                              \cap Machine!Ones(m))
          /\ BitOr(t.a, m) = Machine!ByteOf(Machine!Ones(boundary.regs.a)
                                             \cup Machine!Ones(m))
          /\ BitXor(t.a, m) = Machine!ByteOf({k \in Machine!Masks :
                  Machine!Has(boundary.regs.a, k) # Machine!Has(m, k)})
        <3>1. /\ Machine!ByteOf(Machine!Ones(u) \cap Machine!Ones(m)) = BitAnd(u, m)
              /\ Machine!ByteOf(Machine!Ones(u) \cup Machine!Ones(m)) = BitOr(u, m)
              /\ Machine!ByteOf({k \in Machine!Masks : Machine!Has(u, k) # Machine!Has(m, k)})
                     = BitXor(u, m)
            <4>1. u \in Byte
                BY <1>1, <2>4
            <4> QED
                BY <4>1, MachineBitwise, Zenon
        <3> QED
            BY <2>4, <3>1
    <2> QED
        BY <1>5, <2>3, <2>5 DEF Machine!ReadInstruction
<1>6. CASE op \in {"ADC", "SBC"}
    <2>1. PICK c : c = CarryOf(t.status)
        OBVIOUS
    <2>2. c \in 0 .. 1
        <3>1. t.status \in Int
            BY <1>1, ByteMember
        <3> QED
            BY <2>1, <3>1 DEF CarryOf
    <2>3. t.a \in Int /\ m \in Int /\ c \in Int /\ 255 - m \in Byte
        BY <1>1, <2>2, ByteMember
    <2>4. CASE op = "ADC"
        <3>1. PICK sum : sum = t.a + m + c
            OBVIOUS
        <3>2. U8(sum) \in Byte
            BY <2>3, <3>1, NarrowType
        <3>3. d = SetA([t EXCEPT !.status = Put(t.status, CARRY, sum > 255)], U8(sum))
            BY <2>1, <2>4, <3>1 DEF ReadResult, doADC
        <3>4. /\ d \in File
              /\ d.a = U8(sum) /\ d.x = t.x /\ d.y = t.y /\ d.sp = t.sp /\ d.pc = t.pc
              /\ d.status = UpdateStatusFlags(Put(t.status, CARRY, sum > 255), U8(sum))
            <4>1. PICK w, u : w = Put(t.status, CARRY, sum > 255) /\ u = U8(sum)
                OBVIOUS
            <4>2. d = SetA([t EXCEPT !.status = w], u) /\ w \in Byte /\ u \in Byte
                BY <3>2, <3>3, <4>1, PutType
            <4> QED
                BY <4>1, <4>2, SumFields
        <3>5. Machine!Add(m)
            BY <2>1, <3>1, <3>4, Adds
        <3> QED
            BY <1>2, <2>4, <3>5 DEF Machine!ReadInstruction
    <2>5. CASE op = "SBC"
        <3>1. PICK v, sum : v = 255 - m /\ sum = t.a + v + c
            OBVIOUS
        <3>2. U8(sum) \in Byte /\ v \in Byte
            BY <2>3, <3>1, NarrowType, ByteMember
        <3>3. /\ U8(U16(t.a - m - (1 - c))) = U8(sum)
              /\ U16(t.a - m - (1 - c)) <= 255 <=> sum > 255
            BY <1>1, <2>2, <3>1, Subtracts
        <3>4. PICK g, u : g = (U16(t.a - m - (1 - c)) <= 255) /\ u = U8(U16(t.a - m - (1 - c)))
            OBVIOUS
        <3>5. d = SetA([t EXCEPT !.status = Put(t.status, CARRY, g)], u)
            BY <2>1, <2>5, <3>4 DEF ReadResult, doSBC
        <3>6. g = (sum > 255) /\ u = U8(sum) /\ g \in BOOLEAN
            BY <3>3, <3>4
        <3>7. /\ d \in File
              /\ d.a = U8(sum) /\ d.x = t.x /\ d.y = t.y /\ d.sp = t.sp /\ d.pc = t.pc
              /\ d.status = UpdateStatusFlags(Put(t.status, CARRY, sum > 255), U8(sum))
            <4>1. PICK w : w = Put(t.status, CARRY, g)
                OBVIOUS
            <4>2. d = SetA([t EXCEPT !.status = w], u) /\ w \in Byte /\ u \in Byte
                BY <3>2, <3>5, <3>6, <4>1, PutType
            <4>3. w = Put(t.status, CARRY, sum > 255)
                BY <3>6, <4>1
            <4> QED
                BY <3>6, <4>2, <4>3, SumFields
        <3>8. Machine!Add(v)
            BY <2>1, <3>1, <3>2, <3>7, Adds
        <3> QED
            BY <1>2, <2>5, <3>1, <3>8 DEF Machine!ReadInstruction
    <2> QED
        BY <1>6, <2>4, <2>5
<1>7. CASE op \in {"CMP", "CPX", "CPY"}
    <2>1. /\ op = "CMP" => d = doCMP(t, t.a, m)
          /\ op = "CPX" => d = doCMP(t, t.x, m)
          /\ op = "CPY" => d = doCMP(t, t.y, m)
        BY DEF ReadResult
    <2>2. /\ op = "CMP" => Machine!Compare(t.a, m)
          /\ op = "CPX" => Machine!Compare(t.x, m)
          /\ op = "CPY" => Machine!Compare(t.y, m)
        BY <1>1, <2>1, Compares
    <2> QED
        BY <1>7, <2>2 DEF Machine!ReadInstruction
<1>8. CASE op = "BIT"
    <2>1. d = doBIT(t, m)
        BY <1>8 DEF ReadResult
    <2>2. Machine!TestBits(m)
        BY <2>1, Tests
    <2> QED
        BY <1>8, <2>2 DEF Machine!ReadInstruction
<1> QED
    BY <1>4, <1>5, <1>6, <1>7, <1>8 DEF ReadOps

-----------------------------------------------------------------------------------
(* The arithmetic of the addresses: within a page and across it.                        *)
LEMMA PageSteps ==
    ASSUME NEW b \in Byte, NEW x \in Byte
    PROVE  /\ U8(b) = b
           /\ U8(b + x) # 255 => U8(b + x + 1) = U8(b + x) + 1
           /\ b # 255 => U8(b + 1) = b + 1
           /\ b + x <= 255 => \A h \in Byte : U16(Join(h, b) + x) = Join(h, U8(b + x))
<1>1. b \in Int /\ 0 <= b /\ b <= 255 /\ x \in Int /\ 0 <= x /\ x <= 255
    BY ByteMember
<1>2. U8(b) = b /\ (b # 255 => U8(b + 1) = b + 1)
    BY <1>1 DEF U8
<1>3. U8(b + x) # 255 => U8(b + x + 1) = U8(b + x) + 1
    BY <1>1 DEF U8
<1>4. ASSUME NEW h \in Byte, b + x <= 255
      PROVE  U16(Join(h, b) + x) = Join(h, U8(b + x))
    <2>1. h \in Int /\ 0 <= h /\ h <= 255
        BY ByteMember
    <2>2. U8(b + x) = b + x
        BY <1>1, <1>4 DEF U8
    <2> QED
        BY <1>1, <1>4, <2>1, <2>2 DEF U16, Join
<1> QED
    BY <1>2, <1>3, <1>4

(* The machine works at the effective address, or where a known difference takes it.     *)
LEMMA Addresses ==
    ASSUME NEW s, NEW op, NEW mode, Starts(s, op, mode),
           mode \in {"IMM", "ZP", "ZPX", "ZPY", "ABS", "ABSX", "ABSY", "INDX", "INDY"},
           {"PointerCarry", "PointerWrap"} \subseteq Waived
    PROVE  /\ Target(s, mode) \in Word
           /\ \/ Machine!EffectiveAddress = Target(s, mode)
              \/ mode \in {"INDX", "INDY"} /\ Machine!WrongOperand
<1>1. /\ IsState(s) /\ s.regs = boundary.regs /\ s.ram = boundary.ram /\ s.rom = rom
      /\ s.regs.pc \in Word /\ s.regs.x \in Byte /\ s.regs.y \in Byte
    BY DEF Starts, IsState, File
<1>2. /\ Machine!Mode = mode /\ Machine!Op = op
      /\ Machine!Byte1 = CodeByte(s, 1) /\ Machine!Byte2 = CodeByte(s, 2)
    BY MachineDecodes
<1>3. PICK b1, b2 : b1 = CodeByte(s, 1) /\ b2 = CodeByte(s, 2)
    OBVIOUS
<1>4. b1 \in Byte /\ b2 \in Byte /\ Join(b2, b1) \in Word
    BY <1>1, <1>3, CodeTypes, JoinType
<1>5. /\ b1 \in Int /\ 0 <= b1 /\ b1 <= 255 /\ s.regs.x \in Int /\ s.regs.y \in Int
      /\ s.regs.pc \in Int /\ Join(b2, b1) \in Int
    BY <1>1, <1>4, ByteMember, WordMember
<1>6. CASE mode = "IMM"
    <2>1. U16(s.regs.pc + 1) \in Word
        BY <1>5, NarrowType
    <2>2. Target(s, mode) = U16(s.regs.pc + 1)
        BY <1>6 DEF Target, PCAfter
    <2>3. Machine!EffectiveAddress = U16(s.regs.pc + 1)
        BY <1>1, <1>2, <1>6, MachineBytes DEF Machine!EffectiveAddress
    <2> QED
        BY <2>1, <2>2, <2>3
<1>7. CASE mode = "ZP"
    <2>1. Target(s, mode) = b1 /\ Machine!EffectiveAddress = b1
        BY <1>2, <1>3, <1>7 DEF Target, Machine!EffectiveAddress
    <2>2. b1 \in Word
        BY <1>5, WordMember
    <2> QED
        BY <2>1, <2>2
<1>8. CASE mode \in {"ZPX", "ZPY"}
    <2>1. Target(s, mode) = U8(b1 + IF mode = "ZPX" THEN s.regs.x ELSE s.regs.y)
        BY <1>3, <1>8 DEF Target, Index
    <2>2. Machine!EffectiveAddress = U8(b1 + IF mode = "ZPX" THEN s.regs.x ELSE s.regs.y)
        BY <1>1, <1>2, <1>3, <1>8, MachineBytes DEF Machine!EffectiveAddress
    <2>3. PICK i : i = b1 + IF mode = "ZPX" THEN s.regs.x ELSE s.regs.y
        OBVIOUS
    <2>4. i \in Int
        BY <1>5, <2>3
    <2>5. U8(i) \in Word
        BY <2>4, NarrowType, ByteMember, WordMember
    <2> QED
        BY <2>1, <2>2, <2>3, <2>5
<1>9. CASE mode = "ABS"
    <2>1. Target(s, mode) = Join(b2, b1)
        BY <1>3, <1>9 DEF Target, CodeWord
    <2>2. Machine!EffectiveAddress = Join(b2, b1)
        BY <1>2, <1>3, <1>9, MachineBytes DEF Machine!EffectiveAddress
    <2> QED
        BY <1>4, <2>1, <2>2
<1>10. CASE mode \in {"ABSX", "ABSY"}
    <2>1. PICK i : i = Join(b2, b1) + IF mode = "ABSX" THEN s.regs.x ELSE s.regs.y
        OBVIOUS
    <2>2. Target(s, mode) = U16(i)
        BY <1>3, <1>10, <2>1 DEF Target, Index, CodeWord
    <2>3. Machine!EffectiveAddress = U16(i)
        BY <1>1, <1>2, <1>3, <1>10, <2>1, MachineBytes DEF Machine!EffectiveAddress
    <2>4. i \in Int
        BY <1>5, <2>1
    <2> QED
        BY <2>2, <2>3, <2>4, NarrowType
<1>11. CASE mode = "INDX"
    <2>1. PICK i, p : i = b1 + s.regs.x /\ p = U8(i)
        OBVIOUS
    <2>2. Target(s, mode) = Join(Peek(s, p + 1), Peek(s, p))
        BY <1>3, <1>11, <2>1 DEF Target, PointerAt
    <2>3. Target(s, mode) \in Word
        BY <1>1, <2>2, CellType, JoinType
    <2>4. Machine!EffectiveAddress = Join(Peek(s, U8(i + 1)), Peek(s, p))
        BY <1>1, <1>2, <1>3, <1>11, <2>1, MachineBytes, MachineReads
        DEF Machine!EffectiveAddress, Machine!Pointer
    <2>5. CASE p # 255
        <3>1. U8(i + 1) = p + 1
            BY <1>1, <1>4, <2>1, <2>5, PageSteps
        <3> QED
            BY <2>2, <2>3, <2>4, <3>1
    <2>6. CASE p = 255
        <3>1. Machine!WrongOperand
            BY <1>1, <1>2, <1>3, <1>11, <2>1, <2>6, MachineBytes DEF Machine!WrongOperand
        <3> QED
            BY <1>11, <2>3, <3>1
    <2> QED
        BY <2>5, <2>6
<1>12. CASE mode = "INDY"
    <2>1. PICK h, l : h = Peek(s, b1 + 1) /\ l = Peek(s, b1)
        OBVIOUS
    <2>2. h \in Byte /\ l \in Byte /\ l \in Int
        BY <1>1, <2>1, CellType, ByteMember
    <2>3. Target(s, mode) = Join(h, U8(l + s.regs.y))
        BY <1>3, <1>12, <2>1 DEF Target, PointerAt
    <2>4. Target(s, mode) \in Word
        <3>1. PICK i : i = l + s.regs.y
            OBVIOUS
        <3>2. i \in Int
            BY <1>5, <2>2, <3>1
        <3>3. U8(i) \in Byte
            BY <3>2, NarrowType
        <3> QED
            BY <2>2, <2>3, <3>1, <3>3, JoinType
    <2>5. Machine!EffectiveAddress = U16(Join(Peek(s, U8(b1 + 1)), Peek(s, U8(b1))) + s.regs.y)
        BY <1>1, <1>2, <1>3, <1>12, MachineBytes, MachineReads
        DEF Machine!EffectiveAddress, Machine!Pointer
    <2>6. CASE b1 = 255 \/ l + s.regs.y > 255
        <3>1. Machine!WrongOperand
            BY <1>1, <1>2, <1>3, <1>12, <2>1, <2>6, MachineReads DEF Machine!WrongOperand
        <3> QED
            BY <1>12, <2>4, <3>1
    <2>7. CASE b1 # 255 /\ l + s.regs.y <= 255
        <3>1. U8(b1 + 1) = b1 + 1 /\ U8(b1) = b1
            BY <1>4, <2>7, PageSteps
        <3>2. U16(Join(h, l) + s.regs.y) = Join(h, U8(l + s.regs.y))
            BY <1>1, <2>2, <2>7, PageSteps
        <3> QED
            BY <2>1, <2>3, <2>4, <2>5, <3>1, <3>2
    <2> QED
        BY <1>5, <2>2, <2>6, <2>7
<1> QED
    BY <1>6, <1>7, <1>8, <1>9, <1>10, <1>11, <1>12

-----------------------------------------------------------------------------------
(* The byte and the carry a shift, rotate or count leaves.                             *)
LEMMA ModifyValues ==
    ASSUME NEW op \in ModifyOps, NEW st \in Byte, NEW v \in Byte
    PROVE  LET r == ModifyResult(op, st, v)
           IN  /\ r.value \in Byte /\ r.carry \in BOOLEAN
               /\ op = "ASL" => /\ r.value = (2 * v) % 256
                                /\ r.carry <=> Has(st, CARRY) \/ v >= 128
               /\ op = "LSR" => /\ r.value = v \div 2
                                /\ r.carry <=> Has(st, CARRY) \/ v % 2 = 1
               /\ op = "ROL" => /\ r.value = (2 * v + CarryOf(st)) % 256
                                /\ r.carry <=> v >= 128
               /\ op = "ROR" => /\ r.value = (v + 256 * CarryOf(st)) \div 2
                                /\ r.carry <=> v % 2 = 1
               /\ op = "INC" => /\ r.value = (v + 1) % 256
                                /\ r.carry <=> Has(st, CARRY)
               /\ op = "DEC" => /\ r.value = (v + 255) % 256
                                /\ r.carry <=> Has(st, CARRY)
<1>1. v \in Int /\ 0 <= v /\ v <= 255 /\ st \in Int /\ 0 <= st
    BY ByteMember
<1>2. (Has(v, 128) <=> v >= 128) /\ (Has(v, 1) <=> v % 2 = 1)
    BY <1>1, TopBit DEF Has
<1>3. PICK c : c = CarryOf(st)
    OBVIOUS
<1>4. c \in {0, 1}
    BY <1>1, <1>3 DEF CarryOf
<1>5. /\ U8(2 * v) = (2 * v) % 256
      /\ U8(2 * v) + c = (2 * v + c) % 256
      /\ 128 * c + v \div 2 = (v + 256 * c) \div 2
      /\ U8(v + 1) = (v + 1) % 256
      /\ U8(v - 1) = (v + 255) % 256
    BY <1>1, <1>4 DEF U8
<1>6. /\ (2 * v) % 256 \in Byte /\ v \div 2 \in Byte /\ (2 * v + c) % 256 \in Byte
      /\ (v + 256 * c) \div 2 \in Byte /\ (v + 1) % 256 \in Byte /\ (v + 255) % 256 \in Byte
    BY <1>1, <1>4, ByteMember
<1>7. PICK r : r = ModifyResult(op, st, v)
    OBVIOUS
<1>8. /\ op = "ASL" => r = [value |-> U8(2 * v), carry |-> Has(st, CARRY) \/ Has(v, 128)]
      /\ op = "LSR" => r = [value |-> v \div 2, carry |-> Has(st, CARRY) \/ Has(v, 1)]
      /\ op = "ROL" => r = [value |-> U8(2 * v) + c, carry |-> Has(v, 128)]
      /\ op = "ROR" => r = [value |-> 128 * c + v \div 2, carry |-> Has(v, 1)]
      /\ op = "INC" => r = [value |-> U8(v + 1), carry |-> Has(st, CARRY)]
      /\ op = "DEC" => r = [value |-> U8(v - 1), carry |-> Has(st, CARRY)]
    BY <1>3, <1>7 DEF ModifyResult, ASL, LSR, ROL, ROR, INC, DEC
<1>9. /\ op = "ASL" => r.value = (2 * v) % 256
      /\ op = "LSR" => r.value = v \div 2
      /\ op = "ROL" => r.value = (2 * v + c) % 256
      /\ op = "ROR" => r.value = (v + 256 * c) \div 2
      /\ op = "INC" => r.value = (v + 1) % 256
      /\ op = "DEC" => r.value = (v + 255) % 256
    BY <1>5, <1>8
<1>10. r.value \in Byte
    BY <1>6, <1>9 DEF ModifyOps
<1>11. Has(st, CARRY) \in BOOLEAN /\ Has(v, 128) \in BOOLEAN /\ Has(v, 1) \in BOOLEAN
    BY DEF Has
<1>12. /\ op = "ASL" => r.carry = (Has(st, CARRY) \/ Has(v, 128))
       /\ op = "LSR" => r.carry = (Has(st, CARRY) \/ Has(v, 1))
       /\ op = "ROL" => r.carry = Has(v, 128)
       /\ op = "ROR" => r.carry = Has(v, 1)
       /\ op \in {"INC", "DEC"} => r.carry = Has(st, CARRY)
    BY <1>8
<1>13. r.carry \in BOOLEAN
    BY <1>11, <1>12, Zenon DEF ModifyOps
<1>14. /\ op = "ASL" => (r.carry <=> Has(st, CARRY) \/ v >= 128)
       /\ op = "LSR" => (r.carry <=> Has(st, CARRY) \/ v % 2 = 1)
       /\ op = "ROL" => (r.carry <=> v >= 128)
       /\ op = "ROR" => (r.carry <=> v % 2 = 1)
       /\ op \in {"INC", "DEC"} => (r.carry <=> Has(st, CARRY))
    BY <1>2, <1>12, ZenonT(30)
<1> QED
    BY <1>3, <1>7, <1>9, <1>10, <1>13, <1>14

(* The status byte of Modify(v, carry, open).                                          *)
ModifyStatus(v, carry) ==
    Machine!Status({Machine!ZERO, Machine!NEGATIVE, Machine!CARRY},
                   Machine!NZ(v) \cup Machine!If(Machine!CARRY, carry))

(* The flags of a shift, rotate or count, but for the open ones: g is the carry the      *)
(* machine leaves in the status byte p, and u the byte it takes Z and N from.            *)
LEMMA ModifyFlags ==
    ASSUME NEW v \in Byte, NEW u \in Byte, NEW carry \in BOOLEAN, NEW g \in BOOLEAN, NEW open,
           NEW p, Ones(p) = (Ones(boundary.regs.status) \ {CARRY}) \cup (IF g THEN {CARRY} ELSE {}),
           u = v \/ {ZERO, NEGATIVE} \subseteq open, g = carry \/ CARRY \in open,
           NEW w, w = ModifyStatus(v, carry)
    PROVE  /\ w \in Byte /\ UpdateStatusFlags(p, u) \in Byte
           /\ Ones(UpdateStatusFlags(p, u)) \ open = Ones(w) \ open
<1>1. PICK on : on = Machine!NZ(v) \cup Machine!If(Machine!CARRY, carry)
    OBVIOUS
<1>2. CARRY \in Masks /\ CARRY # ZERO /\ CARRY # NEGATIVE
    BY DEF CARRY, ZERO, NEGATIVE, Masks
<1>3. on = Machine!NZ(v) \cup (IF carry THEN {CARRY} ELSE {})
    BY <1>1, MachineFlags DEF Machine!If
<1>4. on \in SUBSET Masks
    BY <1>2, <1>3, OnesUpdate
<1>5. w \in Byte /\ Ones(w) = (Ones(boundary.regs.status) \ {ZERO, NEGATIVE, CARRY}) \cup on
    BY <1>1, <1>4, MachineStatus, MachineFlags DEF ModifyStatus
<1>6. /\ UpdateStatusFlags(p, u) \in Byte
      /\ Ones(UpdateStatusFlags(p, u)) = (Ones(p) \ {ZERO, NEGATIVE}) \cup Machine!NZ(u)
    BY OnesUpdate, MachineFlags
<1>7. Machine!NZ(u) \subseteq {ZERO, NEGATIVE} /\ Machine!NZ(v) \subseteq {ZERO, NEGATIVE}
    BY MachineFlags DEF Machine!NZ, Machine!If
<1>8. PICK st, x, y, nu, nv :
          /\ st = Ones(boundary.regs.status) /\ x = Ones(UpdateStatusFlags(p, u)) /\ y = Ones(w)
          /\ nu = Machine!NZ(u) /\ nv = Machine!NZ(v)
    OBVIOUS
<1>9. /\ x = (((st \ {CARRY}) \cup (IF g THEN {CARRY} ELSE {})) \ {ZERO, NEGATIVE}) \cup nu
      /\ y = (st \ {ZERO, NEGATIVE, CARRY}) \cup nv \cup (IF carry THEN {CARRY} ELSE {})
      /\ nu \subseteq {ZERO, NEGATIVE} /\ nv \subseteq {ZERO, NEGATIVE}
      /\ nu = nv \/ {ZERO, NEGATIVE} \subseteq open
    BY <1>3, <1>5, <1>6, <1>7, <1>8
<1>10. ASSUME NEW k PROVE k \in x \ open <=> k \in y \ open
    <2>1. CASE k \in {ZERO, NEGATIVE}
        BY <1>2, <1>9, <2>1
    <2>2. CASE k = CARRY
        BY <1>2, <1>9, <2>2
    <2>3. CASE k \notin {ZERO, NEGATIVE, CARRY}
        BY <1>9, <2>3
    <2> QED
        BY <2>1, <2>2, <2>3
<1> QED
    BY <1>5, <1>6, <1>8, <1>10

(* Rewriting the carry.                                                                *)
LEMMA CarryPut ==
    ASSUME NEW st, NEW g \in BOOLEAN
    PROVE  /\ Put(st, CARRY, g) \in Byte
           /\ Ones(Put(st, CARRY, g)) = (Ones(st) \ {CARRY}) \cup (IF g THEN {CARRY} ELSE {})
           /\ Ones(st) = (Ones(st) \ {CARRY}) \cup (IF Has(st, CARRY) THEN {CARRY} ELSE {})
<1>1. CARRY \in Masks
    BY DEF CARRY, Masks
<1>2. Put(st, CARRY, g) \in Byte
    BY PutType
<1>3. Ones(Put(st, CARRY, g)) = (Ones(st) \ {CARRY}) \cup (IF g THEN {CARRY} ELSE {})
    BY <1>1, OnesPut
<1>4. CARRY \in Ones(st) <=> Has(st, CARRY)
    BY <1>1 DEF Ones
<1> QED
    BY <1>2, <1>3, <1>4

(* The open flags of ModifyInstruction.                                                 *)
LEMMA MachineOpen ==
    ASSUME NEW op \in ModifyOps, Machine!Op = op, NEW mode, Machine!Mode = mode,
           {"StickyCarry", "ShiftFlags"} \subseteq Waived
    PROVE  /\ op \in {"ASL", "LSR"} /\ Has(boundary.regs.status, CARRY) =>
                 CARRY \in Machine!OpenFlags
           /\ op \in {"ASL", "LSR", "ROL", "ROR"} /\ mode # "ACC" =>
                 {ZERO, NEGATIVE} \subseteq Machine!OpenFlags
<1>1. Machine!Carry <=> Has(boundary.regs.status, CARRY)
    BY MachineBytes, MachineFlags DEF Machine!Carry, Has
<1> QED
    BY <1>1, MachineFlags DEF Machine!OpenFlags, Machine!Waive, Machine!If

(* What Modify is to be given for each of the instructions.                              *)
LEMMA Modifies ==
    ASSUME NEW op \in ModifyOps, Machine!Op = op, NEW v \in Byte,
           boundary.regs.status \in Byte,
           NEW value, NEW carry \in BOOLEAN, Machine!Modify(value, carry, Machine!OpenFlags),
           op = "ASL" => value = (2 * v) % 256 /\ (carry <=> v >= 128),
           op = "LSR" => value = v \div 2 /\ (carry <=> v % 2 = 1),
           op = "ROL" => /\ value = (2 * v + CarryOf(boundary.regs.status)) % 256
                         /\ carry <=> v >= 128,
           op = "ROR" => /\ value = (v + 256 * CarryOf(boundary.regs.status)) \div 2
                         /\ carry <=> v % 2 = 1,
           op = "INC" => value = (v + 1) % 256 /\ (carry <=> Has(boundary.regs.status, CARRY)),
           op = "DEC" => value = (v + 255) % 256 /\ (carry <=> Has(boundary.regs.status, CARRY))
    PROVE  Machine!ModifyInstruction(v)
<1>1. Machine!Carry <=> Has(boundary.regs.status, CARRY)
    BY MachineBytes, MachineFlags DEF Machine!Carry, Has
<1>2. Machine!Carry \in BOOLEAN
    BY DEF Machine!Carry, Machine!Has
<1>3. Machine!CarryOf(boundary.regs.status) = CarryOf(boundary.regs.status)
    BY MachineBytes
<1>4. CASE op = "ASL"
    <2>1. carry = (v >= 128)
        BY <1>4
    <2> QED
        BY <1>4, <2>1 DEF Machine!ModifyInstruction
<1>5. CASE op = "LSR"
    <2>1. carry = (v % 2 = 1)
        BY <1>5
    <2> QED
        BY <1>5, <2>1 DEF Machine!ModifyInstruction
<1>6. CASE op = "ROL"
    <2>1. carry = (v >= 128)
        BY <1>6
    <2> QED
        BY <1>3, <1>6, <2>1 DEF Machine!ModifyInstruction
<1>7. CASE op = "ROR"
    <2>1. carry = (v % 2 = 1)
        BY <1>7
    <2> QED
        BY <1>3, <1>7, <2>1 DEF Machine!ModifyInstruction
<1>8. CASE op = "INC"
    <2>1. carry = Machine!Carry
        BY <1>1, <1>2, <1>8
    <2> QED
        BY <1>8, <2>1 DEF Machine!ModifyInstruction
<1>9. CASE op = "DEC"
    <2>1. carry = Machine!Carry
        BY <1>1, <1>2, <1>9
    <2> QED
        BY <1>9, <2>1 DEF Machine!ModifyInstruction
<1> QED
    BY <1>4, <1>5, <1>6, <1>7, <1>8, <1>9 DEF ModifyOps

(* The carry the instruction set wants, and the one the machine leaves.                  *)
LEMMA Carries ==
    ASSUME NEW op \in ModifyOps, Machine!Op = op, NEW mode, Machine!Mode = mode,
           {"StickyCarry", "ShiftFlags"} \subseteq Waived,
           boundary.regs.status \in Byte, NEW v \in Byte,
           NEW r, r = ModifyResult(op, boundary.regs.status, v)
    PROVE  /\ r.value \in Byte /\ r.carry \in BOOLEAN
           /\ \E carry \in BOOLEAN :
                 /\ r.carry = carry \/ CARRY \in Machine!OpenFlags
                 /\ op \in {"INC", "DEC"} =>
                       carry = r.carry /\ carry = Has(boundary.regs.status, CARRY)
                 /\ Machine!Modify(r.value, carry, Machine!OpenFlags)
                       => Machine!ModifyInstruction(v)
<1>1. PICK st : st = boundary.regs.status
    OBVIOUS
<1>2. st \in Byte
    BY <1>1
<1>3. /\ r.value \in Byte /\ r.carry \in BOOLEAN
      /\ op = "ASL" => r.value = (2 * v) % 256 /\ (r.carry <=> Has(st, CARRY) \/ v >= 128)
      /\ op = "LSR" => r.value = v \div 2 /\ (r.carry <=> Has(st, CARRY) \/ v % 2 = 1)
      /\ op = "ROL" => r.value = (2 * v + CarryOf(st)) % 256 /\ (r.carry <=> v >= 128)
      /\ op = "ROR" => r.value = (v + 256 * CarryOf(st)) \div 2 /\ (r.carry <=> v % 2 = 1)
      /\ op = "INC" => r.value = (v + 1) % 256 /\ (r.carry <=> Has(st, CARRY))
      /\ op = "DEC" => r.value = (v + 255) % 256 /\ (r.carry <=> Has(st, CARRY))
    BY <1>1, <1>2, ModifyValues
<1>4. \E top \in BOOLEAN, low \in BOOLEAN : (top <=> v >= 128) /\ (low <=> v % 2 = 1)
    <2>1. (v >= 128) \in BOOLEAN /\ (v % 2 = 1) \in BOOLEAN
        OBVIOUS
    <2> WITNESS (v >= 128) \in BOOLEAN, (v % 2 = 1) \in BOOLEAN
    <2> QED
        OBVIOUS
<1> PICK top \in BOOLEAN, low \in BOOLEAN : (top <=> v >= 128) /\ (low <=> v % 2 = 1)
    BY <1>4
<1>5. PICK carry : carry = IF op = "ASL" THEN top ELSE IF op = "LSR" THEN low ELSE r.carry
    OBVIOUS
<1>6. carry \in BOOLEAN
    BY <1>3, <1>5
<1>7. /\ op = "ASL" => carry = top
      /\ op = "LSR" => carry = low
      /\ op \notin {"ASL", "LSR"} => carry = r.carry
    BY <1>5
<1>8. r.carry = carry \/ CARRY \in Machine!OpenFlags
    <2>1. op \in {"ASL", "LSR"} /\ Has(st, CARRY) => CARRY \in Machine!OpenFlags
        BY <1>1, MachineOpen
    <2>2. CASE op \in {"ASL", "LSR"} /\ Has(st, CARRY)
        BY <2>1, <2>2
    <2>3. CASE op \in {"ASL", "LSR"} /\ ~Has(st, CARRY)
        BY <1>3, <1>6, <1>7, <2>3
    <2>4. CASE op \notin {"ASL", "LSR"}
        BY <1>7, <2>4
    <2> QED
        BY <2>2, <2>3, <2>4
<1>9. op \in {"INC", "DEC"} => carry = r.carry /\ carry = Has(st, CARRY)
    BY <1>3, <1>7 DEF Has
<1>10. /\ op = "ASL" => r.value = (2 * v) % 256 /\ (carry <=> v >= 128)
       /\ op = "LSR" => r.value = v \div 2 /\ (carry <=> v % 2 = 1)
       /\ op = "ROL" => r.value = (2 * v + CarryOf(st)) % 256 /\ (carry <=> v >= 128)
       /\ op = "ROR" => r.value = (v + 256 * CarryOf(st)) \div 2 /\ (carry <=> v % 2 = 1)
       /\ op = "INC" => r.value = (v + 1) % 256 /\ (carry <=> Has(st, CARRY))
       /\ op = "DEC" => r.value = (v + 255) % 256 /\ (carry <=> Has(st, CARRY))
    <2>1. /\ op = "ASL" => (carry <=> v >= 128)
          /\ op = "LSR" => (carry <=> v % 2 = 1)
          /\ op = "ROL" => (carry <=> v >= 128)
          /\ op = "ROR" => (carry <=> v % 2 = 1)
        BY <1>3, <1>7
    <2>2. op \in {"INC", "DEC"} => (carry <=> Has(st, CARRY))
        BY <1>3, <1>7
    <2> QED
        BY <1>3, <2>1, <2>2, Zenon
<1>11. ASSUME Machine!Modify(r.value, carry, Machine!OpenFlags)
       PROVE  Machine!ModifyInstruction(v)
    <2>1. PICK value : value = r.value
        OBVIOUS
    <2>2. Machine!Modify(value, carry, Machine!OpenFlags)
        BY <1>11, <2>1
    <2> QED
        BY <1>1, <1>2, <1>6, <1>10, <1>11, <2>1, <2>2, Modifies
<1> QED
    BY <1>1, <1>3, <1>6, <1>8, <1>9, <1>11

(* A shift, rotate or count of the accumulator.                                         *)
LEMMA AccumulatorEnds ==
    ASSUME NEW op \in ModifyOps, Machine!Op = op, Machine!Mode = "ACC",
           {"StickyCarry", "ShiftFlags"} \subseteq Waived,
           NEW t \in File, t = Machine!Then, t.status = boundary.regs.status,
           t.a = boundary.regs.a,
           NEW d, d = ToAccumulator(t, ModifyResult(op, t.status, t.a)), Ends(d, boundary.ram)
    PROVE  Machine!ModifyInstruction(t.a)
<1>1. PICK v, r : v = t.a /\ r = ModifyResult(op, boundary.regs.status, v)
    OBVIOUS
<1>2. v \in Byte /\ t.status \in Byte
    BY <1>1 DEF File
<1>3. PICK carry \in BOOLEAN :
          /\ r.carry = carry \/ CARRY \in Machine!OpenFlags
          /\ Machine!Modify(r.value, carry, Machine!OpenFlags) => Machine!ModifyInstruction(v)
    BY <1>1, <1>2, Carries
<1>4. r.value \in Byte /\ r.carry \in BOOLEAN
    BY <1>1, <1>2, Carries
<1>5. PICK u, g, p : u = r.value /\ g = r.carry /\ p = Put(t.status, CARRY, g)
    OBVIOUS
<1>6. PICK open : open = Machine!OpenFlags
    OBVIOUS
<1>7. PICK w : w = ModifyStatus(u, carry)
    OBVIOUS
<1>8. u \in Byte /\ g \in BOOLEAN /\ (g = carry \/ CARRY \in open)
    BY <1>3, <1>4, <1>5, <1>6
<1>9. /\ p \in Byte
      /\ Ones(p) = (Ones(boundary.regs.status) \ {CARRY}) \cup (IF g THEN {CARRY} ELSE {})
    BY <1>5, <1>8, CarryPut
<1>10. w \in Byte /\ Ones(UpdateStatusFlags(p, u)) \ open = Ones(w) \ open
    BY <1>7, <1>8, <1>9, ModifyFlags
<1>11. d = SetA([t EXCEPT !.status = p], u)
    BY <1>1, <1>5 DEF ToAccumulator
<1>12. /\ d \in File /\ d.a = u /\ d.x = t.x /\ d.y = t.y /\ d.sp = t.sp /\ d.pc = t.pc
       /\ d.status = UpdateStatusFlags(p, u)
    BY <1>8, <1>9, <1>11, SumFields
<1>13. PICK after : after = [t EXCEPT !.status = w]
    OBVIOUS
<1>14. PICK e : e = [after EXCEPT !.a = u]
    OBVIOUS
<1>15. /\ e \in File /\ e.a = u /\ e.x = t.x /\ e.y = t.y /\ e.sp = t.sp /\ e.pc = t.pc
       /\ e.status = w
    BY <1>8, <1>10, <1>13, <1>14 DEF File
<1>16. Machine!Becomes(e, boundary.ram, open)
    BY <1>10, <1>12, <1>15, Reached
<1>17. Machine!Modify(u, carry, open)
    BY <1>7, <1>13, <1>14, <1>16 DEF Machine!Modify, ModifyStatus
<1> QED
    BY <1>1, <1>3, <1>5, <1>6, <1>17

(* A shift, rotate or count of a byte in memory.                                        *)
LEMMA ModifyEnds ==
    ASSUME NEW op \in ModifyOps, Machine!Op = op, NEW mode, Machine!Mode = mode, mode # "ACC",
           {"StickyCarry", "ShiftFlags"} \subseteq Waived,
           NEW t \in File, t = Machine!Then, t.status = boundary.regs.status,
           NEW v \in Byte, NEW a \in Word, Machine!EffectiveAddress = a,
           NEW r, r = ModifyResult(op, t.status, v),
           NEW d, d = InMemory(op, t, r), Ends(d, AfterWrite(boundary.ram, a, r.value))
    PROVE  Machine!ModifyInstruction(v)
<1>1. t.status \in Byte /\ t.a \in Byte
    BY DEF File
<1>2. PICK carry \in BOOLEAN :
          /\ r.carry = carry \/ CARRY \in Machine!OpenFlags
          /\ op \in {"INC", "DEC"} => carry = r.carry /\ carry = Has(boundary.regs.status, CARRY)
          /\ Machine!Modify(r.value, carry, Machine!OpenFlags) => Machine!ModifyInstruction(v)
    BY <1>1, Carries
<1>3. r.value \in Byte /\ r.carry \in BOOLEAN
    BY <1>1, Carries
<1>4. PICK value, g, open : value = r.value /\ g = r.carry /\ open = Machine!OpenFlags
    OBVIOUS
<1>5. value \in Byte /\ g \in BOOLEAN /\ (g = carry \/ CARRY \in open)
    BY <1>2, <1>3, <1>4
<1>6. PICK w : w = ModifyStatus(value, carry)
    OBVIOUS
<1>7. PICK p, u : /\ p = IF op \in {"INC", "DEC"} THEN t.status ELSE Put(t.status, CARRY, g)
                  /\ u = IF op \in {"INC", "DEC"} THEN value ELSE t.a
    OBVIOUS
<1>8. Ones(p) = (Ones(boundary.regs.status) \ {CARRY}) \cup (IF g THEN {CARRY} ELSE {})
    <2>1. PICK st : st = t.status
        OBVIOUS
    <2>2. /\ Ones(Put(st, CARRY, g)) = (Ones(st) \ {CARRY}) \cup (IF g THEN {CARRY} ELSE {})
          /\ Ones(st) = (Ones(st) \ {CARRY}) \cup (IF Has(st, CARRY) THEN {CARRY} ELSE {})
        BY <1>5, CarryPut
    <2>3. op \in {"INC", "DEC"} => g = Has(st, CARRY)
        BY <1>2, <1>4, <2>1
    <2> QED
        BY <1>7, <2>1, <2>2, <2>3
<1>9. u \in Byte /\ (u = value \/ {ZERO, NEGATIVE} \subseteq open)
    <2>1. op \in {"ASL", "LSR", "ROL", "ROR"} => {ZERO, NEGATIVE} \subseteq open
        BY <1>4, MachineOpen
    <2> QED
        BY <1>1, <1>5, <1>7, <2>1 DEF ModifyOps
<1>10. /\ w \in Byte /\ UpdateStatusFlags(p, u) \in Byte
       /\ Ones(UpdateStatusFlags(p, u)) \ open = Ones(w) \ open
    <2>1. value \in Byte /\ u \in Byte /\ carry \in BOOLEAN /\ g \in BOOLEAN
        BY <1>2, <1>5, <1>9
    <2>2. (u = value \/ {ZERO, NEGATIVE} \subseteq open) /\ (g = carry \/ CARRY \in open)
        BY <1>5, <1>9
    <2> QED
        BY <1>6, <1>8, <2>1, <2>2, ModifyFlags, SMTT(30)
<1>11. d = [t EXCEPT !.status = UpdateStatusFlags(p, u)]
    BY <1>4, <1>7 DEF InMemory, CountedInMemory, ShiftedInMemory
<1>12. PICK e : e = [t EXCEPT !.status = w]
    OBVIOUS
<1>13. /\ d \in File /\ d.a = e.a /\ d.x = e.x /\ d.y = e.y /\ d.sp = e.sp /\ d.pc = e.pc
       /\ d.status = UpdateStatusFlags(p, u) /\ e \in File /\ e.status = w
    BY <1>10, <1>11, <1>12 DEF File
<1>14. PICK f : f = AfterWrite(boundary.ram, a, value)
    OBVIOUS
<1>15. Machine!Becomes(e, f, open)
    BY <1>4, <1>10, <1>13, <1>14, Reached
<1>16. f = Machine!Poke(boundary.ram, Machine!EffectiveAddress, value)
    BY <1>14, MachinePokes
<1>17. Machine!Modify(value, carry, open)
    BY <1>6, <1>12, <1>15, <1>16 DEF Machine!Modify, ModifyStatus
<1> QED
    BY <1>2, <1>4, <1>17

-----------------------------------------------------------------------------------
(* A store.                                                                            *)
LEMMA StoreEnds ==
    ASSUME NEW op \in StoreOps, Machine!Op = op, NEW t \in File, t = Machine!Then,
           NEW a \in Word, Machine!EffectiveAddress = a,
           Ends(t, AfterWrite(boundary.ram, a, StoredByte(op, boundary.regs)))
    PROVE  Machine!StoreInstruction
<1>1. PICK v : v = StoredByte(op, boundary.regs)
    OBVIOUS
<1>2. PICK f : f = AfterWrite(boundary.ram, a, v)
    OBVIOUS
<1>3. Machine!Becomes(t, f, {})
    BY <1>1, <1>2, Reached
<1>4. f = Machine!Poke(boundary.ram, Machine!EffectiveAddress, v)
    BY <1>2, MachinePokes
<1>5. /\ op = "STA" => v = boundary.regs.a
      /\ op = "STX" => v = boundary.regs.x
      /\ op = "STY" => v = boundary.regs.y
    BY <1>1 DEF StoredByte
<1>6. CASE op = "STA"
    BY <1>3, <1>4, <1>5, <1>6 DEF Machine!StoreInstruction
<1>7. CASE op = "STX"
    BY <1>3, <1>4, <1>5, <1>7 DEF Machine!StoreInstruction
<1>8. CASE op = "STY"
    BY <1>3, <1>4, <1>5, <1>8 DEF Machine!StoreInstruction
<1> QED
    BY <1>6, <1>7, <1>8 DEF StoreOps

(* The registers an instruction on a byte of memory leaves alone.                       *)
LEMMA ReadKeeps ==
    ASSUME NEW op \in PointerOps \ {"STA"}, NEW t \in File, NEW m, NEW d, d = ReadResult(op, t, m)
    PROVE  d.x = t.x /\ d.y = t.y /\ d.sp = t.sp /\ d.pc = t.pc
<1>1. CASE op \in {"LDA", "AND", "ORA", "EOR"}
    <2>1. \E v, w : d = [t EXCEPT !.a = v, !.status = w]
        BY <1>1 DEF ReadResult, SetA, doAND, doORA, doEOR
    <2> QED
        BY <2>1 DEF File
<1>2. CASE op \in {"ADC", "SBC"}
    <2>1. PICK u, v, c : c = [t EXCEPT !.status = u] /\ d = SetA(c, v)
        BY <1>2 DEF ReadResult, doADC, doSBC
    <2>2. PICK w : d = [c EXCEPT !.a = v, !.status = w]
        BY <2>1 DEF SetA
    <2> QED
        BY <2>1, <2>2 DEF File
<1>3. CASE op = "CMP"
    <2>1. \E w : d = [t EXCEPT !.status = w]
        BY <1>3 DEF ReadResult, doCMP
    <2> QED
        BY <2>1 DEF File
<1> QED
    BY <1>1, <1>2, <1>3 DEF PointerOps

(* What shows at the end of the last cycle is what the instruction ends with.            *)
LEMMA Lands ==
    ASSUME boundary' = Snapshot', NEW c, NEW f, Holds(c, f)'
    PROVE  Ends(c, f)
BY DEF Snapshot, Holds, Ends

(* The modes of the memory instructions.                                               *)
LEMMA MemoryModes ==
    ASSUME NEW i, Row(i), i.op \in MemoryOps
    PROVE  i.mode \notin {"IMP", "IND", "REL"}
<1>1. i.op \notin StackOps \cup RegisterOps \cup Branches \cup {"NOP", "JMP", "JSR"}
    BY DEF MemoryOps, ReadOps, ModifyOps, StoreOps, StackOps, RegisterOps, Branches
<1> QED
    BY <1>1 DEF Row

(* A memory instruction of n bytes carried out at the address a.                         *)
LEMMA PerformedEnds ==
    ASSUME NEW s, NEW op \in MemoryOps, NEW mode, Starts(s, op, mode), mode # "ACC",
           {"StickyCarry", "ShiftFlags", "NoOverflow", "Decimal"} \subseteq Waived,
           NEW n \in 0 .. 3, Machine!Then = Behind(s, n), NEW a \in Word,
           Machine!EffectiveAddress = a \/ (op \in PointerOps /\ Machine!WrongOperand),
           boundary' = Snapshot', Performed(s, op, n, a)'
    PROVE  Machine!Instruction
<1>1. /\ IsState(s) /\ s.regs = boundary.regs /\ s.ram = boundary.ram /\ s.rom = rom
    BY DEF Starts
<1>2. Machine!Known /\ Machine!Op = op /\ Machine!Mode = mode
    BY MachineDecodes
<1>3. PICK t : t = Behind(s, n)
    OBVIOUS
<1>4. /\ t \in File /\ t = Machine!Then /\ t.status = boundary.regs.status
      /\ t.a = boundary.regs.a /\ t.x = boundary.regs.x /\ t.y = boundary.regs.y
      /\ t.sp = boundary.regs.sp
    BY <1>1, <1>3, BehindFields
<1>5. PICK m \in Readable(s, a) : PerformedOn(s, op, n, a, m)'
    BY DEF Performed
<1>6. m \in Byte /\ (Machine!EffectiveAddress = a => m \in Machine!Operands)
    <2>1. m \in Byte /\ m \in Machine!Found(a)
        BY <1>1, <1>5, MachineFinds
    <2>2. mode \notin {"ACC", "IMP", "IND", "REL"}
        BY MemoryModes, RowsAssumption DEF Starts
    <2> QED
        BY <1>2, <2>1, <2>2 DEF Machine!Operands
<1>7. PICK r : r = ModifyResult(op, s.regs.status, m)
    OBVIOUS
<1>8. \/ op \in ReadOps /\ Ends(ReadResult(op, t, m), s.ram)
      \/ op \in ModifyOps /\ Ends(InMemory(op, t, r), AfterWrite(s.ram, a, r.value))
      \/ op \in StoreOps /\ Ends(t, AfterWrite(s.ram, a, StoredByte(op, s.regs)))
    <2>1. \/ op \in ReadOps /\ Holds(ReadResult(op, t, m), s.ram)'
          \/ op \in ModifyOps /\ Holds(InMemory(op, t, r), AfterWrite(s.ram, a, r.value))'
          \/ op \in StoreOps /\ Holds(t, AfterWrite(s.ram, a, StoredByte(op, s.regs)))'
        BY <1>3, <1>5, <1>7 DEF PerformedOn
    <2> QED
        BY <2>1, Lands
<1>9. CASE Machine!EffectiveAddress = a
    <2>1. CASE op \in ReadOps /\ Ends(ReadResult(op, t, m), s.ram)
        <3>1. Machine!ReadInstruction(m)
            BY <1>1, <1>2, <1>4, <1>6, <2>1, ReadEnds
        <3> QED
            BY <1>2, <1>6, <1>9, <3>1 DEF Machine!Instruction
    <2>2. CASE op \in ModifyOps /\ Ends(InMemory(op, t, r), AfterWrite(s.ram, a, r.value))
        <3>1. Machine!ModifyInstruction(m)
            BY <1>1, <1>2, <1>4, <1>6, <1>7, <1>9, <2>2, ModifyEnds
        <3> QED
            BY <1>2, <1>6, <1>9, <3>1 DEF Machine!Instruction
    <2>3. CASE op \in StoreOps /\ Ends(t, AfterWrite(s.ram, a, StoredByte(op, s.regs)))
        BY <1>1, <1>2, <1>4, <1>9, <2>3, StoreEnds DEF Machine!Instruction
    <2> QED
        BY <1>8, <2>1, <2>2, <2>3
<1>10. CASE op \in PointerOps /\ Machine!WrongOperand
    <2>1. PICK d : boundary'.regs = d /\ d.x = t.x /\ d.y = t.y /\ d.sp = t.sp /\ d.pc = t.pc
        <3>1. CASE op \in ReadOps /\ Ends(ReadResult(op, t, m), s.ram)
            <4>1. op \in PointerOps \ {"STA"}
                BY <1>10, <3>1 DEF ReadOps, PointerOps
            <4> QED
                BY <1>4, <3>1, <4>1, ReadKeeps DEF Ends
        <3>2. CASE op \in StoreOps /\ Ends(t, AfterWrite(s.ram, a, StoredByte(op, s.regs)))
            BY <3>2 DEF Ends
        <3>3. op \notin ModifyOps
            BY <1>10 DEF PointerOps, ModifyOps
        <3> QED
            BY <1>8, <3>1, <3>2, <3>3
    <2>2. Machine!Difference
        BY <1>4, <1>10, <2>1 DEF Machine!Difference
    <2> QED
        BY <1>2, <2>2 DEF Machine!Instruction
<1> QED
    BY <1>9, <1>10

-----------------------------------------------------------------------------------
(* The instruction op of a row of k cycles has come to the end of its course.            *)
Finishes(s, op, mode, soft, v, k) ==
    /\ Starts(s, op, mode)
    /\ k \in 2 .. 7 /\ Row([op |-> op, mode |-> mode, cycles |-> k])
    /\ boundary' = Snapshot'
    /\ Course(s, op, mode, soft, v, k)'
    /\ Machine!Differences \subseteq Waived

(* What is known at the end of a course.                                              *)
LEMMA CourseAtEnd ==
    ASSUME NEW s, NEW op, NEW mode, NEW soft, NEW v, NEW k, Finishes(s, op, mode, soft, v, k)
    PROVE  /\ OneCourse(s, op, mode, soft, v, k)'
           /\ Starts(s, op, mode) /\ IsState(s) /\ boundary' = Snapshot'
           /\ s.regs = boundary.regs /\ s.ram = boundary.ram /\ s.rom = rom
           /\ k \in 2 .. 7 /\ Row([op |-> op, mode |-> mode, cycles |-> k])
           /\ Machine!Known /\ Machine!Op = op /\ Machine!Mode = mode
<1>1. Starts(s, op, mode)
    BY DEF Finishes
<1>2. OneCourse(s, op, mode, soft, v, k)'
    BY DEF Finishes, Course, OneCourse, MemoryOps, ReadOps, ModifyOps, StoreOps, RegisterOps
<1> QED
    BY <1>1, <1>2, MachineDecodes DEF Finishes, Starts

(* The differences by their names.                                                    *)
LEMMA AllWaived ==
    ASSUME Machine!Differences \subseteq Waived
    PROVE  {"StickyCarry", "ShiftFlags", "NoOverflow", "Decimal", "PointerCarry", "PointerWrap",
            "JumpIndirect", "CountZPX", "BVS", "ReturnB", "InterruptB", "NMIMask"} \subseteq Waived
BY DEF Machine!Differences

(* The cycles a memory instruction needs.                                              *)
LEMMA MemoryRows ==
    ASSUME NEW op, NEW mode, NEW k \in 2 .. 7, Row([op |-> op, mode |-> mode, cycles |-> k]),
           op \in MemoryOps, mode # "ACC"
    PROVE  /\ mode \in {"IMM", "ZP", "ZPX", "ZPY", "ABS", "ABSX", "ABSY", "INDX", "INDY"}
           /\ mode = "IMM" => op \in ReadOps
           /\ mode = "ZP" => k > 2
           /\ mode \in {"ZPX", "ZPY", "ABS", "ABSX", "ABSY"} => k > 3
           /\ mode = "ZPY" => op \notin {"INC", "DEC"}
           /\ mode \in {"INDX", "INDY"} => op \in PointerOps /\ k > 4
<1>1. op \notin StackOps \cup RegisterOps \cup Branches \cup {"NOP", "JMP", "JSR"}
    BY DEF MemoryOps, ReadOps, ModifyOps, StoreOps, StackOps, RegisterOps, Branches
<1> QED
    BY <1>1 DEF Row

(* INC zp,X and DEC zp,X: nothing has been done, and that is a known difference.         *)
LEMMA CountZPXEnds ==
    ASSUME NEW s, NEW op \in {"INC", "DEC"}, Starts(s, op, "ZPX"), "CountZPX" \in Waived,
           Ends(Behind(s, 2), s.ram)
    PROVE  Machine!Instruction
<1>1. PICK mode : mode = "ZPX"
    OBVIOUS
<1>2. /\ Machine!Known /\ Machine!Op = op /\ Machine!Mode = mode
      /\ Machine!Then = Behind(s, 2)
    BY <1>1, MachineDecodes, MachineLength
<1>3. PICK t : t = Behind(s, 2)
    OBVIOUS
<1>4. t.sp = boundary.regs.sp /\ t.x = boundary.regs.x /\ t.y = boundary.regs.y
    BY <1>3, BehindFields DEF Starts
<1>5. boundary'.regs = t
    BY <1>3 DEF Ends
<1>6. Machine!WrongOperand
    BY <1>1, <1>2 DEF Machine!WrongOperand
<1>7. Machine!Difference
    BY <1>2, <1>3, <1>4, <1>5, <1>6 DEF Machine!Difference
<1> QED
    BY <1>2, <1>7 DEF Machine!Instruction

(* The memory instructions.                                                            *)
LEMMA MemoryEnds ==
    ASSUME NEW s, NEW op \in MemoryOps, NEW mode, NEW soft, NEW v, NEW k,
           Finishes(s, op, mode, soft, v, k), mode # "ACC"
    PROVE  Machine!Instruction
<1>1. /\ OneCourse(s, op, mode, soft, v, k)'
      /\ Starts(s, op, mode) /\ IsState(s) /\ boundary' = Snapshot'
      /\ k \in 2 .. 7 /\ Row([op |-> op, mode |-> mode, cycles |-> k])
      /\ Machine!Mode = mode
    BY CourseAtEnd
<1>2. {"StickyCarry", "ShiftFlags", "NoOverflow", "Decimal", "PointerCarry", "PointerWrap",
       "CountZPX"} \subseteq Waived
    BY AllWaived DEF Finishes
<1>3. /\ mode \in {"IMM", "ZP", "ZPX", "ZPY", "ABS", "ABSX", "ABSY", "INDX", "INDY"}
      /\ mode = "IMM" => op \in ReadOps
      /\ mode = "ZP" => k > 2
      /\ mode \in {"ZPX", "ZPY", "ABS", "ABSX", "ABSY"} => k > 3
      /\ mode = "ZPY" => op \notin {"INC", "DEC"}
      /\ mode \in {"INDX", "INDY"} => op \in PointerOps /\ k > 4
    BY <1>1, MemoryRows
<1>4. PICK a : a = Target(s, mode)
    OBVIOUS
<1>5. /\ a \in Word
      /\ Machine!EffectiveAddress = a \/ (op \in PointerOps /\ Machine!WrongOperand)
    BY <1>1, <1>2, <1>3, <1>4, Addresses
<1>6. PICK n \in {2, 3} : /\ Machine!Then = Behind(s, n)
                          /\ n = IF mode \in {"ABS", "ABSX", "ABSY"} THEN 3 ELSE 2
    BY <1>1, <1>3, MachineLength
<1>7. CASE mode = "ZPX" /\ op \in {"INC", "DEC"}
    <2>1. ZeroPageIndexedCourse(s, op, mode, k)'
        BY <1>1, <1>7 DEF OneCourse
    <2>2. Holds(Behind(s, 2), s.ram)'
        BY <1>1, <1>3, <1>7, <2>1 DEF ZeroPageIndexedCourse
    <2>3. Ends(Behind(s, 2), s.ram)
        BY <1>1, <2>2, Lands
    <2> QED
        BY <1>1, <1>2, <1>7, <2>3, CountZPXEnds
<1>8. CASE ~(mode = "ZPX" /\ op \in {"INC", "DEC"})
    <2>1. Performed(s, op, n, a)'
        <3>1. CASE mode = "IMM"
            <4>1. ImmediateCourse(s, op, k)' /\ a = PCAfter(s, 1)
                BY <1>1, <1>4, <3>1 DEF OneCourse, Target
            <4> QED
                BY <1>1, <1>6, <3>1, <4>1 DEF ImmediateCourse
        <3>2. CASE mode = "ZP"
            <4>1. ZeroPageCourse(s, op, k)'
                BY <1>1, <3>2 DEF OneCourse
            <4> QED
                BY <1>1, <1>3, <1>4, <1>6, <3>2, <4>1 DEF ZeroPageCourse
        <3>3. CASE mode \in {"ZPX", "ZPY"}
            <4>1. ZeroPageIndexedCourse(s, op, mode, k)'
                BY <1>1, <3>3 DEF OneCourse
            <4> QED
                BY <1>1, <1>3, <1>4, <1>6, <1>8, <3>3, <4>1 DEF ZeroPageIndexedCourse
        <3>4. CASE mode \in {"ABS", "ABSX", "ABSY"}
            <4>1. AbsoluteCourse(s, op, mode, k)'
                BY <1>1, <3>4 DEF OneCourse
            <4> QED
                BY <1>1, <1>3, <1>4, <1>6, <3>4, <4>1 DEF AbsoluteCourse
        <3>5. CASE mode \in {"INDX", "INDY"}
            <4>1. PointerCourse(s, op, mode, k)'
                BY <1>1, <3>5 DEF OneCourse
            <4> QED
                BY <1>1, <1>3, <1>4, <1>6, <3>5, <4>1 DEF PointerCourse
        <3> QED
            BY <1>3, <3>1, <3>2, <3>3, <3>4, <3>5
    <2>2. n \in 0 .. 3
        BY <1>6
    <2> QED
        BY <1>1, <1>2, <1>5, <1>6, <2>1, <2>2, PerformedEnds
<1> QED
    BY <1>7, <1>8

-----------------------------------------------------------------------------------
(* The accumulator and register instructions.                                          *)
LEMMA AccumulatorFinishes ==
    ASSUME NEW s, NEW op, NEW mode, NEW soft, NEW v, NEW k,
           Finishes(s, op, mode, soft, v, k), mode = "ACC"
    PROVE  Machine!Instruction
<1>1. /\ OneCourse(s, op, mode, soft, v, k)'
      /\ Starts(s, op, mode) /\ IsState(s) /\ boundary' = Snapshot'
      /\ s.regs = boundary.regs /\ s.ram = boundary.ram
      /\ k \in 2 .. 7 /\ Row([op |-> op, mode |-> mode, cycles |-> k])
      /\ Machine!Known /\ Machine!Op = op /\ Machine!Mode = mode
    BY CourseAtEnd
<1>2. op \in ModifyOps
    BY <1>1, RowOps
<1>3. PICK t, d : /\ t = Behind(s, 1)
                  /\ d = ToAccumulator(t, ModifyResult(op, s.regs.status, s.regs.a))
    OBVIOUS
<1>4. Holds(d, s.ram)'
    <2>1. AccumulatorCourse(s, op, k)'
        BY <1>1 DEF OneCourse
    <2> QED
        BY <1>1, <1>3, <2>1 DEF AccumulatorCourse
<1>5. Ends(d, boundary.ram)
    BY <1>1, <1>4, Lands
<1>6. t \in File /\ t = Machine!Then /\ t.status = boundary.regs.status /\ t.a = boundary.regs.a
    BY <1>1, <1>3, BehindFields, MachineLength
<1>7. {"StickyCarry", "ShiftFlags"} \subseteq Waived
    BY AllWaived DEF Finishes
<1>8. Machine!ModifyInstruction(s.regs.a)
    <2>1. d = ToAccumulator(t, ModifyResult(op, t.status, t.a))
        BY <1>1, <1>3, <1>6
    <2> QED
        BY <1>1, <1>2, <1>5, <1>6, <1>7, <2>1, AccumulatorEnds
<1>9. s.regs.a \in Machine!Operands
    BY <1>1 DEF Machine!Operands
<1> QED
    BY <1>1, <1>8, <1>9 DEF Machine!Instruction

(* A flag cleared or set.                                                              *)
LEMMA FlagEnds ==
    ASSUME NEW t \in File, t.status = boundary.regs.status, NEW flag \in Masks,
           NEW d, Ends(d, boundary.ram)
    PROVE  /\ d = [t EXCEPT !.status = Put(t.status, flag, FALSE)] =>
                 Machine!Becomes([t EXCEPT !.status = Machine!Status({flag}, {})], boundary.ram, {})
           /\ d = [t EXCEPT !.status = Put(t.status, flag, TRUE)] =>
                 Machine!Becomes([t EXCEPT !.status = Machine!Status({}, {flag})], boundary.ram, {})
<1>1. PICK w0, w1 : w0 = Machine!Status({flag}, {}) /\ w1 = Machine!Status({}, {flag})
    OBVIOUS
<1>2. /\ w0 \in Byte /\ Ones(w0) = (Ones(t.status) \ {flag}) \cup {}
      /\ w1 \in Byte /\ Ones(w1) = (Ones(t.status) \ {}) \cup {flag}
    BY <1>1, MachineStatus
<1>3. PICK p0, p1 : p0 = Put(t.status, flag, FALSE) /\ p1 = Put(t.status, flag, TRUE)
    OBVIOUS
<1>4. p0 \in Byte /\ p1 \in Byte
    BY <1>3, PutType
<1>5. Ones(p0) = Ones(t.status) \ {flag} /\ Ones(p1) = Ones(t.status) \cup {flag}
    <2>1. PICK st : st = t.status
        OBVIOUS
    <2>2. Ones(Put(st, flag, FALSE)) = (Ones(st) \ {flag}) \cup {}
        BY OnesPut
    <2>3. Ones(Put(st, flag, TRUE)) = (Ones(st) \ {flag}) \cup {flag}
        BY OnesPut
    <2> QED
        BY <1>3, <2>1, <2>2, <2>3
<1>6. ASSUME NEW p \in Byte, NEW w \in Byte, Ones(p) = Ones(w), d = [t EXCEPT !.status = p]
      PROVE  Machine!Becomes([t EXCEPT !.status = w], boundary.ram, {})
    <2>1. PICK r : r = [t EXCEPT !.status = w]
        OBVIOUS
    <2>2. /\ r \in File /\ d \in File /\ d.a = r.a /\ d.x = r.x /\ d.y = r.y /\ d.sp = r.sp
          /\ d.pc = r.pc /\ d.status = p /\ r.status = w
        BY <1>6, <2>1 DEF File
    <2>3. Machine!Becomes(r, boundary.ram, {})
        BY <1>6, <2>2, Reached
    <2> QED
        BY <2>1, <2>3
<1>7. Ones(p0) = Ones(w0) /\ Ones(p1) = Ones(w1)
    BY <1>2, <1>5
<1> QED
    BY <1>1, <1>2, <1>3, <1>4, <1>6, <1>7

(* TAX to DEY, the flag instructions and NOP.                                          *)
LEMMA RegisterEnds ==
    ASSUME NEW op \in RegisterOps \cup {"NOP"}, Machine!Op = op,
           NEW t \in File, t = Machine!Then, t.status = boundary.regs.status,
           t.a = boundary.regs.a, t.x = boundary.regs.x, t.y = boundary.regs.y,
           t.sp = boundary.regs.sp, NEW d, d = RegisterResult(op, t), Ends(d, boundary.ram)
    PROVE  Machine!RegisterInstruction
<1>1. t.a \in Byte /\ t.x \in Byte /\ t.y \in Byte /\ t.sp \in Byte
    BY DEF File
<1>2. t.x \in Int /\ 0 <= t.x /\ t.y \in Int /\ 0 <= t.y
    BY <1>1, ByteMember
<1>3. CASE op \in {"TAX", "TAY", "TXA", "TYA", "TSX"}
    <2>1. /\ op = "TAX" => d = SetX(t, t.a)
          /\ op = "TAY" => d = SetY(t, t.a)
          /\ op = "TXA" => d = SetA(t, t.x)
          /\ op = "TYA" => d = SetA(t, t.y)
          /\ op = "TSX" => d = SetX(t, t.sp)
        BY DEF RegisterResult
    <2>2. /\ op = "TAX" => Machine!Load("x", t.a)
          /\ op = "TAY" => Machine!Load("y", t.a)
          /\ op = "TXA" => Machine!Load("a", t.x)
          /\ op = "TYA" => Machine!Load("a", t.y)
          /\ op = "TSX" => Machine!Load("x", t.sp)
        BY <1>1, <2>1, Loads
    <2> QED
        BY <1>3, <2>2 DEF Machine!RegisterInstruction
<1>4. CASE op \in {"INX", "INY", "DEX", "DEY"}
    <2>1. /\ op = "INX" => d = SetX(t, U8(t.x + 1))
          /\ op = "INY" => d = SetY(t, U8(t.y + 1))
          /\ op = "DEX" => d = SetX(t, U8(t.x - 1))
          /\ op = "DEY" => d = SetY(t, U8(t.y - 1))
        BY DEF RegisterResult
    <2>2. PICK xi, yi, xd, yd :
              xi = U8(t.x + 1) /\ yi = U8(t.y + 1) /\ xd = U8(t.x - 1) /\ yd = U8(t.y - 1)
        OBVIOUS
    <2>3. /\ xi = (t.x + 1) % 256 /\ yi = (t.y + 1) % 256
          /\ xd = (t.x + 255) % 256 /\ yd = (t.y + 255) % 256
        BY <1>2, <2>2 DEF U8
    <2>4. xi \in Byte /\ yi \in Byte /\ xd \in Byte /\ yd \in Byte
        BY <1>2, <2>3, ByteMember
    <2>5. /\ op = "INX" => Machine!Load("x", xi)
          /\ op = "INY" => Machine!Load("y", yi)
          /\ op = "DEX" => Machine!Load("x", xd)
          /\ op = "DEY" => Machine!Load("y", yd)
        BY <2>1, <2>2, <2>4, Loads
    <2> QED
        BY <1>4, <2>3, <2>5 DEF Machine!RegisterInstruction
<1>5. CASE op \in {"CLC", "SEC", "CLI", "SEI", "CLV", "CLD", "SED"}
    <2>1. /\ CARRY \in Masks /\ INTERRUPT \in Masks /\ OVERFLOW \in Masks /\ DECIMAL \in Masks
        BY DEF CARRY, INTERRUPT, OVERFLOW, DECIMAL, Masks
    <2>2. /\ op = "CLC" => d = [t EXCEPT !.status = Put(t.status, CARRY, FALSE)]
          /\ op = "SEC" => d = [t EXCEPT !.status = Put(t.status, CARRY, TRUE)]
          /\ op = "CLI" => d = [t EXCEPT !.status = Put(t.status, INTERRUPT, FALSE)]
          /\ op = "SEI" => d = [t EXCEPT !.status = Put(t.status, INTERRUPT, TRUE)]
          /\ op = "CLV" => d = [t EXCEPT !.status = Put(t.status, OVERFLOW, FALSE)]
          /\ op = "CLD" => d = [t EXCEPT !.status = Put(t.status, DECIMAL, FALSE)]
          /\ op = "SED" => d = [t EXCEPT !.status = Put(t.status, DECIMAL, TRUE)]
        BY DEF RegisterResult
    <2>3. ASSUME NEW flag \in Masks
          PROVE  /\ d = [t EXCEPT !.status = Put(t.status, flag, FALSE)] =>
                       Machine!Becomes([t EXCEPT !.status = Machine!Status({flag}, {})],
                                       boundary.ram, {})
                 /\ d = [t EXCEPT !.status = Put(t.status, flag, TRUE)] =>
                       Machine!Becomes([t EXCEPT !.status = Machine!Status({}, {flag})],
                                       boundary.ram, {})
        BY FlagEnds
    <2>4. CASE op = "CLC"
        BY <2>1, <2>2, <2>3, <2>4, MachineFlags DEF Machine!RegisterInstruction
    <2>5. CASE op = "SEC"
        BY <2>1, <2>2, <2>3, <2>5, MachineFlags DEF Machine!RegisterInstruction
    <2>6. CASE op = "CLI"
        BY <2>1, <2>2, <2>3, <2>6, MachineFlags DEF Machine!RegisterInstruction
    <2>7. CASE op = "SEI"
        BY <2>1, <2>2, <2>3, <2>7, MachineFlags DEF Machine!RegisterInstruction
    <2>8. CASE op = "CLV"
        BY <2>1, <2>2, <2>3, <2>8, MachineFlags DEF Machine!RegisterInstruction
    <2>9. CASE op = "CLD"
        BY <2>1, <2>2, <2>3, <2>9, MachineFlags DEF Machine!RegisterInstruction
    <2>10. CASE op = "SED"
        BY <2>1, <2>2, <2>3, <2>10, MachineFlags DEF Machine!RegisterInstruction
    <2> QED
        BY <1>5, <2>4, <2>5, <2>6, <2>7, <2>8, <2>9, <2>10
<1>6. CASE op = "TXS"
    <2>1. PICK r : r = [t EXCEPT !.sp = t.x]
        OBVIOUS
    <2>2. d = r /\ r \in File
        BY <1>1, <1>6, <2>1 DEF RegisterResult, File
    <2>3. Machine!Becomes(r, boundary.ram, {})
        BY <2>2, Reached
    <2> QED
        BY <1>6, <2>1, <2>3 DEF Machine!RegisterInstruction
<1>7. CASE op = "NOP"
    <2>1. d = t
        BY <1>7 DEF RegisterResult
    <2>2. Machine!Becomes(t, boundary.ram, {})
        BY <2>1, Reached
    <2> QED
        BY <1>7, <2>2 DEF Machine!RegisterInstruction
<1> QED
    BY <1>3, <1>4, <1>5, <1>6, <1>7 DEF RegisterOps

(* The instructions that work on registers, and NOP.                                  *)
LEMMA RegisterFinishes ==
    ASSUME NEW s, NEW op \in RegisterOps \cup {"NOP"}, NEW mode, NEW soft, NEW v, NEW k,
           Finishes(s, op, mode, soft, v, k), mode = "IMP"
    PROVE  Machine!Instruction
<1>1. /\ OneCourse(s, op, mode, soft, v, k)'
      /\ Starts(s, op, mode) /\ IsState(s) /\ boundary' = Snapshot'
      /\ s.regs = boundary.regs /\ s.ram = boundary.ram
      /\ k \in 2 .. 7 /\ Machine!Known /\ Machine!Op = op
    BY CourseAtEnd
<1>2. PICK t, d : t = Behind(s, 1) /\ d = RegisterResult(op, t)
    OBVIOUS
<1>3. Holds(d, s.ram)'
    <2>1. RegisterCourse(s, op, k)'
        BY <1>1 DEF OneCourse
    <2> QED
        BY <1>1, <1>2, <2>1 DEF RegisterCourse
<1>4. Ends(d, boundary.ram)
    BY <1>1, <1>3, Lands
<1>5. /\ t \in File /\ t = Machine!Then /\ t.status = boundary.regs.status
      /\ t.a = boundary.regs.a /\ t.x = boundary.regs.x /\ t.y = boundary.regs.y
      /\ t.sp = boundary.regs.sp
    BY <1>1, <1>2, BehindFields, MachineLength
<1>6. Machine!RegisterInstruction
    BY <1>1, <1>2, <1>4, <1>5, RegisterEnds
<1> QED
    BY <1>1, <1>6 DEF Machine!Instruction

-----------------------------------------------------------------------------------
(* JMP xxxx.                                                                           *)
LEMMA JumpFinishes ==
    ASSUME NEW s, NEW op, NEW mode, NEW soft, NEW v, NEW k,
           Finishes(s, op, mode, soft, v, k), mode = "ABS", op = "JMP"
    PROVE  Machine!Instruction
<1>1. /\ OneCourse(s, op, mode, soft, v, k)'
      /\ Starts(s, op, mode) /\ IsState(s) /\ boundary' = Snapshot'
      /\ s.regs = boundary.regs /\ s.ram = boundary.ram
      /\ k \in 2 .. 7 /\ Row([op |-> op, mode |-> mode, cycles |-> k])
      /\ Machine!Known /\ Machine!Op = op /\ Machine!Mode = mode
    BY CourseAtEnd
<1>2. k > 2
    BY <1>1 DEF Row, MemoryOps, ReadOps, ModifyOps, StoreOps
<1>3. PICK w, d : w = CodeWord(s) /\ d = [s.regs EXCEPT !.pc = w]
    OBVIOUS
<1>4. w \in Word /\ d \in File
    BY <1>1, <1>3, CodeTypes DEF IsState, File
<1>5. Holds(d, s.ram)'
    <2>1. JumpCourse(s, k)'
        BY <1>1 DEF OneCourse
    <2> QED
        BY <1>1, <1>2, <1>3, <2>1 DEF JumpCourse
<1>6. Machine!Becomes(d, boundary.ram, {})
    BY <1>1, <1>4, <1>5, Lands, Reached
<1>7. Machine!EffectiveAddress = w
    BY <1>1, <1>3, MachineDecodes, MachineBytes DEF Machine!EffectiveAddress, CodeWord
<1>8. Machine!JumpInstruction
    BY <1>1, <1>3, <1>6, <1>7 DEF Machine!JumpInstruction
<1> QED
    BY <1>1, <1>8 DEF Machine!Instruction

(* The cell JMP (xxxx) takes the high byte from is the next one, but for an odd page's    *)
(* last byte.                                                                          *)
LEMMA SecondIsNext ==
    ASSUME NEW s, IsState(s), CodeByte(s, 1) < 255 \/ CodeByte(s, 2) % 2 = 0
    PROVE  SecondCell(s) = U16(CodeWord(s) + 1)
<1>1. PICK l, h : l = CodeByte(s, 1) /\ h = CodeByte(s, 2)
    OBVIOUS
<1>2. l \in Int /\ 0 <= l /\ l <= 255 /\ h \in Int /\ 0 <= h /\ h <= 255
    BY <1>1, CodeTypes, ByteMember
<1>3. CodeWord(s) = 256 * h + l
    BY <1>1 DEF CodeWord, Join
<1>4. CASE l < 255
    <2>1. U16(256 * h + l + 1) = 256 * h + l + 1
        BY <1>2, <1>4 DEF U16
    <2> QED
        BY <1>1, <1>3, <1>4, <2>1 DEF SecondCell
<1>5. CASE l = 255 /\ h % 2 = 0
    <2>1. U16(256 * h + l + 1) = 256 * (h + 1) + 0
        BY <1>2, <1>5 DEF U16
    <2>2. SecondCell(s) = Join(h + 1, 0)
        BY <1>1, <1>5 DEF SecondCell
    <2> QED
        BY <1>3, <2>1, <2>2 DEF Join
<1> QED
    BY <1>1, <1>2, <1>4, <1>5

(* JMP (xxxx).                                                                         *)
LEMMA IndirectFinishes ==
    ASSUME NEW s, NEW op, NEW mode, NEW soft, NEW v, NEW k,
           Finishes(s, op, mode, soft, v, k), mode = "IND"
    PROVE  Machine!Instruction
<1>1. /\ OneCourse(s, op, mode, soft, v, k)'
      /\ Starts(s, op, mode) /\ IsState(s) /\ boundary' = Snapshot'
      /\ s.regs = boundary.regs /\ s.ram = boundary.ram /\ s.rom = rom
      /\ k \in 2 .. 7 /\ Row([op |-> op, mode |-> mode, cycles |-> k])
      /\ Machine!Known /\ Machine!Op = op /\ Machine!Mode = mode
    BY CourseAtEnd
<1>2. k > 4 /\ op = "JMP"
    BY <1>1 DEF Row
<1>3. PICK p, w, d : /\ p = CodeWord(s) /\ w = Join(Peek(s, SecondCell(s)), Peek(s, p))
                     /\ d = [s.regs EXCEPT !.pc = w]
    OBVIOUS
<1>4. w \in Word /\ d \in File
    <2>1. w \in Word
        BY <1>1, <1>3, CellType, JoinType
    <2> QED
        BY <1>1, <1>3, <2>1 DEF IsState, File
<1>5. Holds(d, s.ram)'
    <2>1. IndirectCourse(s, k)'
        BY <1>1 DEF OneCourse
    <2> QED
        BY <1>1, <1>2, <1>3, <2>1 DEF IndirectCourse
<1>6. Ends(d, boundary.ram)
    BY <1>1, <1>5, Lands
<1>7. Machine!Byte1 = CodeByte(s, 1) /\ Machine!Byte2 = CodeByte(s, 2)
    BY <1>1, MachineDecodes
<1>8. CASE CodeByte(s, 1) < 255 \/ CodeByte(s, 2) % 2 = 0
    <2>1. SecondCell(s) = U16(p + 1)
        BY <1>1, <1>3, <1>8, SecondIsNext
    <2>2. Machine!EffectiveAddress = w
        BY <1>1, <1>3, <1>7, <2>1, MachineBytes, MachineReads
        DEF Machine!EffectiveAddress, CodeWord
    <2>3. Machine!Becomes(d, boundary.ram, {})
        BY <1>4, <1>6, Reached
    <2>4. Machine!JumpInstruction
        BY <1>1, <1>2, <1>3, <2>2, <2>3 DEF Machine!JumpInstruction
    <2> QED
        BY <1>1, <2>4 DEF Machine!Instruction
<1>9. CASE ~(CodeByte(s, 1) < 255 \/ CodeByte(s, 2) % 2 = 0)
    <2>1. CodeByte(s, 1) = 255 /\ CodeByte(s, 2) % 2 = 1
        <3>1. PICK l, h : l = CodeByte(s, 1) /\ h = CodeByte(s, 2)
            OBVIOUS
        <3>2. l \in Int /\ l <= 255 /\ h \in Int
            BY <1>1, <3>1, CodeTypes, ByteMember
        <3> QED
            BY <1>9, <3>1, <3>2
    <2>2. Machine!WrongTarget
        BY <1>1, <1>7, <2>1, AllWaived DEF Machine!WrongTarget, Finishes
    <2>3. /\ boundary'.regs = d /\ boundary'.ram = boundary.ram
          /\ boundary'.regs = [boundary.regs EXCEPT !.pc = boundary'.regs.pc]
        <3>1. boundary'.regs = d /\ boundary'.ram = boundary.ram /\ boundary.regs \in File
            BY <1>1, <1>6 DEF Ends, IsState
        <3>2. d = [boundary.regs EXCEPT !.pc = d.pc]
            BY <1>1, <1>3, <3>1 DEF File
        <3> QED
            BY <3>1, <3>2
    <2>4. Machine!Difference
        BY <2>2, <2>3 DEF Machine!Difference, Machine!SameMemory
    <2> QED
        BY <1>1, <2>4 DEF Machine!Instruction
<1> QED
    BY <1>8, <1>9

(* The branches. BVS is known to branch on V clear.                                    *)
LEMMA RelativeFinishes ==
    ASSUME NEW s, NEW op, NEW mode, NEW soft, NEW v, NEW k,
           Finishes(s, op, mode, soft, v, k), mode = "REL"
    PROVE  Machine!Instruction
<1>1. /\ OneCourse(s, op, mode, soft, v, k)'
      /\ Starts(s, op, mode) /\ IsState(s) /\ boundary' = Snapshot'
      /\ s.regs = boundary.regs /\ s.ram = boundary.ram
      /\ k \in 2 .. 7 /\ Row([op |-> op, mode |-> mode, cycles |-> k])
      /\ Machine!Known /\ Machine!Op = op /\ Machine!Mode = mode
    BY CourseAtEnd
<1>2. op \in Branches /\ k > 2
    BY <1>1 DEF Row
<1>3. PICK w : w = U16(PCAfter(s, 2) + Signed(CodeByte(s, 1)))
    OBVIOUS
<1>4. PICK d : d = [s.regs EXCEPT !.pc = IF Taken(op, s.regs.status) THEN w ELSE PCAfter(s, 2)]
    OBVIOUS
<1>5. w \in Word /\ PCAfter(s, 2) \in Word
    <2>1. CodeByte(s, 1) \in Int /\ PCAfter(s, 2) \in Word
        BY <1>1, CodeTypes, BehindFields, ByteMember
    <2>2. Signed(CodeByte(s, 1)) \in Int /\ PCAfter(s, 2) \in Int
        BY <2>1, WordMember DEF Signed
    <2>3. PICK n : n = PCAfter(s, 2) + Signed(CodeByte(s, 1))
        OBVIOUS
    <2>4. n \in Int
        BY <2>2, <2>3
    <2> QED
        BY <1>3, <2>1, <2>3, <2>4, NarrowType
<1>6. d \in File
    BY <1>1, <1>4, <1>5 DEF IsState, File
<1>7. Ends(d, boundary.ram)
    <2>1. RelativeCourse(s, op, k)'
        BY <1>1 DEF OneCourse
    <2>2. Holds(d, s.ram)'
        BY <1>1, <1>2, <1>3, <1>4, <2>1 DEF RelativeCourse
    <2> QED
        BY <1>1, <2>2, Lands
<1>8. ASSUME NEW flag, NEW value \in BOOLEAN,
             Taken(op, s.regs.status) <=> (Has(s.regs.status, flag) <=> value)
      PROVE  Machine!Branch(flag, value)
    <2>1. PICK t : t = Machine!Then
        OBVIOUS
    <2>2. t \in File /\ t = Behind(s, 2) /\ t.pc = PCAfter(s, 2)
        BY <1>1, <2>1, MachineLength, BehindFields
    <2>3. w = Machine!U16(t.pc + Machine!Signed(Machine!Byte1))
        BY <1>1, <1>3, <2>2, MachineDecodes, MachineBytes
    <2>4. Machine!Has(boundary.regs.status, flag) = value <=> Taken(op, s.regs.status)
        <3>1. PICK st : st = s.regs.status
            OBVIOUS
        <3>2. Machine!Has(st, flag) = Has(st, flag) /\ Has(st, flag) \in BOOLEAN
            BY MachineBytes DEF Has
        <3> QED
            BY <1>1, <1>8, <3>1, <3>2
    <2>5. d = [t EXCEPT !.pc = IF Machine!Has(boundary.regs.status, flag) = value THEN w ELSE @]
        <3>1. d = [t EXCEPT !.pc = IF Taken(op, s.regs.status) THEN w ELSE t.pc]
            BY <1>1, <1>4, <2>2 DEF Behind, IsState, File
        <3> QED
            BY <2>2, <2>4, <3>1 DEF File
    <2>6. Machine!Becomes(d, boundary.ram, {})
        BY <1>6, <1>7, Reached
    <2> QED
        BY <2>1, <2>3, <2>5, <2>6 DEF Machine!Branch
<1>9. CASE op = "BVS"
    <2>1. Machine!WrongTarget
        BY <1>1, <1>9, AllWaived DEF Machine!WrongTarget, Finishes
    <2>2. /\ boundary'.regs = d /\ boundary'.ram = boundary.ram
          /\ boundary'.regs = [boundary.regs EXCEPT !.pc = boundary'.regs.pc]
        <3>1. boundary'.regs = d /\ boundary'.ram = boundary.ram /\ boundary.regs \in File
            BY <1>1, <1>7 DEF Ends, IsState
        <3>2. d = [boundary.regs EXCEPT !.pc = d.pc]
            BY <1>1, <1>4, <3>1 DEF File
        <3> QED
            BY <3>1, <3>2
    <2>3. Machine!Difference
        BY <2>1, <2>2 DEF Machine!Difference, Machine!SameMemory
    <2> QED
        BY <1>1, <2>3 DEF Machine!Instruction
<1>10. CASE op # "BVS"
    <2>1. /\ op = "BEQ" => Machine!Branch(ZERO, TRUE)
          /\ op = "BNE" => Machine!Branch(ZERO, FALSE)
          /\ op = "BMI" => Machine!Branch(NEGATIVE, TRUE)
          /\ op = "BPL" => Machine!Branch(NEGATIVE, FALSE)
          /\ op = "BCS" => Machine!Branch(CARRY, TRUE)
          /\ op = "BCC" => Machine!Branch(CARRY, FALSE)
          /\ op = "BVC" => Machine!Branch(OVERFLOW, FALSE)
        <3>1. /\ op = "BEQ" => (Taken(op, s.regs.status) <=> (Has(s.regs.status, ZERO) <=> TRUE))
              /\ op = "BNE" => (Taken(op, s.regs.status) <=> (Has(s.regs.status, ZERO) <=> FALSE))
              /\ op = "BMI" =>
                    (Taken(op, s.regs.status) <=> (Has(s.regs.status, NEGATIVE) <=> TRUE))
              /\ op = "BPL" =>
                    (Taken(op, s.regs.status) <=> (Has(s.regs.status, NEGATIVE) <=> FALSE))
              /\ op = "BCS" => (Taken(op, s.regs.status) <=> (Has(s.regs.status, CARRY) <=> TRUE))
              /\ op = "BCC" => (Taken(op, s.regs.status) <=> (Has(s.regs.status, CARRY) <=> FALSE))
              /\ op = "BVC" =>
                    (Taken(op, s.regs.status) <=> (Has(s.regs.status, OVERFLOW) <=> FALSE))
            BY DEF Taken
        <3> QED
            BY <1>8, <3>1
    <2>2. Machine!BranchInstruction
        BY <1>1, <1>2, <1>10, <2>1, MachineFlags DEF Machine!BranchInstruction, Branches
    <2> QED
        BY <1>1, <2>2 DEF Machine!Instruction
<1> QED
    BY <1>9, <1>10

-----------------------------------------------------------------------------------
(* The cycles of the implied instructions.                                             *)
LEMMA StackRows ==
    ASSUME NEW op \in StackOps, NEW k, Row([op |-> op, mode |-> "IMP", cycles |-> k])
    PROVE  /\ op \in {"PHA", "PHP"} => k > 2
           /\ op \in {"PLA", "PLP"} => k > 3
           /\ op \in {"RTS", "RTI"} => k > 5
           /\ op = "BRK" => k > 6
BY DEF Row, ImpliedWork, StackOps, RegisterOps

(* The registers at the start with the program counter w and the stack pointer n bytes   *)
(* away, and those behind the instruction with the stack pointer n bytes away.           *)
MovedTo(w, n) == [boundary.regs EXCEPT !.pc = w, !.sp = Machine!Sp(n)]
ThenMoved(n) == [Machine!Then EXCEPT !.sp = Machine!Sp(n)]

(* Registers given by WithPC as the instruction set writes them.                      *)
LEMMA WithPCMoves ==
    ASSUME NEW s, IsState(s), s.regs = boundary.regs, s.ram = boundary.ram, s.rom = rom,
           NEW w \in Word, NEW n \in -3 .. 3, NEW d, d = WithPC(s, w, n)
    PROVE  /\ d \in File /\ d.status = boundary.regs.status
           /\ d = MovedTo(w, n)
           /\ w = PCAfter(s, 1) /\ Machine!Then = Behind(s, 1) => d = ThenMoved(n)
<1>1. Machine!Sp(n) = Moved(s, n)
    BY MachineStack
<1>2. d = MovedTo(w, n)
    BY <1>1 DEF WithPC, MovedTo
<1>3. ASSUME w = PCAfter(s, 1), Machine!Then = Behind(s, 1)
      PROVE  d = ThenMoved(n)
    BY <1>1, <1>3 DEF WithPC, Behind, IsState, File, ThenMoved
<1>4. d \in File /\ d.status = boundary.regs.status
    BY WithPCFields
<1> QED
    BY <1>2, <1>3, <1>4

(* PHA and PHP.                                                                        *)
LEMMA PushFinishes ==
    ASSUME NEW s, NEW op \in {"PHA", "PHP"}, NEW mode, NEW soft, NEW v, NEW k,
           Finishes(s, op, mode, soft, v, k), mode = "IMP"
    PROVE  Machine!Instruction
<1>1. /\ OneCourse(s, op, mode, soft, v, k)'
      /\ Starts(s, op, mode) /\ IsState(s) /\ boundary' = Snapshot'
      /\ s.regs = boundary.regs /\ s.ram = boundary.ram /\ s.rom = rom
      /\ k \in 2 .. 7 /\ Row([op |-> op, mode |-> mode, cycles |-> k])
      /\ Machine!Known /\ Machine!Op = op
    BY CourseAtEnd
<1>2. k > 2
    BY <1>1, StackRows DEF StackOps
<1>3. PICK d, b, f : /\ d = WithPC(s, PCAfter(s, 1), -1)
                     /\ b = IF op = "PHA" THEN s.regs.a ELSE s.regs.status
                     /\ f = AfterWrite(s.ram, SlotAt(s, 0), b)
    OBVIOUS
<1>4. Holds(d, f)'
    <2>1. PushCourse(s, op, k)'
        BY <1>1 DEF OneCourse
    <2> QED
        BY <1>1, <1>2, <1>3, <2>1 DEF PushCourse
<1>5. Ends(d, f)
    BY <1>1, <1>4, Lands
<1>6. PCAfter(s, 1) \in Word /\ Machine!Then = Behind(s, 1)
    BY <1>1, BehindFields, MachineLength
<1>7. d \in File /\ d = ThenMoved(-1)
    BY <1>1, <1>3, <1>6, WithPCMoves
<1>8. Machine!Becomes(d, f, {})
    BY <1>5, <1>7, Reached
<1>9. f = Machine!Poke(boundary.ram, Machine!Slot(0), b)
    BY <1>1, <1>3, MachineStack, MachinePokes
<1>10. Machine!StackInstruction
    <2>1. CASE op = "PHA"
        BY <1>1, <1>3, <1>7, <1>8, <1>9, <2>1 DEF Machine!StackInstruction, ThenMoved
    <2>2. CASE op = "PHP"
        BY <1>1, <1>3, <1>7, <1>8, <1>9, <2>2 DEF Machine!StackInstruction, ThenMoved
    <2> QED
        BY <2>1, <2>2
<1> QED
    BY <1>1, <1>10 DEF Machine!Instruction

(* PLA and PLP.                                                                        *)
LEMMA PullFinishes ==
    ASSUME NEW s, NEW op \in {"PLA", "PLP"}, NEW mode, NEW soft, NEW v, NEW k,
           Finishes(s, op, mode, soft, v, k), mode = "IMP"
    PROVE  Machine!Instruction
<1>1. /\ OneCourse(s, op, mode, soft, v, k)'
      /\ Starts(s, op, mode) /\ IsState(s) /\ boundary' = Snapshot'
      /\ s.regs = boundary.regs /\ s.ram = boundary.ram /\ s.rom = rom
      /\ k \in 2 .. 7 /\ Row([op |-> op, mode |-> mode, cycles |-> k])
      /\ Machine!Known /\ Machine!Op = op
    BY CourseAtEnd
<1>2. k > 3
    BY <1>1, StackRows DEF StackOps
<1>3. PICK c, m, d : /\ c = WithPC(s, PCAfter(s, 1), 1)
                     /\ m = Peek(s, SlotAt(s, 1))
                     /\ d = AfterPull(op, c, m)
    OBVIOUS
<1>4. Holds(d, s.ram)'
    <2>1. PullCourse(s, op, k)'
        BY <1>1 DEF OneCourse
    <2> QED
        BY <1>1, <1>2, <1>3, <2>1 DEF PullCourse
<1>5. Ends(d, boundary.ram)
    BY <1>1, <1>4, Lands
<1>6. PCAfter(s, 1) \in Word /\ Machine!Then = Behind(s, 1) /\ m \in Byte
    BY <1>1, <1>3, BehindFields, MachineLength, CellType
<1>7. /\ c \in File /\ c = ThenMoved(1)
      /\ c.status = boundary.regs.status
    BY <1>1, <1>3, <1>6, WithPCMoves
<1>8. m = Machine!Pulled(1)
    BY <1>1, <1>3, MachineStack
<1>9. CASE op = "PLA"
    <2>1. d = SetA(c, m)
        BY <1>3, <1>9 DEF AfterPull
    <2>2. PICK w : w = Machine!Status({Machine!ZERO, Machine!NEGATIVE}, Machine!NZ(m))
        OBVIOUS
    <2>3. /\ w \in Byte
          /\ Ones(w) = (Ones(c.status) \ {Machine!ZERO, Machine!NEGATIVE}) \cup Machine!NZ(m)
        BY <1>6, <1>7, <2>2, MachineStatus, OnesUpdate
    <2>4. /\ d \in File /\ d.a = m /\ d.x = c.x /\ d.y = c.y /\ d.sp = c.sp /\ d.pc = c.pc
          /\ d.status = UpdateStatusFlags(c.status, m)
        BY <1>6, <1>7, <2>1, SetFields
    <2>5. Ones(d.status) \ {} = Ones(w) \ {}
        BY <1>6, <2>3, <2>4, OnesUpdate
    <2>6. PICK t : t = Machine!Then
        OBVIOUS
    <2>7. PICK r : r = [t EXCEPT !.sp = Machine!Sp(1), !.a = m, !.status = w]
        OBVIOUS
    <2>8. /\ r \in File /\ r.a = m /\ r.x = c.x /\ r.y = c.y /\ r.sp = c.sp /\ r.pc = c.pc
          /\ r.status = w
        <3>1. t \in File
            BY <1>1, <1>6, <2>6, BehindFields
        <3>2. r = [c EXCEPT !.a = m, !.status = w]
            BY <1>7, <2>6, <2>7, <3>1 DEF File, ThenMoved
        <3> QED
            BY <1>6, <1>7, <2>3, <3>2 DEF File
    <2>9. Machine!Becomes(r, boundary.ram, {})
        BY <1>5, <2>4, <2>5, <2>8, Reached
    <2>10. Machine!StackInstruction
        BY <1>1, <1>8, <1>9, <2>2, <2>6, <2>7, <2>9 DEF Machine!StackInstruction
    <2> QED
        BY <1>1, <2>10 DEF Machine!Instruction
<1>10. CASE op = "PLP"
    <2>1. PICK p : p = Put(m, BREAK, FALSE)
        OBVIOUS
    <2>2. p \in Byte /\ p = Machine!ByteOf(Machine!Ones(Machine!Pulled(1)) \ {Machine!BREAK})
        BY <1>8, <2>1, PutType, MachineBytes, MachineFlags DEF Put
    <2>3. PICK t : t = Machine!Then
        OBVIOUS
    <2>4. d = [t EXCEPT !.sp = Machine!Sp(1), !.status = p] /\ d \in File
        <3>1. t \in File
            BY <1>1, <1>6, <2>3, BehindFields
        <3>2. d = [c EXCEPT !.status = p]
            BY <1>3, <1>10, <2>1 DEF AfterPull, WithStatus
        <3> QED
            BY <1>7, <2>2, <2>3, <3>1, <3>2 DEF File, ThenMoved
    <2>5. Machine!Becomes(d, boundary.ram, {})
        BY <1>5, <2>4, Reached
    <2>6. Machine!StackInstruction
        BY <1>1, <1>10, <2>2, <2>3, <2>4, <2>5 DEF Machine!StackInstruction
    <2> QED
        BY <1>1, <2>6 DEF Machine!Instruction
<1> QED
    BY <1>9, <1>10

(* RTS.                                                                                *)
LEMMA ReturnFinishes ==
    ASSUME NEW s, NEW op, op = "RTS", NEW mode, NEW soft, NEW v, NEW k,
           Finishes(s, op, mode, soft, v, k), mode = "IMP"
    PROVE  Machine!Instruction
<1>1. /\ OneCourse(s, op, mode, soft, v, k)'
      /\ Starts(s, op, mode) /\ IsState(s) /\ boundary' = Snapshot'
      /\ s.regs = boundary.regs /\ s.ram = boundary.ram /\ s.rom = rom
      /\ k \in 2 .. 7 /\ Row([op |-> op, mode |-> mode, cycles |-> k])
      /\ Machine!Known /\ Machine!Op = op
    BY CourseAtEnd
<1>2. k > 5
    BY <1>1, StackRows DEF StackOps
<1>3. PICK target : target = Join(Peek(s, SlotAt(s, 2)), Peek(s, SlotAt(s, 1)))
    OBVIOUS
<1>4. PICK w, d : w = U16(target + 1) /\ d = WithPC(s, w, 2)
    OBVIOUS
<1>5. w \in Word
    <2>1. target \in Word
        BY <1>1, <1>3, CellType, JoinType
    <2>2. PICK n : n = target + 1
        OBVIOUS
    <2>3. n \in Int
        BY <2>1, <2>2, WordMember
    <2> QED
        BY <1>4, <2>2, <2>3, NarrowType
<1>6. Holds(d, s.ram)'
    <2>1. ReturnCourse(s, k)'
        BY <1>1 DEF OneCourse
    <2> QED
        BY <1>1, <1>2, <1>3, <1>4, <2>1 DEF ReturnCourse
<1>7. d \in File /\ d = MovedTo(w, 2)
    BY <1>1, <1>4, <1>5, WithPCMoves
<1>8. Machine!Becomes(d, boundary.ram, {})
    BY <1>1, <1>6, <1>7, Lands, Reached
<1>9. w = Machine!U16(Machine!Join(Machine!Pulled(2), Machine!Pulled(1)) + 1)
    BY <1>1, <1>3, <1>4, MachineStack, MachineBytes
<1>10. Machine!JumpInstruction
    BY <1>1, <1>7, <1>8, <1>9 DEF Machine!JumpInstruction, MovedTo
<1> QED
    BY <1>1, <1>10 DEF Machine!Instruction

(* RTI. The break flag is known to come from the stack.                                 *)
LEMMA InterruptReturnFinishes ==
    ASSUME NEW s, NEW op, op = "RTI", NEW mode, NEW soft, NEW v, NEW k,
           Finishes(s, op, mode, soft, v, k), mode = "IMP"
    PROVE  Machine!Instruction
<1>1. /\ OneCourse(s, op, mode, soft, v, k)'
      /\ Starts(s, op, mode) /\ IsState(s) /\ boundary' = Snapshot'
      /\ s.regs = boundary.regs /\ s.ram = boundary.ram /\ s.rom = rom
      /\ k \in 2 .. 7 /\ Row([op |-> op, mode |-> mode, cycles |-> k])
      /\ Machine!Known /\ Machine!Op = op
    BY CourseAtEnd
<1>2. k > 5
    BY <1>1, StackRows DEF StackOps
<1>3. PICK w, p : /\ w = Join(Peek(s, SlotAt(s, 3)), Peek(s, SlotAt(s, 2)))
                  /\ p = Peek(s, SlotAt(s, 1))
    OBVIOUS
<1>4. PICK c, d : c = WithPC(s, w, 3) /\ d = WithStatus(c, p)
    OBVIOUS
<1>5. w \in Word /\ p \in Byte
    BY <1>1, <1>3, CellType, JoinType
<1>6. Holds(d, s.ram)'
    <2>1. InterruptReturnCourse(s, k)'
        BY <1>1 DEF OneCourse
    <2> QED
        BY <1>1, <1>2, <1>3, <1>4, <2>1 DEF InterruptReturnCourse
<1>7. Ends(d, boundary.ram)
    BY <1>1, <1>6, Lands
<1>8. c \in File /\ c = MovedTo(w, 3)
    BY <1>1, <1>4, <1>5, WithPCMoves
<1>9. PICK S : S = (Ones(p) \ {BREAK}) \cup (Ones(boundary.regs.status) \cap {BREAK})
    OBVIOUS
<1>10. PICK b : b = ByteOf(S)
    OBVIOUS
<1>11. b \in Byte /\ Ones(b) = S
    <2>1. S \in SUBSET Masks
        BY <1>9 DEF Ones
    <2> QED
        BY <1>10, <2>1, OnesByteOf, ByteOfType
<1>12. PICK r : r = [boundary.regs EXCEPT !.pc = w, !.sp = Machine!Sp(3), !.status = b]
    OBVIOUS
<1>13. /\ r \in File /\ d \in File /\ d.a = r.a /\ d.x = r.x /\ d.y = r.y /\ d.sp = r.sp
       /\ d.pc = r.pc /\ d.status = p /\ r.status = b
    <2>1. r = [c EXCEPT !.status = b]
        <3>1. PICK g, q : g = boundary.regs /\ q = Machine!Sp(3)
            OBVIOUS
        <3>2. g \in File /\ c = [g EXCEPT !.pc = w, !.sp = q]
            BY <1>1, <1>8, <3>1 DEF IsState, MovedTo
        <3>3. r = [g EXCEPT !.pc = w, !.sp = q, !.status = b]
            BY <1>12, <3>1
        <3> QED
            BY <3>2, <3>3 DEF File
    <2>2. d = [c EXCEPT !.status = p]
        BY <1>4 DEF WithStatus
    <2> QED
        BY <1>5, <1>8, <1>11, <2>1, <2>2 DEF File
<1>14. Ones(d.status) \ {BREAK} = Ones(r.status) \ {BREAK}
    BY <1>9, <1>11, <1>13
<1>15. Machine!Becomes(r, boundary.ram, {BREAK})
    BY <1>7, <1>13, <1>14, Reached
<1>16. Machine!Waive("ReturnB", {Machine!BREAK}) = {BREAK}
    BY AllWaived, MachineFlags DEF Machine!Waive, Finishes
<1>17. /\ w = Machine!Join(Machine!Pulled(3), Machine!Pulled(2))
       /\ b = Machine!ByteOf((Machine!Ones(Machine!Pulled(1)) \ {Machine!BREAK})
                               \cup (Machine!Ones(boundary.regs.status) \cap {Machine!BREAK}))
    BY <1>1, <1>3, <1>9, <1>10, MachineStack, MachineBytes, MachineFlags
<1>18. Machine!JumpInstruction
    BY <1>1, <1>12, <1>15, <1>16, <1>17 DEF Machine!JumpInstruction
<1> QED
    BY <1>1, <1>18 DEF Machine!Instruction

-----------------------------------------------------------------------------------
(* A store leaves the SRAM well-typed.                                                 *)
LEMMA AfterWriteType ==
    ASSUME NEW f, IsMemory(f, SRAMAddresses), NEW a \in Word, NEW v \in Byte
    PROVE  IsMemory(AfterWrite(f, a, v), SRAMAddresses)
<1>1. CASE SRAMSelected(a)
    <2>1. a \in SRAMAddresses
        BY <1>1, MemoriesDecodeTheirRange
    <2> QED
        BY <1>1, <2>1, WrittenType DEF AfterWrite
<1>2. CASE ~SRAMSelected(a)
    BY <1>2 DEF AfterWrite
<1> QED
    BY <1>1, <1>2

(* A return address, and a byte on top of it, pushed by both.                            *)
LEMMA MachinePushes ==
    ASSUME NEW s, IsState(s), s.regs = boundary.regs, s.ram = boundary.ram, s.rom = rom,
           NEW w \in Word
    PROVE  LET pushed == Machine!Poke(Machine!Poke(boundary.ram, Machine!Slot(0), Machine!Hi(w)),
                                      Machine!Slot(1), Machine!Lo(w))
           IN  /\ pushed = Pushed2(s, w)
               /\ \A v : Machine!Poke(pushed, Machine!Slot(2), v) = Pushed3(s, w, v)
               /\ IsMemory(pushed, SRAMAddresses)
<1>1. PICK a, b, c : a = SlotAt(s, 0) /\ b = SlotAt(s, -1) /\ c = SlotAt(s, -2)
    OBVIOUS
<1>2. /\ a \in Word /\ b \in Word /\ c \in Word
      /\ Machine!Slot(0) = a /\ Machine!Slot(1) = b /\ Machine!Slot(2) = c
    BY <1>1, MachineStack
<1>3. PICK h, l : h = Hi(w) /\ l = Lo(w)
    OBVIOUS
<1>4. h \in Byte /\ l \in Byte /\ Machine!Hi(w) = h /\ Machine!Lo(w) = l
    BY <1>3, HalvesType, MachineBytes
<1>5. PICK f, g : f = AfterWrite(s.ram, a, h) /\ g = AfterWrite(f, b, l)
    OBVIOUS
<1>6. Pushed2(s, w) = g /\ \A v : Pushed3(s, w, v) = AfterWrite(g, c, v)
    BY <1>1, <1>3, <1>5 DEF Pushed1, Pushed2, Pushed3
<1>7. Machine!Poke(boundary.ram, a, h) = f /\ Machine!Poke(f, b, l) = g
    BY <1>2, <1>5, MachinePokes
<1>8. \A v : Machine!Poke(g, c, v) = AfterWrite(g, c, v)
    BY <1>2, MachinePokes
<1>9. IsMemory(g, SRAMAddresses)
    <2>1. IsMemory(s.ram, SRAMAddresses)
        BY DEF IsState
    <2>2. IsMemory(f, SRAMAddresses)
        BY <1>2, <1>4, <1>5, <2>1, AfterWriteType
    <2> QED
        BY <1>2, <1>4, <1>5, <2>2, AfterWriteType
<1> QED
    BY <1>2, <1>4, <1>6, <1>7, <1>8, <1>9

(* JSR. The high byte of its target is read after the return address is pushed.          *)
LEMMA CallFinishes ==
    ASSUME NEW s, NEW op, op = "JSR", NEW mode, NEW soft, NEW v, NEW k,
           Finishes(s, op, mode, soft, v, k), mode = "ABS"
    PROVE  Machine!Instruction
<1>1. /\ OneCourse(s, op, mode, soft, v, k)'
      /\ Starts(s, op, mode) /\ IsState(s) /\ boundary' = Snapshot'
      /\ s.regs = boundary.regs /\ s.ram = boundary.ram /\ s.rom = rom
      /\ k \in 2 .. 7 /\ Row([op |-> op, mode |-> mode, cycles |-> k])
      /\ Machine!Known /\ Machine!Op = op
    BY CourseAtEnd
<1>2. k > 5
    BY <1>1 DEF Row, MemoryOps, ReadOps, ModifyOps, StoreOps
<1>3. PICK last, f : last = PCAfter(s, 2) /\ f = Pushed2(s, last)
    OBVIOUS
<1>4. last \in Word
    BY <1>1, <1>3, BehindFields
<1>5. /\ f = Machine!Poke(Machine!Poke(boundary.ram, Machine!Slot(0), Machine!Hi(last)),
                          Machine!Slot(1), Machine!Lo(last))
      /\ IsMemory(f, SRAMAddresses)
    BY <1>1, <1>3, <1>4, MachinePushes
<1>6. PICK high, b1 : high = Peek([s EXCEPT !.ram = f], last) /\ b1 = CodeByte(s, 1)
    OBVIOUS
<1>7. high = Machine!PeekIn(f, last) /\ b1 = Machine!Byte1
    BY <1>1, <1>6, MachineReads, MachineDecodes
<1>8. high \in Byte /\ b1 \in Byte
    <2>1. /\ [s EXCEPT !.ram = f].ram = f /\ [s EXCEPT !.ram = f].rom = s.rom
          /\ IsMemory(s.rom, EEPROMAddresses)
        BY <1>1 DEF IsState
    <2>2. ByteAt(f, last) \in Byte /\ ByteAt(s.rom, last) \in Byte
        BY <1>5, <2>1, ByteAtType
    <2> QED
        BY <1>1, <1>6, <2>1, <2>2, CodeTypes DEF Peek
<1>9. PICK w, d : w = Join(high, b1) /\ d = WithPC(s, w, -2)
    OBVIOUS
<1>10. w \in Word /\ w = Machine!Join(Machine!PeekIn(f, last), Machine!Byte1)
    BY <1>7, <1>8, <1>9, JoinType, MachineBytes
<1>11. Holds(d, f)'
    <2>1. CallCourse(s, k)'
        BY <1>1 DEF OneCourse
    <2> QED
        BY <1>1, <1>2, <1>3, <1>6, <1>9, <2>1 DEF CallCourse
<1>12. d \in File /\ d = MovedTo(w, -2)
    BY <1>1, <1>9, <1>10, WithPCMoves
<1>13. Machine!Becomes(d, f, {})
    BY <1>1, <1>11, <1>12, Lands, Reached
<1>14. last = Machine!U16(boundary.regs.pc + 2)
    BY <1>1, <1>3, MachineBytes DEF PCAfter
<1>15. Machine!JumpInstruction
    BY <1>1, <1>5, <1>10, <1>12, <1>13, <1>14 DEF Machine!JumpInstruction, MovedTo
<1> QED
    BY <1>1, <1>15 DEF Machine!Instruction

-----------------------------------------------------------------------------------
(* BRK and the interrupts at the end of their course: a frame has been pushed and the     *)
(* handler is entered, but for the flags that are left open.                             *)
LEMMA EntryEnds ==
    ASSUME NEW s, IsState(s), s.regs = boundary.regs, s.ram = boundary.ram, s.rom = rom,
           NEW soft \in BOOLEAN, NEW v \in {NMI_VECTOR, IRQ_BRK_VECTOR}, NEW k \in 2 .. 7, k > 6,
           EntryCourse(s, soft, v, k)', boundary' = Snapshot',
           NEW w \in Word, w = ReturnAddress(s, soft, v),
           NEW marked \in BOOLEAN, NEW openPushed \in {{}, {BREAK}}, NEW openLive,
           (soft /\ marked) \/ openPushed = {BREAK},
           v = IRQ_BRK_VECTOR \/ openLive = {INTERRUPT}
    PROVE  Machine!Enter(v, w, marked, openPushed, openLive)
<1>1. PICK st : st = boundary.regs.status
    OBVIOUS
<1>2. st \in Byte /\ BREAK \in Masks /\ INTERRUPT \in Masks
    BY <1>1 DEF IsState, File, BREAK, INTERRUPT, Masks
<1>3. PICK p : p = PushedBy(s, soft)
    OBVIOUS
<1>4. p \in Byte /\ Ones(p) = IF soft THEN Ones(st) \cup {BREAK} ELSE Ones(st)
    <2>1. CASE soft
        <3>1. p = Put(st, BREAK, TRUE)
            BY <1>1, <1>3, <2>1 DEF PushedBy
        <3>2. Ones(Put(st, BREAK, TRUE)) = (Ones(st) \ {BREAK}) \cup {BREAK}
            BY <1>2, OnesPut
        <3> QED
            BY <1>2, <2>1, <3>1, <3>2, PutType
    <2>2. CASE ~soft
        BY <1>1, <1>2, <1>3, <2>2 DEF PushedBy
    <2> QED
        BY <2>1, <2>2
<1>5. PICK S, q : /\ S = (Ones(st) \ {BREAK}) \cup (IF marked THEN {BREAK} ELSE {})
                  /\ q = ByteOf(S)
    OBVIOUS
<1>6. Ones(q) = S
    <2>1. S \in SUBSET Masks
        BY <1>2, <1>5 DEF Ones
    <2> QED
        BY <1>5, <2>1, OnesByteOf
<1>7. PICK open : open = Ones(p) \cap openPushed
    OBVIOUS
<1>8. open \in SUBSET openPushed /\ ByteOf((Ones(q) \ openPushed) \cup open) = p
    <2>1. (Ones(q) \ openPushed) \cup open = Ones(p)
        BY <1>4, <1>5, <1>6, <1>7
    <2> QED
        BY <1>4, <1>7, <2>1, ByteOfOnes
<1>9. q = Machine!ByteOf((Machine!Ones(boundary.regs.status) \ {Machine!BREAK})
                            \cup Machine!If(Machine!BREAK, marked))
    BY <1>1, <1>5, MachineBytes, MachineFlags DEF Machine!If
<1>10. p = Machine!ByteOf((Machine!Ones(q) \ openPushed) \cup open)
    BY <1>8, MachineBytes
<1>11. PICK f : f = Pushed3(s, w, p)
    OBVIOUS
<1>12. f = Machine!Poke(Machine!Poke(Machine!Poke(boundary.ram, Machine!Slot(0), Machine!Hi(w)),
                                     Machine!Slot(1), Machine!Lo(w)),
                        Machine!Slot(2), p)
    BY <1>11, MachinePushes
<1>13. PICK u : u = Join(Peek(s, v + 1), Peek(s, v))
    OBVIOUS
<1>14. u \in Word /\ u = Machine!Join(Machine!Peek(v + 1), Machine!Peek(v))
    BY <1>13, CellType, JoinType, MachineReads, MachineBytes
<1>15. PICK c, b, d : c = WithPC(s, u, -3) /\ b = StatusAfter(s, v) /\ d = WithStatus(c, b)
    OBVIOUS
<1>16. Ends(d, f)
    <2>1. Holds(d, f)'
        BY <1>3, <1>11, <1>13, <1>15 DEF EntryCourse
    <2> QED
        BY <2>1, Lands
<1>17. c \in File /\ c = MovedTo(u, -3)
    BY <1>14, <1>15, WithPCMoves
<1>18. b \in Byte /\ Ones(b) \ openLive = (Ones(st) \cup {INTERRUPT}) \ openLive
    <2>1. PICK on : on = (v = IRQ_BRK_VECTOR \/ Has(st, INTERRUPT))
        OBVIOUS
    <2>2. b = Put(st, INTERRUPT, on)
        BY <1>1, <1>15, <2>1 DEF StatusAfter
    <2>3. Ones(b) = (Ones(st) \ {INTERRUPT}) \cup (IF on THEN {INTERRUPT} ELSE {})
        BY <1>2, <2>2, OnesPut
    <2>4. b \in Byte
        BY <2>2, PutType
    <2>5. CASE v = IRQ_BRK_VECTOR
        <3>1. on
            BY <2>1, <2>5
        <3> QED
            BY <2>3, <2>4, <3>1
    <2>6. CASE openLive = {INTERRUPT}
        BY <2>3, <2>4, <2>6
    <2> QED
        BY <2>5, <2>6
<1>19. PICK t : t = Machine!Status({}, {Machine!INTERRUPT})
    OBVIOUS
<1>20. t \in Byte /\ Ones(t) = Ones(st) \cup {INTERRUPT}
    <2>1. {Machine!INTERRUPT} \in SUBSET Masks
        BY <1>2, MachineFlags
    <2> QED
        BY <1>1, <1>19, <2>1, MachineStatus, MachineFlags
<1>21. PICK r : r = [boundary.regs EXCEPT !.pc = u, !.sp = Machine!Sp(-3), !.status = t]
    OBVIOUS
<1>22. /\ r \in File /\ d \in File /\ d.a = r.a /\ d.x = r.x /\ d.y = r.y /\ d.sp = r.sp
       /\ d.pc = r.pc /\ d.status = b /\ r.status = t
    <2>1. PICK g, z : g = boundary.regs /\ z = Machine!Sp(-3)
        OBVIOUS
    <2>2. g \in File /\ c = [g EXCEPT !.pc = u, !.sp = z]
        BY <1>17, <2>1 DEF IsState, MovedTo
    <2>3. r = [g EXCEPT !.pc = u, !.sp = z, !.status = t]
        BY <1>21, <2>1
    <2>4. r = [c EXCEPT !.status = t]
        BY <2>2, <2>3 DEF File
    <2>5. d = [c EXCEPT !.status = b]
        BY <1>15 DEF WithStatus
    <2> QED
        BY <1>17, <1>18, <1>20, <2>4, <2>5 DEF File
<1>23. Ones(d.status) \ openLive = Ones(r.status) \ openLive
    BY <1>18, <1>20, <1>22
<1>24. Machine!Becomes(r, f, openLive)
    BY <1>16, <1>22, <1>23, Reached
<1> QED
    BY <1>8, <1>9, <1>10, <1>12, <1>14, <1>19, <1>21, <1>24 DEF Machine!Enter

(* The address a frame returns to.                                                     *)
LEMMA ReturnAddresses ==
    ASSUME NEW s, IsState(s), s.regs = boundary.regs, NEW soft \in BOOLEAN,
           NEW v \in {NMI_VECTOR, IRQ_BRK_VECTOR}
    PROVE  /\ ReturnAddress(s, soft, v) \in Word
           /\ ReturnAddress(s, soft, v) = IF soft /\ v = IRQ_BRK_VECTOR
                                          THEN Machine!U16(boundary.regs.pc + 1)
                                          ELSE boundary.regs.pc
<1>1. boundary.regs.pc \in Word /\ boundary.regs.pc \in Int
    BY WordMember DEF IsState, File
<1>2. PICK pc : pc = boundary.regs.pc
    OBVIOUS
<1>3. U16(pc + 0) = pc /\ U16(pc + 1) \in Word /\ Machine!U16(pc + 1) = U16(pc + 1)
    <2>1. U16(pc + 0) = pc
        BY <1>1, <1>2, WordMember DEF U16
    <2>2. U16(pc + 1) \in Word
        BY <1>1, <1>2, WordMember DEF U16
    <2> QED
        BY <2>1, <2>2, MachineBytes
<1>4. PCAfter(s, 0) = U16(pc + 0) /\ PCAfter(s, 1) = U16(pc + 1)
    BY <1>2 DEF PCAfter
<1> QED
    BY <1>1, <1>2, <1>3, <1>4 DEF ReturnAddress

(* BRK.                                                                                *)
LEMMA BreakFinishes ==
    ASSUME NEW s, NEW op, op = "BRK", NEW mode, NEW soft, NEW v, NEW k,
           Finishes(s, op, mode, soft, v, k), mode = "IMP", soft, v = IRQ_BRK_VECTOR
    PROVE  Machine!Instruction
<1>1. /\ OneCourse(s, op, mode, soft, v, k)'
      /\ Starts(s, op, mode) /\ IsState(s) /\ boundary' = Snapshot'
      /\ s.regs = boundary.regs /\ s.ram = boundary.ram /\ s.rom = rom
      /\ k \in 2 .. 7 /\ Row([op |-> op, mode |-> mode, cycles |-> k])
      /\ Machine!Known /\ Machine!Op = op
    BY CourseAtEnd
<1>2. k > 6
    BY <1>1, StackRows DEF StackOps
<1>3. EntryCourse(s, TRUE, v, k)'
    BY <1>1 DEF OneCourse
<1>4. PICK w : w = ReturnAddress(s, TRUE, v)
    OBVIOUS
<1>5. w \in Word /\ w = Machine!U16(boundary.regs.pc + 1)
    BY <1>1, <1>4, ReturnAddresses
<1>6. Machine!Enter(v, w, TRUE, {}, {})
    BY <1>1, <1>2, <1>3, <1>4, <1>5, EntryEnds
<1>7. Machine!Break
    <2>1. v = Machine!IRQVector
        BY DEF IRQ_BRK_VECTOR, Machine!IRQVector
    <2>2. Machine!Enter(Machine!IRQVector, Machine!U16(boundary.regs.pc + 1), TRUE, {}, {})
        BY <1>5, <1>6, <2>1
    <2> QED
        BY <1>1, <2>2 DEF Machine!Break
<1> QED
    BY <1>1, <1>7 DEF Machine!Instruction
-----------------------------------------------------------------------------------
(* Every instruction of the opcode table ends as the instruction set says.               *)
LEMMA InstructionFinishes ==
    ASSUME NEW s, NEW op, NEW mode, NEW soft, NEW v, NEW k,
           Finishes(s, op, mode, soft, v, k), soft, v = IRQ_BRK_VECTOR
    PROVE  Machine!Instruction
<1>1. Row([op |-> op, mode |-> mode, cycles |-> k])
    BY DEF Finishes
<1>2. CASE mode = "ACC"
    BY <1>2, AccumulatorFinishes
<1>3. CASE op \in MemoryOps /\ mode # "ACC"
    BY <1>3, MemoryEnds
<1>4. CASE mode = "IMP" /\ op \in RegisterOps \cup {"NOP"}
    BY <1>4, RegisterFinishes
<1>5. CASE mode = "IMP" /\ op \in {"PHA", "PHP"}
    BY <1>5, PushFinishes
<1>6. CASE mode = "IMP" /\ op \in {"PLA", "PLP"}
    BY <1>6, PullFinishes
<1>7. CASE mode = "IMP" /\ op = "RTS"
    BY <1>7, ReturnFinishes
<1>8. CASE mode = "IMP" /\ op = "RTI"
    BY <1>8, InterruptReturnFinishes
<1>9. CASE mode = "IMP" /\ op = "BRK"
    BY <1>9, BreakFinishes
<1>10. CASE mode = "ABS" /\ op = "JMP"
    BY <1>10, JumpFinishes
<1>11. CASE mode = "ABS" /\ op = "JSR"
    BY <1>11, CallFinishes
<1>12. CASE mode = "IND"
    BY <1>12, IndirectFinishes
<1>13. CASE mode = "REL"
    BY <1>13, RelativeFinishes
<1>14. \/ mode = "ACC" \/ mode = "IND" \/ mode = "REL"
       \/ op \in MemoryOps /\ mode # "ACC"
       \/ mode = "IMP" /\ op \in RegisterOps \cup StackOps \cup {"NOP"}
       \/ mode = "ABS" /\ op \in {"JMP", "JSR"}
    BY <1>1 DEF Row, MemoryOps, ReadOps, PointerOps, StoreOps
<1> QED
    BY <1>2, <1>3, <1>4, <1>5, <1>6, <1>7, <1>8, <1>9, <1>10, <1>11, <1>12, <1>13, <1>14
    DEF StackOps

(* The entry of an interrupt that was taken at the boundary.                             *)
LEMMA InterruptFinishes ==
    ASSUME NEW s, IsState(s), s.regs = boundary.regs, s.ram = boundary.ram, s.rom = rom,
           Machine!Differences \subseteq Waived, boundary' = Snapshot',
           NEW soft \in BOOLEAN, NEW v \in {NMI_VECTOR, IRQ_BRK_VECTOR}, NEW k \in 2 .. 7, k > 6,
           EntryCourse(s, soft, v, k)', ~(soft /\ v = IRQ_BRK_VECTOR),
           v = IRQ_BRK_VECTOR => ~Has(s.regs.status, INTERRUPT)
    PROVE  Machine!IRQ \/ Machine!NMI
<1>1. PICK w : w = boundary.regs.pc
    OBVIOUS
<1>2. w \in Word /\ w = ReturnAddress(s, soft, v)
    BY <1>1, ReturnAddresses
<1>3. /\ Machine!Waive("InterruptB", {Machine!BREAK}) = {BREAK}
      /\ Machine!Waive("NMIMask", {Machine!INTERRUPT}) = {INTERRUPT}
    BY AllWaived, MachineFlags DEF Machine!Waive
<1>4. CASE v = NMI_VECTOR
    <2>1. Machine!Enter(v, w, FALSE, {BREAK}, {INTERRUPT})
        BY <1>2, EntryEnds
    <2>2. v = Machine!NMIVector
        BY <1>4 DEF NMI_VECTOR, Machine!NMIVector
    <2>3. Machine!NMI
        BY <1>1, <1>3, <2>1, <2>2 DEF Machine!NMI
    <2> QED
        BY <2>3
<1>5. CASE v = IRQ_BRK_VECTOR
    <2>1. Machine!Enter(v, w, FALSE, {BREAK}, {})
        BY <1>2, <1>5, EntryEnds
    <2>2. v = Machine!IRQVector
        BY <1>5 DEF IRQ_BRK_VECTOR, Machine!IRQVector
    <2>3. ~Machine!Has(boundary.regs.status, Machine!INTERRUPT)
        BY <1>5, MachineBytes, MachineFlags
    <2>4. Machine!IRQ
        BY <1>1, <1>3, <2>1, <2>2, <2>3 DEF Machine!IRQ
    <2> QED
        BY <2>4
<1> QED
    BY <1>4, <1>5

(* The last cycle of an instruction or an interrupt entry is one step of the            *)
(* instruction set.                                                                     *)
LEMMA EndFollowsISA ==
    ASSUME Machine!Differences \subseteq Waived, TraceInv, CodeInMemory, Phi2High, Cycle # 0,
           Known, InstructionHigh, boundary' = Snapshot', Cycle + 1 = OpcodeMap[cpu.ir].cycles
    PROVE  Machine!Next
<1>1. PICK s, op, mode, soft, v, n :
          /\ s = Origin /\ op = Op /\ mode = Mode /\ soft = cpu.fromSW /\ v = cpu.vector
          /\ n = Cycle
    OBVIOUS
<1>2. InCycle(s, op, mode, soft, v, n) /\ Underway(s) /\ Course(s, op, mode, soft, v, n + 1)'
    BY <1>1, InstructionRuns
<1>3. /\ IsState(s) /\ s.rom = rom /\ s.regs = boundary.regs /\ s.ram = boundary.ram
    BY <1>1, OriginIsState
<1>4. PICK k : k = n + 1
    OBVIOUS
<1>5. k \in 2 .. 7 /\ Row([op |-> op, mode |-> mode, cycles |-> k])
    <2>1. k = OpcodeMap[cpu.ir].cycles
        BY <1>1, <1>4
    <2>2. Row(OpcodeMap[cpu.ir])
        BY RowsAssumption DEF Known
    <2> QED
        BY <1>1, <2>1, <2>2, CyclesOf DEF Row, Op, Mode
<1>6. soft \in BOOLEAN /\ v \in {NMI_VECTOR, IRQ_BRK_VECTOR}
    <2>1. cpu \in Registers
        BY DEF TraceInv, Inv, TypeOK
    <2> QED
        BY <1>1, <1>2, <2>1 DEF Registers, InCycle
<1>7. CASE Software
    <2>1. soft /\ v = IRQ_BRK_VECTOR /\ cpu.ir = CodeByte(s, 0)
        BY <1>1, <1>2, <1>7 DEF Software, Underway
    <2>2. Starts(s, op, mode)
        BY <1>1, <1>3, <2>1 DEF Starts, Known, Op, Mode
    <2>3. Finishes(s, op, mode, soft, v, k)
        BY <1>2, <1>4, <1>5, <2>2 DEF Finishes
    <2>4. Machine!Instruction
        BY <2>1, <2>3, InstructionFinishes
    <2> QED
        BY <2>4 DEF Machine!Next, Phi2High
<1>8. CASE ~Software
    <2>1. /\ cpu.ir = BRK /\ ~(soft /\ v = IRQ_BRK_VECTOR)
          /\ v = IRQ_BRK_VECTOR => ~Has(s.regs.status, INTERRUPT)
        BY <1>1, <1>2, <1>8 DEF Software, Underway, NMI_VECTOR, IRQ_BRK_VECTOR
    <2>2. op = "BRK" /\ mode = "IMP" /\ k = 7
        BY <1>1, <1>4, <2>1, OpcodeMapAssumption DEF Op, Mode, BRK
    <2>3. EntryCourse(s, soft, v, k)'
        <3>1. Course(s, op, mode, soft, v, k)'
            BY <1>2, <1>4
        <3>2. OneCourse(s, op, mode, soft, v, k)'
            BY <3>1 DEF Course, OneCourse, MemoryOps, ReadOps, ModifyOps, StoreOps, RegisterOps
        <3> QED
            BY <2>2, <3>2 DEF OneCourse
    <2>4. k > 6
        BY <2>2
    <2>5. Machine!IRQ \/ Machine!NMI
        BY <1>3, <1>5, <1>6, <2>1, <2>3, <2>4, InterruptFinishes
    <2> QED
        BY <2>5 DEF Machine!Next, Phi2High
<1> QED
    BY <1>7, <1>8

(* Between two ends nothing shows.                                                     *)
StaysAtBoundary == boundary' = boundary /\ rom' = rom

(* The HIGH phase either ends nothing, or an instruction, an interrupt entry or a reset. *)
LEMMA HighFollowsISA ==
    ASSUME Machine!Differences \subseteq Waived, TraceInv, CodeInMemory, Record, Phi2High
    PROVE  StaysAtBoundary \/ Machine!Next
<1>1. Inv' /\ Inv
    BY InvNext DEF TraceInv, Next
<1>2. HandlePhi2High /\ rom' = rom
    BY DEF Phi2High
<1>3. CASE NoTransfer /\ UNCHANGED cpu /\ (~cpu.started \/ ~Known)
    <2>1. cpu.cycle = 0 \/ ~Known
        BY <1>1, <1>3 DEF Inv, TypeOK, Registers, Sequencing
    <2> QED
        BY <1>1, <1>2, <1>3, <2>1, TraceInvQuiet DEF NoTransfer, Unseen, StaysAtBoundary
<1>4. CASE cpu.started /\ cpu.resetStage < 2 /\ HandleReset
    <2>1. CASE boundary' = boundary
        BY <1>2, <2>1 DEF StaysAtBoundary
    <2>2. CASE boundary' = [regs |-> AfterReset.regs, ram |-> boundary.ram]
        <3>1. AfterReset.regs = Machine!Cleared
            BY MachineBytes DEF AfterReset, Machine!Cleared, ByteAt, Machine!At, RESET_VECTOR
        <3>2. boundary'.regs = Machine!Cleared /\ boundary'.ram = boundary.ram
            BY <2>2, <3>1
        <3>3. Machine!RES
            BY <3>2 DEF Machine!RES, Machine!SameMemory
        <3> QED
            BY <1>2, <3>3 DEF Machine!Next
    <2> QED
        BY <1>4, <2>1, <2>2, TraceInvReset
<1>5. CASE /\ cpu.started /\ cpu.resetStage = 2 /\ Cycle = 0
           /\ TakeNMI \/ TakeIRQ \/ FetchOpcode
    BY <1>2, <1>5, TraceInvBegin DEF StaysAtBoundary
<1>6. CASE Cycle # 0 /\ Known /\ InstructionHigh
    BY <1>2, <1>6, TraceInvInstruction, EndFollowsISA DEF StaysAtBoundary
<1> QED
    BY <1>2, <1>3, <1>4, <1>5, <1>6 DEF HandlePhi2High, UnlistedHigh, InstructionHigh

(* Every step of the machine is a step of the instruction set or none.                   *)
LEMMA StepFollowsISA ==
    ASSUME Machine!Differences \subseteq Waived
    PROVE  TraceInv /\ CodeInMemory /\ [TraceNext]_traceVars
               => [Machine!Next]_(Machine!isaVars)
<1> SUFFICES ASSUME TraceInv, CodeInMemory, [TraceNext]_traceVars
             PROVE  StaysAtBoundary \/ Machine!Next
    BY DEF StaysAtBoundary, Machine!isaVars
<1>1. CASE UNCHANGED traceVars
    BY <1>1 DEF traceVars, vars, busVars, StaysAtBoundary
<1>2. CASE TraceNext
    <2>1. Record /\ Inv'
        BY <1>2, InvNext DEF TraceNext, TraceInv
    <2>2. CASE Phi2Low
        BY <2>1, <2>2, TraceInvLow DEF Phi2Low, StaysAtBoundary
    <2>3. CASE Phi2High
        BY <2>1, <2>3, HighFollowsISA
    <2>4. CASE SetIRQ \/ SetNMI
        BY <2>1, <2>4, TraceInvPins DEF SetIRQ, SetNMI, busVars, StaysAtBoundary
    <2>5. CASE ResetBetweenInstructions
        BY <2>1, <2>5, TraceInvResetCall DEF ResetBetweenInstructions, busVars, StaysAtBoundary
    <2> QED
        BY <1>2, <2>2, <2>3, <2>4, <2>5 DEF TraceNext, Next
<1> QED
    BY <1>1, <1>2

(* The state after power-up and reset is the instruction set's initial state.            *)
LEMMA PowerUpFollowsISA == TraceInit => Machine!Init
<1> SUFFICES ASSUME TraceInit PROVE Machine!Init
    OBVIOUS
<1>1. boundary.regs = AfterReset.regs /\ boundary.ram = Blank
    BY DEF TraceInit, AfterReset
<1>2. AfterReset.regs = Machine!Cleared
    BY MachineBytes DEF AfterReset, Machine!Cleared, ByteAt, Machine!At, RESET_VECTOR
<1> QED
    BY <1>1, <1>2 DEF Machine!Init, Blank

(* The clocked CPU implements the instruction set with the differences it is known to    *)
(* have, whatever the program, the opcode table and the moments at which the pins         *)
(* change, as long as its code and pointers lie in SRAM and EEPROM: what the opcode       *)
(* handlers of W65C02S.cpp do over two to seven cycles adds up to the one instruction.    *)
THEOREM ClockedImplementsISA ==
    ASSUME Machine!Differences \subseteq Waived
    PROVE  TraceSpec /\ []CodeInMemory => ImplementsISA
<1>1. TraceInit => TraceInv /\ Machine!Init
    BY TraceInvInit, PowerUpFollowsISA
<1>2. TraceInv /\ CodeInMemory /\ [TraceNext]_traceVars => TraceInv'
    BY TraceInvNext
<1>3. TraceInv /\ CodeInMemory /\ [TraceNext]_traceVars => [Machine!Next]_(Machine!isaVars)
    BY StepFollowsISA
<1> QED
    BY <1>1, <1>2, <1>3, PTL DEF TraceSpec, ImplementsISA, Machine!Spec

-----------------------------------------------------------------------------------
(* A start like the one after power-up, anywhere in a program: a running CPU between two *)
(* instructions, with any bytes in its registers and its memories.                       *)
Anywhere == Inv /\ AtBoundary /\ boundary = Snapshot

(* From any state between two instructions on, whatever the registers and the memories   *)
(* hold, each instruction, interrupt entry and reset that the clocked CPU completes is   *)
(* one step of the instruction set.                                                     *)
THEOREM AnyBoundaryFollowsISA ==
    ASSUME Machine!Differences \subseteq Waived
    PROVE  Anywhere /\ [][TraceNext]_traceVars /\ []CodeInMemory => FollowsISA
<1>1. Anywhere => TraceInv
    <2> SUFFICES ASSUME Anywhere PROVE TraceInv
        OBVIOUS
    <2>1. TraceTypeOK
        BY SnapshotType DEF Anywhere, Inv
    <2> QED
        BY <2>1 DEF Anywhere, AtBoundary, TraceInv, OnCourse
<1>2. TraceInv /\ CodeInMemory /\ [TraceNext]_traceVars => TraceInv'
    BY TraceInvNext
<1>3. TraceInv /\ CodeInMemory /\ [TraceNext]_traceVars => [Machine!Next]_(Machine!isaVars)
    BY StepFollowsISA
<1> QED
    BY <1>1, <1>2, <1>3, PTL DEF FollowsISA, Machine!Steps

-----------------------------------------------------------------------------------
(* What a program finds in its registers and on its stack.                             *)
Contexts == [regs : File, stack : UNION {[p + 1 .. 255 -> Byte] : p \in Byte}]

(* The handler was handed the registers it interrupted, on a stack that holds a frame    *)
(* on top of what was there.                                                            *)
HandedOver(f) ==
    LET r == f.before.regs
        p == r.sp
        found == f.found.regs
        stack == f.found.stack
    IN  /\ p >= 3
        /\ found.a = r.a /\ found.x = r.x /\ found.y = r.y /\ found.sp = p - 3
        /\ DOMAIN stack = p - 2 .. 255
        /\ Ones(stack[p - 2]) \ {BREAK} = Ones(r.status) \ {BREAK}
        /\ stack[p - 1] = Lo(r.pc) /\ stack[p] = Hi(r.pc)
        /\ DOMAIN f.before.stack = p + 1 .. 255
        /\ \A n \in p + 1 .. 255 : stack[n] = f.before.stack[n]

Frames == {f \in [before : Contexts, found : Contexts] : HandedOver(f)}

(* What a program finds in its registers and on its stack, slot by slot.              *)
LEMMA ContextType ==
    ASSUME NEW r \in File, NEW ram, IsMemory(ram, SRAMAddresses)
    PROVE  /\ Context(r, ram) \in Contexts
           /\ Context(r, ram).regs = r
           /\ DOMAIN Context(r, ram).stack = r.sp + 1 .. 255
           /\ \A n \in r.sp + 1 .. 255 : Context(r, ram).stack[n] = ByteAt(ram, 256 + n)
<1>1. PICK p : p = r.sp
    OBVIOUS
<1>2. PICK t : t = [n \in p + 1 .. 255 |-> ByteAt(ram, 256 + n)]
    OBVIOUS
<1>3. t \in [p + 1 .. 255 -> Byte]
    BY <1>2, ByteAtType
<1>4. p \in Byte
    BY <1>1 DEF File
<1>5. Context(r, ram) = [regs |-> r, stack |-> t]
    BY <1>1, <1>2 DEF Context
<1>6. [regs |-> r, stack |-> t] \in Contexts
    BY <1>3, <1>4 DEF Contexts
<1> QED
    BY <1>1, <1>2, <1>5, <1>6

(* A byte stored in the SRAM is found there, and every other byte as it was.            *)
LEMMA WriteReads ==
    ASSUME NEW f, NEW v, NEW a \in Word, a < 16384, NEW b
    PROVE  ByteAt(AfterWrite(f, a, v), b) = IF b = a THEN v ELSE ByteAt(f, b)
<1>1. SRAMSelected(a)
    <2>1. a \in SRAMAddresses
        BY WordMember, SRAMMember
    <2> QED
        BY <2>1, MemoriesDecodeTheirRange
<1> QED
    BY <1>1 DEF AfterWrite, Written, ByteAt

(* With room for three bytes the slots do not wrap.                                     *)
LEMMA SlotsBelow ==
    ASSUME NEW s, IsState(s), NEW p \in Byte, p = s.regs.sp, p >= 3
    PROVE  /\ SlotAt(s, 0) = 256 + p /\ SlotAt(s, -1) = 255 + p /\ SlotAt(s, -2) = 254 + p
           /\ Moved(s, -3) = p - 3
BY ByteMember DEF SlotAt, Moved, U8

(* Three bytes up again, where there was room for them, they do not wrap either.      *)
LEMMA SlotsAbove ==
    ASSUME NEW s, IsState(s), NEW p \in Byte, s.regs.sp = p - 3, p >= 3
    PROVE  /\ SlotAt(s, 1) = 254 + p /\ SlotAt(s, 2) = 255 + p /\ SlotAt(s, 3) = 256 + p
           /\ Moved(s, 3) = p
BY ByteMember DEF SlotAt, Moved, U8

(* A frame on the stack, byte by byte.                                                  *)
LEMMA FrameReads ==
    ASSUME NEW s, IsState(s), NEW p \in Byte, p = s.regs.sp, p >= 3, NEW w, NEW m, NEW f,
           f = Pushed3(s, w, m)
    PROVE  /\ ByteAt(f, 254 + p) = m /\ ByteAt(f, 255 + p) = Lo(w) /\ ByteAt(f, 256 + p) = Hi(w)
           /\ \A n \in p + 1 .. 255 : ByteAt(f, 256 + n) = ByteAt(s.ram, 256 + n)
<1>1. p \in Int /\ 3 <= p /\ p <= 255
    BY ByteMember
<1>2. PICK h, l : h = Hi(w) /\ l = Lo(w)
    OBVIOUS
<1>3. PICK e, g : e = AfterWrite(s.ram, 256 + p, h) /\ g = AfterWrite(e, 255 + p, l)
    OBVIOUS
<1>4. f = AfterWrite(g, 254 + p, m)
    BY <1>2, <1>3, SlotsBelow DEF Pushed1, Pushed2, Pushed3
<1>5. 256 + p \in Word /\ 255 + p \in Word /\ 254 + p \in Word
    BY <1>1, WordMember
<1>6. \A b : ByteAt(e, b) = IF b = 256 + p THEN h ELSE ByteAt(s.ram, b)
    BY <1>1, <1>3, <1>5, WriteReads
<1>7. \A b : ByteAt(g, b) = IF b = 255 + p THEN l ELSE ByteAt(e, b)
    BY <1>1, <1>3, <1>5, WriteReads
<1>8. \A b : ByteAt(f, b) = IF b = 254 + p THEN m ELSE ByteAt(g, b)
    BY <1>1, <1>4, <1>5, WriteReads
<1> QED
    BY <1>1, <1>2, <1>6, <1>7, <1>8

(* The status byte a frame holds is the interrupted program's but for B.                *)
LEMMA PushedFlags ==
    ASSUME NEW s, IsState(s), NEW soft \in BOOLEAN
    PROVE  /\ PushedBy(s, soft) \in Byte
           /\ Ones(PushedBy(s, soft)) \ {BREAK} = Ones(s.regs.status) \ {BREAK}
<1>1. PICK st : st = s.regs.status
    OBVIOUS
<1>2. st \in Byte /\ BREAK \in Masks
    BY <1>1 DEF IsState, File, BREAK, Masks
<1>3. Put(st, BREAK, TRUE) \in Byte /\ Ones(Put(st, BREAK, TRUE)) \ {BREAK} = Ones(st) \ {BREAK}
    <2>1. PICK on : on = TRUE
        OBVIOUS
    <2>2. Ones(Put(st, BREAK, on)) = (Ones(st) \ {BREAK}) \cup (IF on THEN {BREAK} ELSE {})
        BY <1>2, <2>1, OnesPut
    <2> QED
        BY <2>1, <2>2, PutType
<1> QED
    BY <1>1, <1>2, <1>3 DEF PushedBy

(* The entry of a handler hands over.                                                   *)
LEMMA EntryHandsOver ==
    ASSUME NEW s, IsState(s), s.regs = boundary.regs,
           NEW soft \in BOOLEAN, NEW v \in {NMI_VECTOR, IRQ_BRK_VECTOR},
           NEW k \in 2 .. 7, k > 6, EntryCourse(s, soft, v, k)', s.regs.sp >= 3,
           IsMemory(sram', SRAMAddresses),
           NEW r, r = [s.regs EXCEPT !.pc = ReturnAddress(s, soft, v)]
    PROVE  [before |-> Context(r, s.ram), found |-> Context(Snapshot'.regs, sram')] \in Frames
<1>1. PICK w, m, u, b, d :
          /\ w = ReturnAddress(s, soft, v) /\ m = PushedBy(s, soft)
          /\ u = Join(Peek(s, v + 1), Peek(s, v)) /\ b = StatusAfter(s, v)
          /\ d = WithStatus(WithPC(s, u, -3), b)
    OBVIOUS
<1>2. PICK p : p = s.regs.sp
    OBVIOUS
<1>3. w \in Word /\ u \in Word /\ b \in Byte /\ p \in Byte /\ p \in Int /\ 3 <= p /\ p <= 255
    <2>1. w \in Word
        BY <1>1, ReturnAddresses
    <2>2. u \in Word
        BY <1>1, CellType, JoinType
    <2>3. b \in Byte
        BY <1>1, PutType DEF StatusAfter
    <2>4. p \in Byte
        BY <1>2 DEF IsState, File
    <2> QED
        BY <1>2, <2>1, <2>2, <2>3, <2>4, ByteMember
<1>4. Architectural(cpu)' = d /\ sram' = Pushed3(s, w, m)
    BY <1>1 DEF EntryCourse, Holds
<1>5. Snapshot'.regs = d
    BY <1>4 DEF Snapshot
<1>6. /\ d \in File /\ d.sp = p - 3
      /\ d.a = s.regs.a /\ d.x = s.regs.x /\ d.y = s.regs.y
    <2>1. PICK c : c = WithPC(s, u, -3)
        OBVIOUS
    <2>2. /\ c \in File /\ c.sp = Moved(s, -3) /\ c.a = s.regs.a /\ c.x = s.regs.x
          /\ c.y = s.regs.y
        BY <1>3, <2>1, WithPCFields
    <2>3. Moved(s, -3) = p - 3
        BY <1>2, <1>3, SlotsBelow
    <2> QED
        BY <1>1, <1>3, <2>1, <2>2, <2>3 DEF WithStatus, File
<1>7. /\ r \in File /\ r.sp = p /\ r.pc = w /\ r.status = s.regs.status
      /\ r.a = s.regs.a /\ r.x = s.regs.x /\ r.y = s.regs.y
    BY <1>1, <1>2, <1>3 DEF IsState, File
<1>8. PICK before, found, f : /\ before = Context(r, s.ram) /\ found = Context(d, sram')
                              /\ f = [before |-> before, found |-> found]
    OBVIOUS
<1>9. /\ before \in Contexts /\ before.regs = r /\ DOMAIN before.stack = p + 1 .. 255
      /\ \A n \in p + 1 .. 255 : before.stack[n] = ByteAt(s.ram, 256 + n)
    <2>1. PICK ram : ram = s.ram
        OBVIOUS
    <2>2. IsMemory(ram, SRAMAddresses)
        BY <2>1 DEF IsState
    <2>3. before = Context(r, ram)
        BY <1>8, <2>1
    <2>4. /\ Context(r, ram) \in Contexts /\ Context(r, ram).regs = r
          /\ DOMAIN Context(r, ram).stack = r.sp + 1 .. 255
          /\ \A n \in r.sp + 1 .. 255 : Context(r, ram).stack[n] = ByteAt(ram, 256 + n)
        <3>1. r \in File
            BY <1>7
        <3> QED
            BY ONLY <2>2, <3>1, ContextType
    <2>5. r.sp = p
        BY <1>7
    <2> QED
        BY <2>1, <2>3, <2>4, <2>5
<1>10. /\ found \in Contexts /\ found.regs = d /\ DOMAIN found.stack = p - 2 .. 255
       /\ \A n \in p - 2 .. 255 : found.stack[n] = ByteAt(sram', 256 + n)
    <2>1. p - 3 + 1 = p - 2
        BY <1>3
    <2> QED
        BY <1>6, <1>8, <2>1, ContextType
<1>11. /\ found.stack[p - 2] = m /\ found.stack[p - 1] = Lo(w) /\ found.stack[p] = Hi(w)
       /\ \A n \in p + 1 .. 255 : found.stack[n] = before.stack[n]
    <2>1. PICK g : g = sram'
        OBVIOUS
    <2>2. /\ ByteAt(g, 254 + p) = m /\ ByteAt(g, 255 + p) = Lo(w) /\ ByteAt(g, 256 + p) = Hi(w)
          /\ \A n \in p + 1 .. 255 : ByteAt(g, 256 + n) = ByteAt(s.ram, 256 + n)
        BY <1>2, <1>3, <1>4, <2>1, FrameReads
    <2>3. 256 + (p - 2) = 254 + p /\ 256 + (p - 1) = 255 + p
        BY <1>3
    <2>4. p - 2 \in p - 2 .. 255 /\ p - 1 \in p - 2 .. 255 /\ p \in p - 2 .. 255
        BY <1>3
    <2>5. \A n \in p + 1 .. 255 : n \in p - 2 .. 255
        BY <1>3
    <2>6. PICK new, old : new = found.stack /\ old = before.stack
        OBVIOUS
    <2>7. \A n \in p - 2 .. 255 : new[n] = ByteAt(g, 256 + n)
        BY <1>10, <2>1, <2>6
    <2>8. \A n \in p + 1 .. 255 : old[n] = ByteAt(s.ram, 256 + n)
        BY <1>9, <2>6
    <2>9. new[p - 2] = m /\ new[p - 1] = Lo(w) /\ new[p] = Hi(w)
        BY <2>2, <2>3, <2>4, <2>7
    <2>10. \A n \in p + 1 .. 255 : new[n] = old[n]
        BY <2>2, <2>5, <2>7, <2>8
    <2> QED
        BY <2>6, <2>9, <2>10
<1>12. Ones(m) \ {BREAK} = Ones(r.status) \ {BREAK}
    BY <1>1, <1>7, PushedFlags
<1>13. HandedOver(f)
    <2>1. f.before = before /\ f.found = found
        BY <1>8
    <2>2. f.before.regs = r /\ f.found.regs = d
        BY <1>9, <1>10, <2>1
    <2>3. PICK new, old : new = found.stack /\ old = before.stack
        OBVIOUS
    <2>4. f.before.stack = old /\ f.found.stack = new
        BY <2>1, <2>3
    <2>5. DOMAIN new = p - 2 .. 255 /\ DOMAIN old = p + 1 .. 255
        BY <1>9, <1>10, <2>3
    <2>6. /\ new[p - 2] = m /\ new[p - 1] = Lo(w) /\ new[p] = Hi(w)
          /\ \A n \in p + 1 .. 255 : new[n] = old[n]
        BY <1>11, <2>3
    <2>7. r.sp = p /\ r.pc = w /\ d.sp = p - 3 /\ d.a = r.a /\ d.x = r.x /\ d.y = r.y
        BY <1>6, <1>7
    <2> QED
        BY <1>3, <1>12, <2>2, <2>4, <2>5, <2>6, <2>7 DEF HandedOver
<1> QED
    BY <1>5, <1>8, <1>9, <1>10, <1>13 DEF Frames

(* What RTI pulls is what the entry pushed.                                             *)
LEMMA ReturnResumes ==
    ASSUME NEW s, IsState(s), s.regs = boundary.regs, s.ram = boundary.ram,
           boundary' = Snapshot', NEW k, k > 5, InterruptReturnCourse(s, k)',
           NEW f \in Frames, GivesBack(f.found)
    PROVE  Resumes(f.before)
<1>1. PICK r, p, m, stack : /\ r = f.before.regs /\ p = r.sp /\ m = f.found.stack[p - 2]
                            /\ stack = f.found.stack
    OBVIOUS
<1>2. /\ r \in File /\ p \in Byte /\ p >= 3 /\ p \in Int /\ p <= 255
      /\ f.found.regs.a = r.a /\ f.found.regs.x = r.x /\ f.found.regs.y = r.y
      /\ f.found.regs.sp = p - 3
      /\ DOMAIN stack = p - 2 .. 255
      /\ Ones(m) \ {BREAK} = Ones(r.status) \ {BREAK}
      /\ stack[p - 2] = m /\ stack[p - 1] = Lo(r.pc) /\ stack[p] = Hi(r.pc)
      /\ DOMAIN f.before.stack = p + 1 .. 255
      /\ \A n \in p + 1 .. 255 : stack[n] = f.before.stack[n]
    <2>1. r \in File
        BY <1>1 DEF Frames, Contexts
    <2>2. p \in Byte
        BY <1>1, <2>1 DEF File
    <2>3. HandedOver(f)
        BY DEF Frames
    <2> QED
        BY <1>1, <2>1, <2>2, <2>3, ByteMember DEF HandedOver
<1>3. f.found.regs \in File
    BY DEF Frames, Contexts
<1>4. /\ s.regs.a = r.a /\ s.regs.x = r.x /\ s.regs.y = r.y /\ s.regs.sp = p - 3
      /\ \A n \in p - 2 .. 255 : ByteAt(s.ram, 256 + n) = stack[n]
    <2>1. PICK g, h : g = s.regs /\ h = f.found.regs
        OBVIOUS
    <2>2. g = [h EXCEPT !.pc = g.pc, !.status = g.status]
        BY <2>1 DEF GivesBack
    <2>3. g.a = h.a /\ g.x = h.x /\ g.y = h.y /\ g.sp = h.sp
        BY <1>3, <2>1, <2>2 DEF File
    <2>4. \A n \in DOMAIN stack : ByteAt(s.ram, 256 + n) = stack[n]
        BY <1>1 DEF GivesBack
    <2> QED
        BY <1>2, <2>1, <2>3, <2>4
<1>5. /\ SlotAt(s, 1) = 254 + p /\ SlotAt(s, 2) = 255 + p /\ SlotAt(s, 3) = 256 + p
      /\ Moved(s, 3) = p
    BY <1>2, <1>4, SlotsAbove
<1>6. \A n \in p - 2 .. 255 : Peek(s, 256 + n) = stack[n]
    <2>1. \A n \in p - 2 .. 255 : 256 + n < EEPROM_FIRST
        BY <1>2 DEF EEPROM_FIRST
    <2> QED
        BY <1>4, <2>1 DEF Peek
<1>7. /\ Peek(s, SlotAt(s, 1)) = m /\ Peek(s, SlotAt(s, 2)) = Lo(r.pc)
      /\ Peek(s, SlotAt(s, 3)) = Hi(r.pc)
    <2>1. 256 + (p - 2) = 254 + p /\ 256 + (p - 1) = 255 + p
        BY <1>2
    <2>2. p - 2 \in p - 2 .. 255 /\ p - 1 \in p - 2 .. 255 /\ p \in p - 2 .. 255
        BY <1>2
    <2> QED
        BY <1>2, <1>5, <1>6, <2>1, <2>2
<1>8. PICK w : w = r.pc
    OBVIOUS
<1>9. w \in Word /\ Join(Hi(w), Lo(w)) = w
    BY <1>2, <1>8, HalvesType DEF File
<1>10. PICK d : d = WithStatus(WithPC(s, w, 3), m)
    OBVIOUS
<1>11. Architectural(cpu)' = d /\ sram' = s.ram
    <2>1. Join(Peek(s, SlotAt(s, 3)), Peek(s, SlotAt(s, 2))) = w
        BY <1>7, <1>8, <1>9
    <2>2. Holds(WithStatus(WithPC(s, Join(Peek(s, SlotAt(s, 3)), Peek(s, SlotAt(s, 2))), 3),
                           Peek(s, SlotAt(s, 1))), s.ram)'
        BY DEF InterruptReturnCourse
    <2> QED
        BY <1>7, <1>10, <2>1, <2>2 DEF Holds
<1>12. boundary'.regs = d
    BY <1>11 DEF Snapshot
<1>13. /\ d.a = r.a /\ d.x = r.x /\ d.y = r.y /\ d.sp = r.sp /\ d.pc = r.pc /\ d.status = m
       /\ d \in File
    <2>1. PICK c : c = WithPC(s, w, 3)
        OBVIOUS
    <2>2. /\ c \in File /\ c.pc = w /\ c.sp = p /\ c.a = s.regs.a /\ c.x = s.regs.x
          /\ c.y = s.regs.y
        BY <1>5, <1>9, <2>1, WithPCFields
    <2>3. m \in Byte
        BY <1>7, CellType
    <2> QED
        BY <1>1, <1>4, <1>8, <1>10, <2>1, <2>2, <2>3 DEF WithStatus, File
<1>14. d = [r EXCEPT !.status = d.status]
    BY <1>2, <1>13 DEF File
<1>15. \A n \in DOMAIN f.before.stack : ByteAt(sram', 256 + n) = f.before.stack[n]
    <2>1. \A n \in p + 1 .. 255 : n \in p - 2 .. 255
        BY <1>2
    <2> QED
        BY <1>2, <1>4, <1>11, <2>1
<1> QED
    BY <1>1, <1>2, <1>12, <1>13, <1>14, <1>15 DEF Resumes

-----------------------------------------------------------------------------------
(* An instruction or an entry is over in the HIGH phase of its last cycle only.         *)
LEMMA CompletionRuns ==
    ASSUME TraceInv, [TraceNext]_traceVars, cpu.cycle > 0, Known, AtBoundary',
           cpu'.resetStage # 0
    PROVE  /\ Phi2High /\ Cycle # 0 /\ InstructionHigh /\ boundary' = Snapshot'
           /\ Cycle + 1 = OpcodeMap[cpu.ir].cycles
<1>1. Inv /\ TypeOK /\ cpu \in Registers
    BY DEF TraceInv, Inv, TypeOK
<1>2. cpu.cycle # 0 /\ cpu.cycle \in Int
    BY <1>1 DEF Registers
<1>3. cpu'.cycle = 0
    BY DEF AtBoundary
<1>4. cpu.started /\ cpu.resetStage = 2
    BY <1>1, <1>2 DEF Inv, Sequencing
<1>5. ~UNCHANGED traceVars
    BY <1>2, <1>3 DEF traceVars, vars
<1>6. TraceNext
    BY <1>5
<1>7. ~Phi2Low
    <2> SUFFICES ASSUME Phi2Low PROVE FALSE
        OBVIOUS
    <2>1. DrivesOnly
        BY <1>1, <1>2, LowDrivesOnly DEF Phi2Low, Cycle
    <2>2. cpu'.cycle = cpu.cycle
        BY <1>1, <2>1 DEF DrivesOnly, AdvancePC, Registers
    <2> QED
        BY <1>2, <1>3, <2>2
<1>8. ~(SetIRQ \/ SetNMI)
    BY <1>2, <1>3 DEF SetIRQ, SetNMI
<1>9. ~ResetBetweenInstructions
    BY <1>2 DEF ResetBetweenInstructions
<1>10. Phi2High
    BY <1>6, <1>7, <1>8, <1>9 DEF TraceNext, Next
<1>11. boundary' = Snapshot'
    BY <1>6 DEF TraceNext, Record
<1>12. InstructionHigh
    BY <1>2, <1>4, <1>10 DEF Phi2High, HandlePhi2High, UnlistedHigh, InstructionHigh, Cycle
<1>13. PICK c : Leaves(c) /\ Step(c)
    BY <1>1, <1>12, HighAdvances DEF Advances
<1>14. Cycle + 1 = OpcodeMap[cpu.ir].cycles
    BY <1>2, <1>3, <1>13 DEF Leaves, Step, NextCycle, Registers, Cycle
<1> QED
    BY <1>2, <1>10, <1>11, <1>12, <1>14 DEF Cycle

(* The course of the instruction that is over has come to its end.                      *)
LEMMA StackCompletion ==
    ASSUME TraceInv, CodeInMemory, [TraceNext]_traceVars, NEW op \in {"BRK", "RTI"},
           Completes(op), cpu'.resetStage # 0, NEW s, s = Origin, NEW soft, soft = cpu.fromSW,
           NEW v, v = cpu.vector, NEW k, k = Cycle + 1
    PROVE  /\ IsState(s) /\ s.regs = boundary.regs /\ s.ram = boundary.ram
           /\ soft \in BOOLEAN /\ v \in {NMI_VECTOR, IRQ_BRK_VECTOR}
           /\ boundary' = Snapshot'
           /\ k \in 2 .. 7
           /\ op = "BRK" => k > 6 /\ EntryCourse(s, soft, v, k)'
           /\ op = "RTI" => k > 5 /\ InterruptReturnCourse(s, k)'
<1>1. /\ Phi2High /\ Cycle # 0 /\ InstructionHigh /\ boundary' = Snapshot'
      /\ Cycle + 1 = OpcodeMap[cpu.ir].cycles
      /\ Known /\ Op = op
    BY CompletionRuns DEF Completes
<1>2. PICK mode, n : mode = Mode /\ n = Cycle
    OBVIOUS
<1>3. InCycle(s, op, mode, soft, v, n) /\ Underway(s) /\ Course(s, op, mode, soft, v, n + 1)'
    BY <1>1, <1>2, InstructionRuns
<1>4. IsState(s) /\ s.regs = boundary.regs /\ s.ram = boundary.ram
    BY OriginIsState
<1>5. k = n + 1
    BY <1>2
<1>6. k \in 2 .. 7 /\ Row([op |-> op, mode |-> mode, cycles |-> k])
    <2>1. k = OpcodeMap[cpu.ir].cycles
        BY <1>1, <1>2, <1>5
    <2>2. Row(OpcodeMap[cpu.ir])
        BY <1>1, RowsAssumption DEF Known
    <2> QED
        BY <1>1, <1>2, <2>1, <2>2, CyclesOf DEF Row, Op, Mode
<1>7. soft \in BOOLEAN /\ v \in {NMI_VECTOR, IRQ_BRK_VECTOR}
    <2>1. cpu \in Registers
        BY DEF TraceInv, Inv, TypeOK
    <2> QED
        BY <1>3, <2>1 DEF Registers, InCycle
<1>8. mode = "IMP"
    BY <1>6 DEF Row, MemoryOps, ReadOps, ModifyOps, StoreOps, PointerOps, RegisterOps, Branches
<1>9. OneCourse(s, op, mode, soft, v, k)'
    <2>1. Course(s, op, mode, soft, v, k)'
        BY <1>3, <1>5
    <2> QED
        BY <2>1 DEF Course, OneCourse, MemoryOps, ReadOps, ModifyOps, StoreOps, RegisterOps
<1>10. /\ op = "BRK" => k > 6 /\ EntryCourse(s, soft, v, k)'
       /\ op = "RTI" => k > 5 /\ InterruptReturnCourse(s, k)'
    <2>1. op \in StackOps
        BY DEF StackOps
    <2>2. (op = "BRK" => k > 6) /\ (op = "RTI" => k > 5)
        BY <1>6, <1>8, <2>1, StackRows
    <2> QED
        BY <1>8, <1>9, <2>2 DEF OneCourse
<1> QED
    BY <1>1, <1>4, <1>6, <1>7, <1>10

(* What the steps owe one another, and what they keep.                                  *)
Owed ==
    /\ Completes("BRK") => boundary.regs.sp >= 3
    /\ Completes("RTI") /\ frames # <<>> => GivesBack(Head(frames).found)

Resumed == Completes("RTI") /\ frames # <<>> => Resumes(Head(frames).before)

(* The end of an entry records a frame whose handler was handed what it found.        *)
LEMMA EntryRecords ==
    ASSUME TraceInv, CodeInMemory, [TraceNext]_traceVars, Completes("BRK"),
           cpu'.resetStage # 0, boundary.regs.sp >= 3
    PROVE  Frame \in Frames
<1>1. PICK s, soft, v, op, k : /\ s = Origin /\ soft = cpu.fromSW /\ v = cpu.vector
                               /\ op = "BRK" /\ k = Cycle + 1
    OBVIOUS
<1>2. Completes(op) /\ op \in {"BRK", "RTI"}
    BY <1>1
<1>3. /\ IsState(s) /\ s.regs = boundary.regs /\ s.ram = boundary.ram
      /\ soft \in BOOLEAN /\ v \in {NMI_VECTOR, IRQ_BRK_VECTOR}
      /\ k \in 2 .. 7 /\ (op = "BRK" => k > 6 /\ EntryCourse(s, soft, v, k)')
    BY <1>1, <1>2, StackCompletion
<1>4. IsMemory(sram', SRAMAddresses)
    <2>1. TraceInv'
        BY TraceInvNext
    <2> QED
        BY <2>1 DEF TraceInv, Inv, TypeOK, BusTypeOK
<1>5. PICK r : r = [s.regs EXCEPT !.pc = ReturnAddress(s, soft, v)]
    OBVIOUS
<1>6. [before |-> Context(r, s.ram), found |-> Context(Snapshot'.regs, sram')] \in Frames
    BY <1>1, <1>3, <1>4, <1>5, EntryHandsOver
<1>7. Interrupted = Context(r, s.ram)
    <2>1. ReturnAddress(s, soft, v) = IF Software THEN U16(boundary.regs.pc + 1)
                                      ELSE boundary.regs.pc
        BY <1>1, <1>3, ReturnAddresses, MachineBytes DEF Software
    <2> QED
        BY <1>3, <1>5, <2>1 DEF Interrupted
<1> QED
    BY <1>6, <1>7 DEF Frame

(* The RTI of a handler that gives back what it found resumes what was interrupted.   *)
LEMMA ReturnKeepsPromise ==
    ASSUME TraceInv, CodeInMemory, [TraceNext]_traceVars, Completes("RTI"),
           cpu'.resetStage # 0, frames \in Seq(Frames), frames # <<>>,
           GivesBack(Head(frames).found)
    PROVE  Resumes(Head(frames).before)
<1>1. PICK s, soft, v, op, k, f : /\ s = Origin /\ soft = cpu.fromSW /\ v = cpu.vector
                                  /\ op = "RTI" /\ k = Cycle + 1 /\ f = Head(frames)
    OBVIOUS
<1>2. Completes(op) /\ op \in {"BRK", "RTI"}
    BY <1>1
<1>3. /\ IsState(s) /\ s.regs = boundary.regs /\ s.ram = boundary.ram
      /\ boundary' = Snapshot'
      /\ op = "RTI" => k > 5 /\ InterruptReturnCourse(s, k)'
    BY <1>1, <1>2, StackCompletion
<1>4. f \in Frames
    BY <1>1, HeadTailProperties
<1>5. GivesBack(f.found)
    BY <1>1
<1>6. Resumes(f.before)
    BY <1>1, <1>3, <1>4, <1>5, ReturnResumes
<1> QED
    BY <1>1, <1>6

-----------------------------------------------------------------------------------
(* Every handler under way was handed what it interrupted.                              *)
FramesInv == frames \in Seq(Frames)

(* No step breaks the frames, and every RTI resumes.                                  *)
LEMMA FramesKeep ==
    ASSUME TraceInv, CodeInMemory, FramesInv, [InterruptsNext]_interruptVars,
           [Owed]_interruptVars
    PROVE  FramesInv' /\ [Resumed]_interruptVars
<1>1. CASE UNCHANGED interruptVars
    BY <1>1 DEF interruptVars, FramesInv
<1>2. CASE InterruptsNext /\ Owed
    <2>1. [TraceNext]_traceVars /\ RecordFrame
        BY <1>2 DEF InterruptsNext
    <2>2. ASSUME cpu'.resetStage # 0, Completes("BRK")
          PROVE  <<Frame>> \o frames \in Seq(Frames)
        <3>1. boundary.regs.sp >= 3
            BY <1>2, <2>2 DEF Owed
        <3>2. Frame \in Frames
            BY <2>1, <2>2, <3>1, EntryRecords
        <3>3. PICK f : f = Frame
            OBVIOUS
        <3>4. <<f>> \in Seq(Frames)
            BY <3>2, <3>3
        <3> QED
            BY <3>3, <3>4, ConcatProperties DEF FramesInv
    <2>3. frames # <<>> => Tail(frames) \in Seq(Frames)
        BY HeadTailProperties DEF FramesInv
    <2>4. FramesInv'
        BY <2>1, <2>2, <2>3 DEF RecordFrame, FramesInv
    <2>5. ASSUME Completes("RTI"), frames # <<>>
          PROVE  Resumes(Head(frames).before)
        <3>1. cpu'.resetStage # 0
            BY <2>5 DEF Completes, AtBoundary
        <3>2. GivesBack(Head(frames).found)
            BY <1>2, <2>5 DEF Owed
        <3> QED
            BY <2>1, <2>5, <3>1, <3>2, ReturnKeepsPromise DEF FramesInv
    <2> QED
        BY <2>4, <2>5 DEF Resumed
<1>3. CASE InterruptsNext /\ UNCHANGED interruptVars
    BY <1>1, <1>3
<1> QED
    BY <1>1, <1>2

(* Interrupts are transparent wherever they come: whatever the program, its handlers and *)
(* the cycles in which the pins move, if every handler comes to its RTI with the         *)
(* registers and the stack as it found them, and the program leaves room for a frame,    *)
(* then the interrupted program goes on as if nothing had happened. IRQs, NMIs and BRK   *)
(* instructions nest in one another to any depth.                                       *)
THEOREM HandlersAreTransparent ==
    InterruptsSpec /\ []CodeInMemory /\ HandlersGiveBack => Transparent
<1>1. InterruptsInit => TraceInv /\ FramesInv
    BY TraceInvInit DEF InterruptsInit, FramesInv
<1>2. [InterruptsNext]_interruptVars => [TraceNext]_traceVars
    BY DEF InterruptsNext, interruptVars
<1>3. TraceInv /\ CodeInMemory /\ [TraceNext]_traceVars => TraceInv'
    BY TraceInvNext
<1>4. TraceInv /\ CodeInMemory /\ FramesInv /\ [InterruptsNext]_interruptVars
          /\ [Owed]_interruptVars => FramesInv' /\ [Resumed]_interruptVars
    BY FramesKeep
<1> QED
    BY <1>1, <1>2, <1>3, <1>4, PTL
    DEF InterruptsSpec, HandlersGiveBack, Owed, Transparent, Resumed
=================================================================================
