--------------------------- MODULE W65C22S_Board_proofs ---------------------------
(***********************************************************************************)
(* Theorems about VIA and LCD under any disciplined program, for every size of the  *)
(* display memory that fits the counter and all power-up values: the types, that no *)
(* character leaves the display memory, and the implementation of Board.            *)
(***********************************************************************************)
EXTENDS W65C22S_Board, Bytes_proofs

-----------------------------------------------------------------------------------
(* The size of the display memory is a number, and the counter reaches every cell.     *)
LEMMA SizeFits == Size \in Int /\ 1 <= Size /\ Size <= 256
<1> DEFINE most == 256
<1>1. Size \in 1 .. most
    BY SizeAssumption
<1>2. most \in Int
    OBVIOUS
<1>3. Size \in Int /\ 1 <= Size /\ Size <= most
    <2> HIDE DEF most
    <2> QED
        BY <1>1, <1>2, SMT
<1> QED
    BY <1>3

(* A cell is a number below the size, and a byte.                                      *)
LEMMA CellMember ==
    ASSUME NEW n
    PROVE  /\ n \in Cell <=> n \in Int /\ 0 <= n /\ n <= Size - 1
           /\ n \in Cell => n \in Byte
<1>1. Size - 1 \in Int
    BY SizeFits
<1>2. n \in Cell <=> n \in Int /\ 0 <= n /\ n <= Size - 1
    BY <1>1, RangeMember DEF Cell
<1> QED
    BY <1>2, SizeFits, ByteMember

(* Masking makes a byte (data & ddrMask).                                              *)
LEMMA MaskedType ==
    ASSUME NEW u, NEW v
    PROVE  BitAnd(u, v) \in Byte
BY ByteOfType DEF BitAnd

(* The control pins of the board are the bits the adapter looks at.                    *)
LEMMA PinsAreBits ==
    ASSUME NEW u, NEW v, NEW k \in {E, RW, RS}
    PROVE  Has(BitAnd(u, v), k) <=> k \in Board!Control(u, v)
<1>1. k \in Masks /\ Ones(u) \cap Ones(v) \in SUBSET Masks
    BY DEF E, RW, RS, Masks, Ones
<1>2. Has(BitAnd(u, v), k) <=> k \in Ones(u) \cap Ones(v)
    BY <1>1, BitsOfByteOf DEF BitAnd
<1>3. k \in {Board!E, Board!RW, Board!RS}
    BY DEF E, RW, RS, Board!E, Board!RW, Board!RS
<1>4. k \in Ones(u) \cap Ones(v) <=> k \in Board!Ones(u) \cap Board!Ones(v)
    BY DEF Ones, Masks, Has, Board!Ones, Board!Masks, Board!Has
<1> QED
    BY <1>2, <1>3, <1>4 DEF Board!Control

-----------------------------------------------------------------------------------
(* A data write keeps the types, and the counter in the memory once it is there.       *)
LEMMA StoredKeeps ==
    ASSUME NEW l \in LCD, NEW v \in Byte, l.addressCounter \in Cell
    PROVE  /\ Stored(l, v) = [l EXCEPT
                  !.ddram = [l.ddram EXCEPT ![l.addressCounter] = v],
                  !.addressCounter = IF l.addressCounter + 1 = Size THEN 0
                                     ELSE l.addressCounter + 1]
           /\ Stored(l, v) \in LCD
           /\ Stored(l, v).addressCounter \in Cell
           /\ Stored(l, v).wild = l.wild
           /\ Stored(l, v).data = l.data
<1> DEFINE next == IF l.addressCounter + 1 = Size THEN 0 ELSE l.addressCounter + 1
           stored == [l EXCEPT !.ddram = [l.ddram EXCEPT ![l.addressCounter] = v],
                               !.addressCounter = next]
<1>1. l.addressCounter \in Int /\ 0 <= l.addressCounter /\ l.addressCounter <= Size - 1
    BY CellMember
<1>2. (l.addressCounter + 1) % Size = next
    <2>1. CASE l.addressCounter + 1 = Size
        BY <1>1, <2>1, SizeFits, SMT
    <2>2. CASE l.addressCounter + 1 < Size
        BY <1>1, <2>2, SizeFits, SMT
    <2> QED
        BY <1>1, <2>1, <2>2, SizeFits
<1>3. next \in Cell /\ next \in Byte
    BY <1>1, SizeFits, CellMember
<1>4. l.wild \/ l.addressCounter \notin Cell <=> l.wild
    OBVIOUS
<1>5. l.wild \in BOOLEAN
    BY DEF LCD
<1>6. Stored(l, v) = stored
    BY <1>2, <1>4, <1>5 DEF Stored, LCD
<1>7. [l.ddram EXCEPT ![l.addressCounter] = v] \in [Cell -> Byte]
    BY DEF LCD
<1>8. /\ stored \in LCD /\ stored.addressCounter = next
      /\ stored.wild = l.wild /\ stored.data = l.data
    BY <1>3, <1>7 DEF LCD
<1> QED
    BY <1>3, <1>6, <1>8

(* What the instructions the board understands do to the display (handleWrite).        *)
Carried(l, v) ==
    [l EXCEPT !.ddram = IF v = 1 THEN [c \in Cell |-> 0] ELSE l.ddram,
              !.addressCounter = IF v \in {1, 2, 3} THEN 0 ELSE l.addressCounter,
              !.display = IF v \in 8 .. 15
                          THEN {f \in {"on", "cursor", "blink"} :
                                   [on |-> 4, cursor |-> 2, blink |-> 1][f] \in Ones(v)}
                          ELSE l.display,
              !.bits = IF v \in 48 .. 63 THEN 8 ELSE l.bits,
              !.lines = IF v \in 48 .. 63 THEN IF v >= 56 THEN 2 ELSE 1 ELSE l.lines]

(* The instructions the board understands do just that, and keep the types.             *)
LEMMA InstructedKeeps ==
    ASSUME NEW l \in LCD, NEW v \in Board!Understood
    PROVE  Instructed(l, v) = Carried(l, v) /\ Instructed(l, v) \in LCD
<1>0. 0 \in Byte
    BY ByteMember
<1>1. v = 1 \/ v = 6 \/ v \in {2, 3} \/ v \in 8 .. 15 \/ v \in 48 .. 63
    BY DEF Board!Understood, Board!Clear, Board!EntryIncrement, Board!Homes, Board!Displays,
           Board!Functions8Bit
<1>2. CASE v = 1
    <2>1. v \notin 8 .. 15 /\ v \notin 48 .. 63 /\ v \in {1, 2, 3}
        BY <1>2
    <2>2. Instructed(l, v) = Cleared(l)
        BY <1>2 DEF Instructed, HighestBit
    <2>3. Cleared(l) = Carried(l, v)
        BY <1>2, <2>1 DEF Cleared, Carried, LCD
    <2>4. Cleared(l) \in LCD
        BY <1>0 DEF Cleared, LCD
    <2> QED
        BY <2>2, <2>3, <2>4
<1>3. CASE v \in {2, 3}
    <2>1. v \notin 8 .. 15 /\ v \notin 48 .. 63 /\ v \in {1, 2, 3} /\ v # 1
        BY <1>3
    <2>2. Instructed(l, v) = [l EXCEPT !.addressCounter = 0]
        BY <1>3 DEF Instructed, HighestBit
    <2>3. [l EXCEPT !.addressCounter = 0] = Carried(l, v)
        BY <2>1 DEF Carried, LCD
    <2>4. [l EXCEPT !.addressCounter = 0] \in LCD
        BY <1>0 DEF LCD
    <2> QED
        BY <2>2, <2>3, <2>4
<1>4. CASE v = 6
    <2>1. v \notin 8 .. 15 /\ v \notin 48 .. 63 /\ v \notin {1, 2, 3} /\ v # 1
        BY <1>4
    <2>2. Instructed(l, v) = l
        BY <1>4 DEF Instructed, HighestBit
    <2>3. l = Carried(l, v)
        BY <2>1 DEF Carried, LCD
    <2> QED
        BY <2>2, <2>3
<1>5. CASE v \in 8 .. 15
    <2>1. v \in Int /\ 8 <= v /\ v <= 15
        BY <1>5
    <2>2. v \notin 48 .. 63 /\ v \notin {1, 2, 3} /\ v # 1
        BY <2>1
    <2>3. Instructed(l, v) = DisplayControl(l, v)
        BY <2>1 DEF Instructed, HighestBit
    <2>4. DisplayControl(l, v).display = {f \in {"on", "cursor", "blink"} :
                                     [on |-> 4, cursor |-> 2, blink |-> 1][f] \in Ones(v)}
        BY DEF DisplayControl, LCD, Ones, Masks, Has
    <2>5. DisplayControl(l, v) = [l EXCEPT !.display = DisplayControl(l, v).display]
        BY DEF DisplayControl, LCD
    <2>6. DisplayControl(l, v) = Carried(l, v)
        <3> DEFINE d == DisplayControl(l, v).display
        <3>1. Carried(l, v) = [l EXCEPT !.display = d]
            <4> HIDE DEF d
            <4>1. d = {f \in {"on", "cursor", "blink"} :
                                     [on |-> 4, cursor |-> 2, blink |-> 1][f] \in Ones(v)}
                BY <2>4 DEF d
            <4> QED
                BY <1>5, <2>2, <4>1 DEF Carried, LCD
        <3> QED
            BY <2>5, <3>1
    <2>7. DisplayControl(l, v) \in LCD
        BY DEF DisplayControl, LCD
    <2> QED
        BY <2>3, <2>6, <2>7
<1>6. CASE v \in 48 .. 63
    <2>1. v \in Int /\ 48 <= v /\ v <= 63
        BY <1>6
    <2>2. v \notin 8 .. 15 /\ v \notin {1, 2, 3} /\ v # 1
        BY <2>1
    <2>3. Instructed(l, v) = FunctionSet(l, v)
        BY <2>1 DEF Instructed, HighestBit
    <2>4. Has(v, 16) /\ (Has(v, 8) <=> v >= 56)
        BY <2>1 DEF Has
    <2>5. FunctionSet(l, v) = [l EXCEPT !.bits = 8, !.lines = IF v >= 56 THEN 2 ELSE 1]
        BY <2>4 DEF FunctionSet
    <2>6. FunctionSet(l, v) \in LCD
        BY DEF FunctionSet, LCD
    <2>7. Carried(l, v) = [l EXCEPT !.bits = 8, !.lines = IF v >= 56 THEN 2 ELSE 1]
        BY <1>6, <2>2, Zenon DEF Carried, LCD
    <2> QED
        BY <2>3, <2>5, <2>6, <2>7
<1> QED
    BY <1>1, <1>2, <1>3, <1>4, <1>5, <1>6

-----------------------------------------------------------------------------------
(* Bytes mean the same to the board and to the emulator.                               *)
LEMMA BoardBytes ==
    ASSUME NEW u, NEW v
    PROVE  Board!BitAnd(u, v) = BitAnd(u, v) /\ Board!Ones(v) = Ones(v) /\ Board!Byte = Byte
<1>1. Board!Ones(u) = Ones(u) /\ Board!Ones(v) = Ones(v)
    BY DEF Ones, Masks, Has, Board!Ones, Board!Masks, Board!Has
<1>2. Board!ByteOf(Ones(u) \cap Ones(v)) = ByteOf(Ones(u) \cap Ones(v))
    BY Zenon DEF ByteOf, Board!ByteOf
<1>3. Board!Byte = Byte
    BY DEF Byte, UINT8_MAX, Board!Byte, Board!UINT8_MAX
<1> QED
    BY <1>1, <1>2, <1>3 DEF BitAnd, Board!BitAnd

(* A byte of zeros asks for nothing.                                                   *)
LEMMA NoPins ==
    ASSUME NEW k \in {E, RW, RS}
    PROVE  k \notin PinsA(0)
<1>1. ~Has(0, k)
    BY DEF Has, E, RW, RS
<1>2. k \notin Ones(0)
    BY <1>1 DEF Ones
<1>3. k \notin Board!Ones(0)
    BY <1>2, BoardBytes
<1> QED
    BY <1>3 DEF PinsA, Board!Control

-----------------------------------------------------------------------------------
(* What relates the program's own writes to the members they ended up in. The enable   *)
(* latch is the E pin once port A has been written; the data latch holds what port B   *)
(* put out; the counter is in the memory once an instruction has set it.               *)
ProgramTypeOK ==
    program \in [ora : Byte, orb : Byte, maskB : Byte,
                 wroteA : BOOLEAN, wroteB : BOOLEAN, homed : BOOLEAN]

LatchesFollow ==
    /\ program.wroteA => (lcd.enable <=> E \in PinsA(program.ora))
    /\ ~program.wroteA => program.ora = 0
    /\ program.wroteB => lcd.data = BitAnd(program.orb, program.maskB)
    /\ program.homed => lcd.addressCounter \in Cell

DisplayInv == VIATypeOK /\ ProgramTypeOK /\ LatchesFollow /\ StoresInside

(* The registers of the two directions are bytes.                                      *)
LEMMA Directions ==
    ASSUME VIATypeOK
    PROVE  registers[DDR_A] \in Byte /\ registers[DDR_B] \in Byte
<1>1. DDR_A \in Member /\ DDR_B \in Member
    BY DEF DDR_A, DDR_B, Member
<1> QED
    BY <1>1 DEF VIATypeOK

-----------------------------------------------------------------------------------
(* The write of v to port A carries out an operation exactly if it ends a pulse that   *)
(* asks for one (setControlLines, checkEnableToggled).                                 *)
LEMMA OperatesOnCommit ==
    ASSUME DisplayInv, NEW v \in Byte, DisciplinedA(v)
    PROVE  Commits(v) <=> lcd.enable /\ E \notin PinsA(v) /\ RW \notin PinsA(v)
<1>1. CASE program.wroteA
    <2>1. FallsE(v) <=> lcd.enable /\ E \notin PinsA(v)
        BY <1>1 DEF DisplayInv, LatchesFollow, FallsE
    <2>2. FallsE(v) => (RW \in PinsA(v) <=> RW \in PinsA(program.ora))
        BY DEF DisciplinedA, RW, E
    <2> QED
        BY <2>1, <2>2 DEF Commits
<1>2. CASE ~program.wroteA
    <2>1. program.ora = 0
        BY <1>2 DEF DisplayInv, LatchesFollow
    <2>2. ~FallsE(v)
        BY <2>1, NoPins DEF FallsE
    <2>3. E \in PinsA(v) \/ RW \in PinsA(v)
        BY <1>2 DEF DisciplinedA
    <2> QED
        BY <2>2, <2>3 DEF Commits
<1> QED
    BY <1>1, <1>2

(* The enable latch is set without touching anything else.                             *)
LEMMA EnableSet ==
    ASSUME NEW l \in LCD, NEW p \in BOOLEAN
    PROVE  LET set == [l EXCEPT !.enable = p]
           IN  /\ set \in LCD /\ set.wild = l.wild /\ set.data = l.data
               /\ set.addressCounter = l.addressCounter /\ set.ddram = l.ddram
               /\ set.display = l.display /\ set.bits = l.bits /\ set.lines = l.lines
               /\ set.enable = p
BY DEF LCD

(* What it does to the LCD.                                                            *)
Lines(v) == [lcd EXCEPT !.rs = RS \in PinsA(v), !.rw = RW \in PinsA(v)]

(* Setting RS and RW touches nothing else of the LCD.                                  *)
LEMMA LinesKeep ==
    ASSUME lcd \in LCD, NEW v
    PROVE  /\ Lines(v) \in LCD /\ Lines(v).wild = lcd.wild /\ Lines(v).data = lcd.data
           /\ Lines(v).addressCounter = lcd.addressCounter /\ Lines(v).ddram = lcd.ddram
           /\ Lines(v).display = lcd.display /\ Lines(v).bits = lcd.bits
           /\ Lines(v).lines = lcd.lines
<1> DEFINE p == RS \in PinsA(v)
           q == RW \in PinsA(v)
<1>1. p \in BOOLEAN /\ q \in BOOLEAN
    OBVIOUS
<1>2. Lines(v) = [lcd EXCEPT !.rs = p, !.rw = q]
    BY DEF Lines
<1> HIDE DEF p, q
<1> QED
    BY <1>1, <1>2 DEF LCD

(* The write of v to port A, as a function of the pins (setControlLines).               *)
LEMMA ControlWrite ==
    ASSUME DisplayInv, NEW v \in Byte, DisciplinedA(v),
           WritePort("A", v, registers[DDR_A])
    PROVE  /\ Lines(v) \in LCD
           /\ UNCHANGED registers
           /\ lcd' = [IF Commits(v)
                      THEN IF RS \in PinsA(v) THEN Stored(Lines(v), lcd.data)
                           ELSE Instructed(Lines(v), lcd.data)
                      ELSE Lines(v)
                      EXCEPT !.enable = E \in PinsA(v)]
<1> DEFINE b == BitAnd(v, registers[DDR_A])
           rs == Has(b, RS)
           rw == Has(b, RW)
           en == Has(b, E)
           set == [lcd EXCEPT !.rs = rs, !.rw = rw]
           done == IF lcd.enable /\ ~en /\ ~rw THEN WriteOperation(set) ELSE set
<1>1. /\ rs = (RS \in PinsA(v)) /\ rw = (RW \in PinsA(v)) /\ en = (E \in PinsA(v))
    <2>1. /\ rs <=> RS \in PinsA(v)
          /\ rw <=> RW \in PinsA(v)
          /\ en <=> E \in PinsA(v)
        BY PinsAreBits DEF PinsA
    <2> QED
        BY <2>1 DEF Has
<1>2. lcd \in LCD
    BY DEF DisplayInv, VIATypeOK
<1>3. Lines(v) \in LCD /\ set = Lines(v)
    <2>1. Lines(v) \in LCD
        BY <1>2, LinesKeep
    <2>2. set = Lines(v)
        <3> HIDE DEF rs, rw, en
        <3> QED
            BY <1>1, Zenon DEF Lines
    <2> QED
        BY <2>1, <2>2
<1>4. lcd' = WriteToPort(lcd, CONTROL_PORT, b) /\ UNCHANGED registers
    BY DEF WritePort, Connections
<1>5. WriteToPort(lcd, CONTROL_PORT, b) = SetControlLines(lcd, rs, rw, en)
    BY DEF WriteToPort, CONTROL_PORT, DATA_PORT
<1>6. SetControlLines(lcd, rs, rw, en) = [done EXCEPT !.enable = en]
    BY DEF SetControlLines
<1>7. WriteOperation(Lines(v)) = IF RS \in PinsA(v) THEN Stored(Lines(v), lcd.data)
                                 ELSE Instructed(Lines(v), lcd.data)
    BY <1>2 DEF WriteOperation, Lines, LCD
<1>8. Commits(v) <=> lcd.enable /\ ~en /\ ~rw
    BY <1>1, OperatesOnCommit
<1> HIDE DEF rs, rw, en, set
<1> QED
    BY <1>1, <1>3, <1>4, <1>5, <1>6, <1>7, <1>8

(* What an operation finds on the data pins (handleWrite).                             *)
LEMMA DataOnCommit ==
    ASSUME DisplayInv, NEW v \in Byte, DisciplinedA(v), Commits(v)
    PROVE  /\ lcd.data = Board!DataPins
           /\ lcd.data \in Byte
           /\ RS \in PinsA(v) => lcd.addressCounter \in Cell
           /\ RS \notin PinsA(v) => lcd.data \in Board!Understood
<1>1. /\ program.wroteB /\ registers[DDR_B] = program.maskB
      /\ IF RS \in PinsA(v) THEN program.homed ELSE Board!DataPins \in Board!Understood
    BY DEF DisciplinedA
<1>2. lcd.data = BitAnd(program.orb, registers[DDR_B])
    BY <1>1 DEF DisplayInv, LatchesFollow
<1>3. lcd.data = Board!DataPins
    BY <1>2, BoardBytes DEF Board!DataPins
<1>4. lcd.data \in Byte
    BY <1>2, MaskedType
<1> QED
    BY <1>1, <1>3, <1>4 DEF DisplayInv, LatchesFollow

-----------------------------------------------------------------------------------
(* The invariant holds at power-up, whatever the members hold.                         *)
LEMMA InvAtFirst ==
    ASSUME DisplayInit
    PROVE  DisplayInv
<1>1. VIATypeOK /\ ~lcd.wild
    BY PowerUpRegistersAssumption, PowerUpLCDsAssumption
       DEF DisplayInit, VIAInit, VIATypeOK
<1>2. 0 \in Byte
    BY ByteMember
<1>3. program = Unwritten
    BY DEF DisplayInit
<1> QED
    BY <1>1, <1>2, <1>3 DEF DisplayInv, ProgramTypeOK, LatchesFollow, StoresInside, Unwritten

(* A write to port A leaves the LCD with its types, its counter in the memory if it    *)
(* was or an instruction has put it there, and nothing stored outside.                 *)
LEMMA OperationKeeps ==
    ASSUME DisplayInv, NEW v \in Byte, DisciplinedA(v),
           WritePort("A", v, registers[DDR_A])
    PROVE  /\ lcd' \in LCD
           /\ ~lcd'.wild
           /\ lcd'.data = lcd.data
           /\ lcd'.enable = (E \in PinsA(v))
           /\ program.homed => lcd'.addressCounter \in Cell
           /\ Homing(v) => lcd'.addressCounter \in Cell
<1> DEFINE after == IF Commits(v)
                    THEN IF RS \in PinsA(v) THEN Stored(Lines(v), lcd.data)
                         ELSE Instructed(Lines(v), lcd.data)
                    ELSE Lines(v)
<1>1. lcd \in LCD /\ ~lcd.wild /\ (program.homed => lcd.addressCounter \in Cell)
    BY DEF DisplayInv, VIATypeOK, StoresInside, LatchesFollow
<1>2. /\ Lines(v) \in LCD
      /\ lcd' = [after EXCEPT !.enable = E \in PinsA(v)]
    BY ControlWrite
<1>3. /\ Lines(v).wild = lcd.wild /\ Lines(v).data = lcd.data
      /\ Lines(v).addressCounter = lcd.addressCounter
    BY <1>1, LinesKeep
<1>4. /\ after \in LCD /\ after.wild = lcd.wild /\ after.data = lcd.data
      /\ program.homed => after.addressCounter \in Cell
      /\ Homing(v) => after.addressCounter \in Cell
    <2>1. CASE ~Commits(v)
        <3>1. after = Lines(v) /\ ~Homing(v)
            BY <2>1 DEF Homing
        <3> QED
            BY <1>1, <1>2, <1>3, <3>1
    <2>2. CASE Commits(v) /\ RS \in PinsA(v)
        <3>1. after = Stored(Lines(v), lcd.data) /\ ~Homing(v)
            BY <2>2 DEF Homing
        <3>2. lcd.data \in Byte /\ Lines(v).addressCounter \in Cell
            BY <1>3, <2>2, DataOnCommit
        <3>3. /\ Stored(Lines(v), lcd.data) \in LCD
              /\ Stored(Lines(v), lcd.data).addressCounter \in Cell
              /\ Stored(Lines(v), lcd.data).wild = Lines(v).wild
              /\ Stored(Lines(v), lcd.data).data = Lines(v).data
            BY <1>2, <3>2, StoredKeeps, Zenon
        <3> HIDE DEF after
        <3> QED
            BY <1>3, <3>1, <3>3
    <2>3. CASE Commits(v) /\ RS \notin PinsA(v)
        <3>1. after = Instructed(Lines(v), lcd.data)
            BY <2>3
        <3>2. lcd.data \in Board!Understood /\ lcd.data = Board!DataPins
            BY <2>3, DataOnCommit
        <3>3. after = Carried(Lines(v), lcd.data) /\ after \in LCD
            BY <1>2, <3>1, <3>2, InstructedKeeps
        <3>4. /\ after.wild = Lines(v).wild /\ after.data = Lines(v).data
              /\ after.addressCounter = IF lcd.data \in {1, 2, 3} THEN 0
                                        ELSE Lines(v).addressCounter
            BY <1>2, <3>3 DEF Carried, LCD
        <3>5. 0 \in Cell
            BY CellMember, SizeFits
        <3>6. Homing(v) => lcd.data \in {1, 2, 3}
            BY <3>2 DEF Homing, Board!Clear, Board!Homes
        <3> QED
            BY <1>1, <1>3, <3>3, <3>4, <3>5, <3>6
    <2> QED
        BY <2>1, <2>2, <2>3
<1>5. /\ lcd' \in LCD /\ lcd'.wild = after.wild /\ lcd'.data = after.data
      /\ lcd'.enable = (E \in PinsA(v)) /\ lcd'.addressCounter = after.addressCounter
    <2>1. (E \in PinsA(v)) \in BOOLEAN
        OBVIOUS
    <2> HIDE DEF after
    <2> QED
        BY <1>2, <1>4, <2>1, EnableSet, Zenon
<1> QED
    BY <1>1, <1>3, <1>4, <1>5

-----------------------------------------------------------------------------------
(* Every write of a disciplined program keeps the invariant.                           *)
LEMMA PortAKeeps ==
    ASSUME DisplayInv, NEW v \in Byte, DisciplinedA(v),
           WritePort("A", v, registers[DDR_A]),
           program' = [program EXCEPT !.ora = v, !.wroteA = TRUE, !.homed = @ \/ Homing(v)]
    PROVE  DisplayInv'
<1>1. UNCHANGED registers
    BY DEF WritePort
<1>2. /\ lcd' \in LCD /\ ~lcd'.wild /\ lcd'.data = lcd.data
      /\ lcd'.enable = (E \in PinsA(v))
      /\ program.homed \/ Homing(v) => lcd'.addressCounter \in Cell
    BY OperationKeeps
<1>3. VIATypeOK' /\ StoresInside'
    BY <1>1, <1>2 DEF DisplayInv, VIATypeOK, StoresInside
<1> DEFINE h == program.homed \/ Homing(v)
<1>4. h \in BOOLEAN
    BY DEF DisplayInv, ProgramTypeOK
<1>5. /\ ProgramTypeOK'
      /\ program'.ora = v /\ program'.wroteA /\ program'.homed = h
      /\ program'.orb = program.orb /\ program'.maskB = program.maskB
      /\ program'.wroteB = program.wroteB
    <2>1. program' = [program EXCEPT !.ora = v, !.wroteA = TRUE, !.homed = h]
        BY DEF DisplayInv, ProgramTypeOK
    <2> HIDE DEF h
    <2> QED
        BY <1>4, <2>1 DEF DisplayInv, ProgramTypeOK
<1>6. PinsA(v)' = PinsA(v)
    BY <1>1 DEF PinsA
<1>7. E \in PinsA(program.ora)' <=> E \in PinsA(v)
    BY <1>1, <1>5 DEF PinsA
<1>8. LatchesFollow'
    BY <1>2, <1>5, <1>7 DEF DisplayInv, LatchesFollow
<1> QED
    BY <1>3, <1>5, <1>8 DEF DisplayInv

(* A write to port B: the byte, masked, is what the display has on its data lines.      *)
LEMMA PortBKeeps ==
    ASSUME DisplayInv, NEW v \in Byte,
           WritePort("B", v, registers[DDR_B]),
           program' = [program EXCEPT !.orb = v, !.wroteB = TRUE, !.maskB = registers[DDR_B]]
    PROVE  /\ DisplayInv'
           /\ lcd' = [lcd EXCEPT !.data = BitAnd(v, registers[DDR_B])]
<1> DEFINE b == BitAnd(v, registers[DDR_B])
<1>1. UNCHANGED registers /\ lcd' = WriteToPort(lcd, DATA_PORT, b)
    BY DEF WritePort, Connections
<1>2. lcd' = [lcd EXCEPT !.data = b]
    BY <1>1 DEF WriteToPort, WriteDataLines, DATA_PORT, CONTROL_PORT
<1>3. b \in Byte /\ registers[DDR_B] \in Byte
    BY MaskedType, Directions DEF DisplayInv
<1>4. /\ lcd' \in LCD /\ lcd'.wild = lcd.wild /\ lcd'.data = b /\ lcd'.enable = lcd.enable
      /\ lcd'.addressCounter = lcd.addressCounter
    BY <1>2, <1>3 DEF DisplayInv, VIATypeOK, LCD
<1>5. VIATypeOK' /\ StoresInside'
    BY <1>1, <1>4 DEF DisplayInv, VIATypeOK, StoresInside
<1>6. /\ ProgramTypeOK'
      /\ program'.orb = v /\ program'.wroteB /\ program'.maskB = registers[DDR_B]
      /\ program'.ora = program.ora /\ program'.wroteA = program.wroteA
      /\ program'.homed = program.homed
    BY <1>3 DEF DisplayInv, ProgramTypeOK
<1>7. E \in PinsA(program.ora)' <=> E \in PinsA(program.ora)
    BY <1>1, <1>6 DEF PinsA
<1>8. lcd'.data = BitAnd(program'.orb, program'.maskB)
    BY <1>4, <1>6
<1>9. LatchesFollow'
    BY <1>4, <1>6, <1>7, <1>8 DEF DisplayInv, LatchesFollow
<1> QED
    BY <1>2, <1>5, <1>6, <1>9 DEF DisplayInv

(* A new direction reaches the device with the next write only. E is low meanwhile.     *)
LEMMA DirectionKeeps ==
    ASSUME DisplayInv, NEW v \in Byte, NEW reg \in {DDR_A, DDR_B},
           registers' = [registers EXCEPT ![reg] = v], UNCHANGED <<lcd, program>>,
           reg = DDR_A => ~Has(program.ora, E)
    PROVE  /\ DisplayInv'
           /\ registers'[reg] = v
           /\ \A other \in {DDR_A, DDR_B} \ {reg} : registers'[other] = registers[other]
           /\ E \in PinsA(program.ora)' <=> E \in PinsA(program.ora)
<1>1. DDR_A \in Member /\ DDR_B \in Member /\ DDR_A # DDR_B
    BY DEF DDR_A, DDR_B, Member
<1>2. /\ VIATypeOK' /\ registers'[reg] = v
      /\ \A other \in {DDR_A, DDR_B} \ {reg} : registers'[other] = registers[other]
    BY <1>1 DEF DisplayInv, VIATypeOK
<1>3. E \in PinsA(program.ora)' <=> E \in PinsA(program.ora)
    <2>1. CASE reg = DDR_B
        BY <1>1, <1>2, <2>1 DEF PinsA
    <2>2. CASE reg = DDR_A
        <3>1. E \notin Ones(program.ora)
            BY <2>2 DEF Ones
        <3>2. E \notin Board!Ones(program.ora)
            BY <3>1, BoardBytes
        <3> QED
            BY <3>2 DEF PinsA, Board!Control
    <2> QED
        BY <2>1, <2>2
<1>4. LatchesFollow' /\ ProgramTypeOK' /\ StoresInside'
    BY <1>3 DEF DisplayInv, LatchesFollow, ProgramTypeOK, StoresInside
<1> QED
    BY <1>2, <1>3, <1>4 DEF DisplayInv

-----------------------------------------------------------------------------------
(* What DisplayWrite comes down to, register by register.                              *)
LEMMA WriteCases ==
    ASSUME NEW reg \in Register, NEW v, DisplayWrite(reg, v)
    PROVE  \/ /\ DisciplinedA(v)
              /\ WritePort("A", v, registers[DDR_A])
              /\ program' = [program EXCEPT !.ora = v, !.wroteA = TRUE, !.homed = @ \/ Homing(v)]
           \/ /\ WritePort("B", v, registers[DDR_B])
              /\ program' = [program EXCEPT !.orb = v, !.wroteB = TRUE, !.maskB = registers[DDR_B]]
           \/ /\ reg \in {DDR_A, DDR_B}
              /\ registers' = [registers EXCEPT ![reg] = v]
              /\ UNCHANGED <<lcd, program>>
              /\ reg = DDR_A => ~Has(program.ora, E)
           \/ UNCHANGED boardVars
BY DEF DisplayWrite, Disciplined, HandleWrite, Remember, boardVars, viaVars,
       DATA_A, DATA_A2, DATA_B, DDR_A, DDR_B, Register

(* The invariant survives every step.                                                  *)
LEMMA InvKept ==
    ASSUME DisplayInv, [DisplayNext]_boardVars
    PROVE  DisplayInv'
<1>1. CASE UNCHANGED boardVars
    BY <1>1 DEF boardVars, viaVars, DisplayInv, VIATypeOK, ProgramTypeOK, LatchesFollow,
                StoresInside, PinsA
<1>2. ASSUME NEW reg \in Register, NEW v \in Byte, DisplayWrite(reg, v)
      PROVE  DisplayInv'
    BY <1>1, <1>2, WriteCases, PortAKeeps, PortBKeeps, DirectionKeeps
<1> QED
    BY <1>1, <1>2 DEF DisplayNext

(* Every reachable state satisfies the invariant.                                      *)
THEOREM DisplayInvariant == DisplaySpec => []DisplayInv
BY InvAtFirst, InvKept, PTL DEF DisplaySpec

(* The members of VIA and LCD stay within their types under a disciplined program:      *)
(* no register but the two directions is ever written, and the alias has no member.    *)
THEOREM VIATypes == DisplaySpec => []VIATypeOK
<1>1. DisplayInv => VIATypeOK
    BY DEF DisplayInv
<1> QED
    BY <1>1, DisplayInvariant, PTL

(* No character is stored past the end of _ddram, although the counter starts with any  *)
(* value and is checked nowhere: whatever the size of the memory and the length of the *)
(* program, the counter wraps in time.                                                 *)
THEOREM StoresStayInside == DisplaySpec => []StoresInside
<1>1. DisplayInv => StoresInside
    BY DEF DisplayInv
<1> QED
    BY <1>1, DisplayInvariant, PTL

-----------------------------------------------------------------------------------
(* What is seen of the LCD after a write to port A.                                    *)
LEMMA OperationShows ==
    ASSUME DisplayInv, NEW v \in Byte, DisciplinedA(v),
           WritePort("A", v, registers[DDR_A])
    PROVE  /\ ~Commits(v) =>
                /\ lcd'.ddram = lcd.ddram /\ lcd'.addressCounter = lcd.addressCounter
                /\ lcd'.display = lcd.display /\ lcd'.bits = lcd.bits
                /\ lcd'.lines = lcd.lines
           /\ Commits(v) /\ RS \in PinsA(v) =>
                /\ lcd'.ddram = [lcd.ddram EXCEPT ![lcd.addressCounter] = lcd.data]
                /\ lcd'.addressCounter = IF lcd.addressCounter + 1 = Size THEN 0
                                         ELSE lcd.addressCounter + 1
                /\ lcd'.display = lcd.display /\ lcd'.bits = lcd.bits
                /\ lcd'.lines = lcd.lines
           /\ Commits(v) /\ RS \notin PinsA(v) =>
                /\ lcd'.ddram = Carried(lcd, lcd.data).ddram
                /\ lcd'.addressCounter = Carried(lcd, lcd.data).addressCounter
                /\ lcd'.display = Carried(lcd, lcd.data).display
                /\ lcd'.bits = Carried(lcd, lcd.data).bits
                /\ lcd'.lines = Carried(lcd, lcd.data).lines
<1> DEFINE p == E \in PinsA(v)
           Same(l, m) == /\ l.ddram = m.ddram /\ l.addressCounter = m.addressCounter
                         /\ l.display = m.display /\ l.bits = m.bits /\ l.lines = m.lines
<1>1. lcd \in LCD /\ p \in BOOLEAN
    BY DEF DisplayInv, VIATypeOK
<1>2. Lines(v) \in LCD /\ Same(Lines(v), lcd)
    BY <1>1, LinesKeep
<1>3. ASSUME NEW l \in LCD, lcd' = [l EXCEPT !.enable = p]
      PROVE  Same(lcd', l)
    BY <1>1, <1>3, EnableSet, Zenon
<1>4. CASE ~Commits(v)
    <2>1. lcd' = [Lines(v) EXCEPT !.enable = p]
        BY <1>4, ControlWrite
    <2> QED
        BY <1>2, <1>3, <1>4, <2>1
<1>5. CASE Commits(v) /\ RS \in PinsA(v)
    <2> DEFINE st == Stored(Lines(v), lcd.data)
    <2>1. lcd' = [st EXCEPT !.enable = p]
        BY <1>5, ControlWrite
    <2>2. lcd.data \in Byte /\ Lines(v).addressCounter \in Cell
        BY <1>2, <1>5, DataOnCommit
    <2>3. /\ st = [Lines(v) EXCEPT
                  !.ddram = [Lines(v).ddram EXCEPT ![Lines(v).addressCounter] = lcd.data],
                  !.addressCounter = IF Lines(v).addressCounter + 1 = Size THEN 0
                                     ELSE Lines(v).addressCounter + 1]
          /\ st \in LCD
        BY <1>2, <2>2, StoredKeeps, Zenon
    <2> HIDE DEF st
    <2>4. Same(lcd', st)
        BY <1>3, <2>1, <2>3
    <2>5. /\ st.ddram = [Lines(v).ddram EXCEPT ![Lines(v).addressCounter] = lcd.data]
          /\ st.addressCounter = IF Lines(v).addressCounter + 1 = Size THEN 0
                                 ELSE Lines(v).addressCounter + 1
          /\ st.display = Lines(v).display /\ st.bits = Lines(v).bits
          /\ st.lines = Lines(v).lines
        BY <1>2, <2>3 DEF LCD
    <2> QED
        BY <1>2, <1>5, <2>4, <2>5
<1>6. CASE Commits(v) /\ RS \notin PinsA(v)
    <2> DEFINE in == Instructed(Lines(v), lcd.data)
    <2>1. lcd' = [in EXCEPT !.enable = p]
        BY <1>6, ControlWrite
    <2>2. in = Carried(Lines(v), lcd.data) /\ in \in LCD
        BY <1>2, <1>6, DataOnCommit, InstructedKeeps
    <2> HIDE DEF in
    <2>3. Same(lcd', in)
        BY <1>3, <2>1, <2>2
    <2>4. Same(Carried(Lines(v), lcd.data), Carried(lcd, lcd.data))
        BY <1>1, <1>2 DEF Carried, LCD
    <2> QED
        BY <1>6, <2>2, <2>3, <2>4
<1> QED
    BY <1>4, <1>5, <1>6

(* The board's display sees the pulse that the emulator's latch sees.                  *)
LEMMA BoardPulse ==
    ASSUME DisplayInv, NEW v \in Byte, DisciplinedA(v), UNCHANGED registers,
           program'.ora = v, program'.orb = program.orb
    PROVE  LET was == Board!Control(program.ora, registers[DDR_A])
               is  == Board!Control(program'.ora, registers'[DDR_A])
           IN  /\ Board!E \in was /\ Board!E \notin is /\ Board!RW \notin was <=> Commits(v)
               /\ Commits(v) => (Board!RS \in was <=> RS \in PinsA(v))
<1>1. Board!E = E /\ Board!RW = RW /\ Board!RS = RS /\ E # RS
    BY DEF E, RW, RS, Board!E, Board!RW, Board!RS
<1>2. /\ PinsA(program.ora) = Board!Control(program.ora, registers[DDR_A])
      /\ PinsA(v) = Board!Control(program'.ora, registers'[DDR_A])
    BY DEF PinsA
<1>3. Commits(v) => (RS \in PinsA(program.ora) <=> RS \in PinsA(v))
    BY <1>1 DEF Commits, DisciplinedA
<1> QED
    BY <1>1, <1>2, <1>3 DEF Commits, FallsE

(* What an instruction of the emulator does to the display is what the board's does.   *)
LEMMA CarriedInstructs ==
    ASSUME DisplayInv, lcd.data \in Board!Understood,
           lcd'.ddram = Carried(lcd, lcd.data).ddram,
           lcd'.addressCounter = Carried(lcd, lcd.data).addressCounter,
           lcd'.display = Carried(lcd, lcd.data).display,
           lcd'.bits = Carried(lcd, lcd.data).bits,
           lcd'.lines = Carried(lcd, lcd.data).lines
    PROVE  Board!Instruct(lcd.data)
<1> DEFINE v == lcd.data
           flags == {f \in {"on", "cursor", "blink"} :
                        [on |-> 4, cursor |-> 2, blink |-> 1][f] \in Ones(v)}
<1>1. lcd \in LCD
    BY DEF DisplayInv, VIATypeOK
<1>2. /\ lcd'.ddram = IF v = 1 THEN [c \in Cell |-> 0] ELSE lcd.ddram
      /\ lcd'.addressCounter = IF v \in {1, 2, 3} THEN 0 ELSE lcd.addressCounter
      /\ lcd'.display = IF v \in 8 .. 15 THEN flags ELSE lcd.display
      /\ lcd'.bits = IF v \in 48 .. 63 THEN 8 ELSE lcd.bits
      /\ lcd'.lines = IF v \in 48 .. 63 THEN IF v >= 56 THEN 2 ELSE 1 ELSE lcd.lines
    BY <1>1 DEF Carried, LCD
<1>3. DOMAIN lcd.ddram = Cell
    BY <1>1 DEF LCD
<1>4. v \in {1} \cup {2, 3} <=> v \in {1, 2, 3}
    OBVIOUS
<1>5. flags = {f \in {"on", "cursor", "blink"} :
                  [on |-> 4, cursor |-> 2, blink |-> 1][f] \in Board!Ones(v)}
    BY BoardBytes
<1>6. /\ Board!Clear = 1 /\ Board!Homes = {2, 3}
      /\ Board!Displays = 8 .. 15 /\ Board!Functions8Bit = 48 .. 63
    BY DEF Board!Clear, Board!Homes, Board!Displays, Board!Functions8Bit
<1> HIDE DEF flags, v
<1>7. lcd'.ddram = IF v = Board!Clear THEN [c \in DOMAIN lcd.ddram |-> 0] ELSE lcd.ddram
    BY <1>2, <1>3, <1>6
<1>8. lcd'.addressCounter =
          IF v \in {Board!Clear} \cup Board!Homes THEN 0 ELSE lcd.addressCounter
    BY <1>2, <1>4, <1>6
<1>9. /\ lcd'.display = IF v \in Board!Displays THEN flags ELSE lcd.display
      /\ lcd'.bits = IF v \in Board!Functions8Bit THEN 8 ELSE lcd.bits
      /\ lcd'.lines = IF v \in Board!Functions8Bit
                      THEN IF v >= 56 THEN 2 ELSE 1 ELSE lcd.lines
    BY <1>2, <1>6
<1>10. v = lcd.data /\ v \in Board!Understood
    BY DEF v
<1>11. Board!Instruct(v)
    BY <1>5, <1>7, <1>8, <1>9, <1>10 DEF Board!Instruct
<1> QED
    BY <1>10, <1>11, Zenon

(* A write to port A is the board's: the same operation, or none.                      *)
LEMMA PortAImplements ==
    ASSUME DisplayInv, NEW v \in Byte, DisciplinedA(v),
           WritePort("A", v, registers[DDR_A]),
           program' = [program EXCEPT !.ora = v, !.wroteA = TRUE, !.homed = @ \/ Homing(v)]
    PROVE  Board!WriteA
<1> DEFINE was == Board!Control(program.ora, registers[DDR_A])
           is  == Board!Control(program'.ora, registers'[DDR_A])
<1>1. UNCHANGED registers
    BY DEF WritePort
<1>2. program'.ora = v /\ program'.orb = program.orb
    BY DEF DisplayInv, ProgramTypeOK
<1>3. /\ Board!E \in was /\ Board!E \notin is /\ Board!RW \notin was <=> Commits(v)
      /\ Commits(v) => (Board!RS \in was <=> RS \in PinsA(v))
    BY <1>1, <1>2, BoardPulse
<1>4. Board!Display
    <2>1. CASE ~Commits(v)
        <3>1. /\ lcd'.ddram = lcd.ddram /\ lcd'.addressCounter = lcd.addressCounter
              /\ lcd'.display = lcd.display /\ lcd'.bits = lcd.bits /\ lcd'.lines = lcd.lines
            BY <2>1, OperationShows
        <3> QED
            BY <1>3, <2>1, <3>1 DEF Board!Display
    <2>2. CASE Commits(v) /\ RS \in PinsA(v)
        <3>1. /\ lcd'.ddram = [lcd.ddram EXCEPT ![lcd.addressCounter] = lcd.data]
              /\ lcd'.addressCounter = IF lcd.addressCounter + 1 = Size THEN 0
                                       ELSE lcd.addressCounter + 1
              /\ lcd'.display = lcd.display /\ lcd'.bits = lcd.bits /\ lcd'.lines = lcd.lines
            BY <2>2, OperationShows
        <3>2. lcd.data = Board!DataPins
            BY <2>2, DataOnCommit
        <3>3. Board!Character(Board!DataPins)
            BY <3>1, <3>2 DEF Board!Character
        <3> QED
            BY <1>3, <2>2, <3>3 DEF Board!Display
    <2>3. CASE Commits(v) /\ RS \notin PinsA(v)
        <3>1. /\ lcd'.ddram = Carried(lcd, lcd.data).ddram
              /\ lcd'.addressCounter = Carried(lcd, lcd.data).addressCounter
              /\ lcd'.display = Carried(lcd, lcd.data).display
              /\ lcd'.bits = Carried(lcd, lcd.data).bits
              /\ lcd'.lines = Carried(lcd, lcd.data).lines
            BY <2>3, OperationShows
        <3>2. lcd.data = Board!DataPins /\ lcd.data \in Board!Understood
            BY <2>3, DataOnCommit
        <3>3. Board!Instruct(lcd.data)
            BY <3>1, <3>2, CarriedInstructs
        <3> QED
            BY <1>3, <2>3, <3>2, <3>3 DEF Board!Display
    <2> QED
        BY <2>1, <2>2, <2>3
<1> QED
    BY <1>1, <1>2, <1>4, BoardBytes DEF Board!WriteA

(* As long as E stays where it is the board's display does nothing.                    *)
LEMMA DisplayQuiet ==
    ASSUME E \in PinsA(program.ora)' <=> E \in PinsA(program.ora),
           lcd'.ddram = lcd.ddram, lcd'.addressCounter = lcd.addressCounter,
           lcd'.display = lcd.display, lcd'.bits = lcd.bits, lcd'.lines = lcd.lines
    PROVE  Board!Display
<1> DEFINE was == Board!Control(program.ora, registers[DDR_A])
           is  == Board!Control(program'.ora, registers'[DDR_A])
<1>1. Board!E \in is <=> Board!E \in was
    BY DEF PinsA, E, Board!E
<1> QED
    BY <1>1 DEF Board!Display

(* A write to port B and one to a direction are the board's too.                       *)
LEMMA PortBImplements ==
    ASSUME DisplayInv, NEW v \in Byte,
           WritePort("B", v, registers[DDR_B]),
           program' = [program EXCEPT !.orb = v, !.wroteB = TRUE, !.maskB = registers[DDR_B]]
    PROVE  Board!WriteB
<1>1. UNCHANGED registers
    BY DEF WritePort
<1>2. program'.orb = v /\ program'.ora = program.ora
    BY DEF DisplayInv, ProgramTypeOK
<1>3. lcd' = [lcd EXCEPT !.data = BitAnd(v, registers[DDR_B])]
    BY PortBKeeps
<1>4. /\ lcd'.ddram = lcd.ddram /\ lcd'.addressCounter = lcd.addressCounter
      /\ lcd'.display = lcd.display /\ lcd'.bits = lcd.bits /\ lcd'.lines = lcd.lines
    BY <1>3 DEF DisplayInv, VIATypeOK, LCD
<1>5. E \in PinsA(program.ora)' <=> E \in PinsA(program.ora)
    BY <1>1, <1>2 DEF PinsA
<1>6. Board!Display
    BY <1>4, <1>5, DisplayQuiet
<1> QED
    BY <1>1, <1>2, <1>6, BoardBytes DEF Board!WriteB

(* A new direction is seen by the board at once, and changes nothing it acts on.       *)
LEMMA DirectionImplements ==
    ASSUME DisplayInv, NEW v \in Byte, NEW reg \in {DDR_A, DDR_B},
           registers' = [registers EXCEPT ![reg] = v], UNCHANGED <<lcd, program>>,
           reg = DDR_A => ~Has(program.ora, E)
    PROVE  Board!DirectA \/ Board!DirectB
<1>1. /\ registers'[reg] = v
      /\ \A other \in {DDR_A, DDR_B} \ {reg} : registers'[other] = registers[other]
      /\ E \in PinsA(program.ora)' <=> E \in PinsA(program.ora)
    BY DirectionKeeps
<1>2. Board!Display
    BY <1>1, DisplayQuiet
<1>3. DDR_A # DDR_B
    BY DEF DDR_A, DDR_B
<1> QED
    BY <1>1, <1>2, <1>3, BoardBytes DEF Board!DirectA, Board!DirectB

-----------------------------------------------------------------------------------
(* VIA and LCD start as the board may start.                                           *)
LEMMA ImplementsAtFirst ==
    ASSUME DisplayInit
    PROVE  Board!Init
<1>1. VIATypeOK /\ program = Unwritten
    BY InvAtFirst DEF DisplayInv, DisplayInit
<1>2. registers[DDR_A] \in Byte /\ registers[DDR_B] \in Byte
    BY <1>1, Directions
<1>3. lcd.addressCounter \in Byte /\ DOMAIN lcd.ddram = 0 .. Size - 1
    BY <1>1 DEF VIATypeOK, LCD, Cell
<1> QED
    BY <1>1, <1>2, <1>3, BoardBytes DEF Board!Init, Unwritten

(* Every step of a disciplined program is a step of the board's, or none.              *)
LEMMA StepImplements ==
    ASSUME DisplayInv, [DisplayNext]_boardVars
    PROVE  [Board!Next]_(Board!displayVars)
<1>1. CASE UNCHANGED boardVars
    BY <1>1 DEF boardVars, viaVars, Board!displayVars
<1>2. ASSUME NEW reg \in Register, NEW v \in Byte, DisplayWrite(reg, v)
      PROVE  [Board!Next]_(Board!displayVars)
    BY <1>1, <1>2, WriteCases, PortAImplements, PortBImplements, DirectionImplements
       DEF Board!Next
<1> QED
    BY <1>1, <1>2 DEF DisplayNext

(* The display shows what the program has sent. VIA and LCD, which keep no output       *)
(* register, do not pass a new direction on and power up with latches that hold        *)
(* anything, cannot be told from the breadboard by a program that keeps the discipline *)
(* (W65C22S::handleWrite, HD44780LCD::checkEnableToggled and handleWrite).             *)
THEOREM DisplayImplementsBoard == DisplaySpec => ImplementsBoard
<1>1. DisplayInit => Board!Init
    BY ImplementsAtFirst
<1>2. DisplayInv /\ [DisplayNext]_boardVars => [Board!Next]_(Board!displayVars)
    BY StepImplements
<1> QED
    BY <1>1, <1>2, DisplayInvariant, PTL DEF DisplaySpec, ImplementsBoard, Board!Spec
==================================================================================
