--------------------------------- MODULE MC_Exec ---------------------------------
(***********************************************************************************)
(* One instruction at a time: from every scenario below, the instruction at the     *)
(* program counter is run to its end. A scenario fixes the opcode, its operand      *)
(* bytes and the registers; the memory cells the instruction could conceivably      *)
(* touch, by a right or by a wrong address computation, hold distinct bytes, so     *)
(* that a read or a write of the wrong cell shows.                                  *)
(*                                                                                  *)
(* Of the instructions that compute, a few operands are not enough: before a NOP    *)
(* the operators behind them are applied to every pair of bytes.                    *)
(***********************************************************************************)
EXTENDS W65C02S_Cycles, Arithmetic, FiniteSets, Sequences, TLC

CONSTANT TestOps    \* the mnemonics under test; {} stands for all of the table

VARIABLE ran        \* the instruction has begun

MCOpcodeMap == OpcodeTable

Start == 32768      \* where the instruction lies, 0x8000

TestOpcodes == {b \in DOMAIN OpcodeTable : TestOps = {} \/ OpcodeTable[b].op \in TestOps}

(* Operand bytes: inside a page; at its end; an EEPROM address that, indexed, wraps    *)
(* around the address space; for the memory instructions, the address of a device; and *)
(* for JMP, a pointer at the end of an even page beside the one of an odd page.        *)
Operands(op) ==
    {<<16, 2>>, <<255, 3>>, <<254, 255>>}
        \cup (IF op \in MemoryOps THEN {<<16, 96>>} ELSE {})
        \cup (IF op = "JMP" THEN {<<255, 2>>} ELSE {})

(* Index registers and stack pointer: none, small, and at the end of their range.      *)
Indices == {[x |-> 0, y |-> 0, sp |-> 255],
            [x |-> 2, y |-> 3, sp |-> 0],
            [x |-> 255, y |-> 254, sp |-> 128]}

(* Accumulator and status byte: all flags but D clear, set, and mixed.                 *)
Files == {[a |-> 0, status |-> 0], [a |-> 129, status |-> 247],
          [a |-> 127, status |-> 194], [a |-> 37, status |-> 8]}

(* Three fillings of the memory, one of them all zero.                                 *)
Fillings == {0, 1, 2}

(* The byte of the cell a: spread over the byte range, never a page of the address     *)
(* space without memory (0x40 to 0x7F).                                                *)
Content(f, a) ==
    LET h == (37 * a + 11 * (a \div 256) + 101 * f) % 256
    IN  IF f = 0 THEN 0 ELSE IF h \in 64 .. 127 THEN h + 128 ELSE h

Near(a, r) == {a, a + 1, a + r.x, a + r.x + 1, a + r.y, a + r.y + 1}

InPage(S) == S \cup {U8(c) : c \in S}

(* The cells a scenario gives a byte: around the operand as a zero page address and as  *)
(* an absolute one, around what they point at, and the top of the stack.               *)
Cells(ops, r, f) ==
    LET zero == InPage(Near(ops[1], r))
        word == Near(Join(ops[2], ops[1]), r) \cup {Join(ops[2], 0), Join(ops[2], 0) + 256}
        points == UNION {Near(Join(Content(f, z + 1), Content(f, z)), r)
                           \cup {Join(Content(f, z + 1), U8(Content(f, z) + r.y)),
                                 Join(Content(f, U8(z + 1)), Content(f, z))} : z \in zero}
        stack == {256 + U8(r.sp + n) : n \in 0 .. 4}
    IN  {U16(c) : c \in zero \cup word \cup points \cup stack}

Image(b, ops, r, f) ==
    LET code == (Start :> b) @@ (Start + 1 :> ops[1]) @@ (Start + 2 :> ops[2])
        cells == {c \in Cells(ops, r, f) : c >= 32768}
    IN  code @@ [c \in cells |-> Content(f, c)]

Ram(ops, r, f) == [c \in {c \in Cells(ops, r, f) : c < 16384} |-> Content(f, c)]

Begun(r, file) ==
    [Reset(PoweredUp(BRK, 0)) EXCEPT
        !.a = file.a, !.status = file.status, !.x = r.x, !.y = r.y, !.sp = r.sp,
        !.pc = Start, !.resetStage = 2, !.started = TRUE]

Scenario(b, ops, r, file, f) ==
    /\ cpu = Begun(r, file)
    /\ rom = Image(b, ops, r, f)
    /\ sram = Ram(ops, r, f)

NOP == \hEA

Computed == inputs = [a |-> 0, status |-> 0] /\ operand = 255

ExecInit ==
    /\ \/ /\ \E b \in TestOpcodes, r \in Indices, file \in Files, f \in Fillings :
             \E ops \in Operands(OpcodeTable[b].op) : Scenario(b, ops, r, file, f)
          /\ Computed
       \/ /\ TestOps = {}
          /\ \E r \in {s \in Indices : s.x = 0}, file \in {g \in Files : g.a = 0} :
                Scenario(NOP, <<16, 2>>, r, file, 0)
          /\ OperandsInit
    /\ address = 0
    /\ data = 0
    /\ irq = "HIGH"
    /\ nmi = "HIGH"
    /\ edge = "LOW"
    /\ boundary = Snapshot
    /\ ran = FALSE

Compute == NextOperand /\ UNCHANGED <<traceVars, ran>>

ExecNext ==
    \/ Compute
    \/ /\ operand = 255
       /\ Clock /\ Record
       /\ ran' = (ran \/ cpu'.cycle > 0)
       /\ UNCHANGED <<inputs, operand>>

ExecSpec == ExecInit /\ [][ExecNext]_<<traceVars, ran, inputs, operand>>

(* The scenario ends with the instruction.                                            *)
OneInstruction == ~(AtBoundary /\ ran /\ edge = "HIGH")

NoImages == {}
==================================================================================
