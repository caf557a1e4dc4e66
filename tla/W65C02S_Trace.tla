------------------------------ MODULE W65C02S_Trace ------------------------------
(***********************************************************************************)
(* The clocked CPU seen at its instruction boundaries: a history variable that      *)
(* records the architectural state whenever the cycle count is back at 0, and the    *)
(* instruction set the sequence of those states must follow.                        *)
(***********************************************************************************)
EXTENDS W65C02S

CONSTANT Waived     \* the differences from the instruction set that are tolerated

VARIABLE
    boundary    \* registers and SRAM at the last boundary

traceVars == <<vars, boundary>>

Architectural(c) ==
    [a |-> c.a, x |-> c.x, y |-> c.y, sp |-> c.sp, pc |-> c.pc, status |-> c.status]

Snapshot == [regs |-> Architectural(cpu), ram |-> sram]

(* Reset is complete and no instruction is under way. *)
AtBoundary == cpu.resetStage = 2 /\ cpu.cycle = 0

(* The state a program starts in: what reset() and the reset vector establish. *)
AfterReset ==
    [regs |-> [a |-> 0, x |-> 0, y |-> 0, sp |-> 255, status |-> 0,
               pc |-> Join(ByteAt(rom, RESET_VECTOR + 1), ByteAt(rom, RESET_VECTOR))],
     ram |-> Blank]

Record == boundary' = IF AtBoundary' THEN Snapshot' ELSE boundary

TraceInit ==
    /\ Init
    /\ boundary = AfterReset

TraceNext == Next /\ Record

TraceSpec == TraceInit /\ [][TraceNext]_traceVars

-----------------------------------------------------------------------------------
Machine ==
    INSTANCE ISA WITH regs <- boundary.regs, mem <- boundary.ram, image <- rom

(* From power-up on, the states at the instruction boundaries are the ones the         *)
(* instruction set allows, one instruction or interrupt entry at a time: whatever the   *)
(* handlers of W65C02S.cpp do in the cycles in between, on the bus and in the latches,  *)
(* adds up to the instruction, and touches nothing else.                               *)
ImplementsISA == Machine!Spec

(* The same of the steps alone, for runs that start at an arbitrary boundary.           *)
FollowsISA == Machine!Steps
==================================================================================
