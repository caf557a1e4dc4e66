# A TLA+ model of the 6502 Eater emulator

The emulator is a C++ program that runs a 6502 ROM image the way Ben Eater's breadboard
computer does: a CPU that works clock phase by clock phase, a bus, two memories, a VIA with an
LCD behind it, and an ACIA whose receiver is a thread of its own. This directory models each of
them and the machine they make up, and the clock class that `main` does without; checks the
models with TLC; and proves with TLAPS the invariants and four refinements: the clocked CPU
implements the instruction set, alone and in the whole machine; VIA and LCD implement the
breadboard; and the whole machine with one program in it, the echo loop of the monitor, is a terminal
that prints what is typed, in order, but for one byte it may find at power-up. Paths below are relative to the repository.

## 1. Inventory

| component | state | operations | hard behaviour | what makes it correct |
|---|---|---|---|---|
| CPU (`src/devices/W65C02S/W65C02S.cpp`) | registers, latches `_ir _adl _adh _add _interruptVector _interruptFromSW`, `_cycle`, `_started`, `_resetStage`, pins `_irq _nmi` | `onClockStateChange(LOW/HIGH)`, `reset`, `setIRQ`, `setNMI` | an instruction is spread over up to 14 phases, with the pins free to change between any two | the phases of an instruction add up to the instruction; interrupts are invisible to the program; the machine never gets stuck |
| opcode table (`opcodes.h`) | constant | lookup | opcodes with a handler and no row | every row does its instruction |
| bus (`core/bus.cpp`) | `_address`, `_data`, the slaves | set/get, `notifySlaves` | the address is driven in one phase and used in the next; a read without a slave sees old data | one slave at a time, no access outside an array |
| SRAM62256, EEPROM28C256 | `_memory` | `handleBusNotification` | | a byte read is the byte last written |
| W65C51N ACIA | `_status`, `_receiveData`, `_transmitData`, `_command`, `_control`, the thread | register reads and writes from the CPU's thread; the receiver's loop; destruction | two threads without a lock; `getchar` blocks; end of input | no character is forgotten; overruns are flagged; the destructor returns |
| W65C22S VIA | `_dataA/B`, `_ddrA/B`, timers' registers, connections | register reads and writes, `connect` | data registers are never written, a new direction is not passed on | the device sees what the pins of the real chip would show |
| HD44780 LCD, LCDAdapter | `_enable _rs _rw _data`, `_ddram`, `_addressCounter`, mode flags | control and data lines | falling edge of a latch with no initial value; uninitialised index | one operation per pulse, the one asked for; index in range |
| Clock (`core/clock.h`) | `_running`, `_state`, observers, thread | `start`, `stop`, destruction, `registerObserver`, `unregisterObserver`, the loop | stop then start; a stop from a callback; observers that come and go | phases alternate, one loop at a time, a stop is heard |
| CPUAdapter, `main.cpp` | | wiring, the clock loop | VIA port CB2 is wired to the IRQ pin | |
| ArduinoMega | log file | logs each transfer | | changes nothing |

Calls go one way: `main` drives the CPU, the CPU drives the bus, the bus calls every slave, the
VIA calls the adapter of the device on a port, and an adapter calls the LCD or the CPU's
`setIRQ`. The only concurrency inside the running program is the receiver thread of the ACIA;
`Clock`, which the tests and other users of the library have, adds a thread per start.
`main` never leaves its loop, so the ACIA's destructor runs only in other uses of the class.

`PROJECT.json` lists the hazards found while reading, each at its line, with the properties that
would catch it or the reason there is none.

## 2. Modules

| module | models |
|---|---|
| `Bytes` | `uint8_t`/`uint16_t` narrowing, single bits, the bitwise operators, the status flags |
| `Opcodes` | the opcode table, row by row |
| `Alu` | the `do...` members and `updateStatusFlags`: each maps a register file to the one it leaves |
| `Bus` | the latches, the chip selects, SRAM and EEPROM, `fetchByte` and `writeByte` |
| `W65C02S` | both phase handlers, all addressing modes, reset, IRQ, NMI, and main's clock loop |
| `ISA` | the abstract specification: what a programmer's manual says of one instruction or one interrupt entry |
| `W65C02S_Trace` | a history variable with the state at the last instruction boundary, and the refinement mapping to `ISA` |
| `W65C02S_Cycles` | the course of every addressing mode: what registers, latches, bus and SRAM hold in each cycle, in terms of the state at the last boundary |
| `W65C02S_Interrupts` | a history variable with what each handler under way interrupted and what it found, and the interrupt properties |
| `W65C51N` | the receiver: every access of either thread to `_status` and `_receiveData` is a step |
| `HD44780LCD` | the LCD and its adapter: a record with a field per member, an operator per member function |
| `W65C22S` | the VIA's registers and ports, with the LCD connected as `main` connects it |
| `Board` | the abstract specification of the two: the breadboard a program believes it drives |
| `W65C22S_Board` | disciplined programs, and the refinement mapping to `Board` |
| `System` | the whole machine: CPU, bus, memories, VIA, LCD, ACIA and its thread |
| `Programs` | the two programs of the composed machine, as bytes: `hello-world-final.s`, and of `wozmon.s` the start, the input loop and `ECHO` |
| `Terminal` | the abstract specification of the machine with the echo loop: keys, and characters that appear |
| `Clock` | `core/clock.h` with the thread that controls it and its observers |
| `Arithmetic` | the operations of `Alu` against integer arithmetic, with the operand counted up |
| `MC_Exec`, `MC_Interrupts`, `MC_LCD`, `MC_System` | scenarios and programs for TLC |
| `Bytes_proofs`, `Alu_proofs`, `W65C02S_proofs`, `W65C02S_Cycles_proofs`, `W65C02S_ISA_proofs`, `W65C22S_Board_proofs`, `Clock_proofs`, `System_proofs` | the theorems, section 5 |

**The CPU.** `cpu` is one record with a field per member; `edge` says which phase `main`
delivers next. `Phi2Low` and `Phi2High` are the two calls of `onClockStateChange`; in them one
operator stands for one handler of the source (`AbsoluteLow`, `IndirectIndexedHigh`, ...), its
disjuncts for the handler's cycles. What a HIGH handler does to the registers is passed to
`Step`, which also counts the cycle, as the end of `handlePhi2High` does. `SetIRQ` and `SetNMI`
may happen between any two phases, `ResetBetweenInstructions` whenever no instruction is under
way. The members the constructor does not set take any byte of `PowerUpBytes`.

**The bus.** A memory is the function of its bytes that are not 0. `ReadBytes` is the set of
bytes a read may return: that of the selected memory; any of `DeviceBytes` for a VIA or ACIA
register; and where no slave answers the byte the last transfer left in the data latch.

**The receiver.** `_status |= bit` is a load and a store, and so is the read of the data
register, `_status = _status & mask` followed by the load of `_receiveData`. A build that keeps a
loaded value instead of loading it again behaves like one of the interleavings of the separate
steps. The program's C++ has a data race here, so the order of a thread's accesses to the two
members is up to the build and the processor: the model lets them take effect in either order, within
one `readRegister` and within one round of the receiver's loop, but no later than that. The receiver's
store of the character (`rx.unstored`) may come at any point up to the next test of the stop token,
the program's load of it (`host.unread`) before or after the store of the cleared status.

A character can be forgotten that way: the program loads the old one, the new one is stored and
announced, and the program clears its bit; or the receiver announces a character, the program fetches
what is there and clears the bit, and then the character is stored. `slipped` is set by exactly these
stores, and the run `forgotten` shows the first, with a receiver that goes in order. `AsWritten` is the
order the code has the accesses in; the run `overrun` keeps to it, so that its finding owes nothing to
reordering.

Neither member is initialised. `_receiveData` powers up as `Leftover`, a byte nobody typed and so
different from every character and from `None`, and `PowerUpStatus` may have the full bit set.
`stray` records that the bit has stood for `Leftover`: at power-up, or because the program wrote
it or the receiver's stores put it there before the first character was stored.

**VIA and LCD.** A write to a VIA port is masked with the direction of its moment, handed to the
adapter and kept nowhere; a read returns a member nothing writes. The LCD acts when the enable
latch falls, with the RS and RW that arrive with the fall. `wild` is a history field that records
a store past the end of `_ddram`, of which the object itself keeps no trace.

**The clock.** The controlling thread's calls and the loops' bodies are cut where they touch
shared members: the exchange on `_running`, the start of the new thread (`Spawn`), the swap of the
handle and the request to the old one (`Assign`), its join, the load and the store of `_state`, the
lock taken shared around each round of callbacks. A callback may call `stop`. Two history
variables name the two races that are in the code: `overlapped`, a restart whose new loop began
beside the old one, and `raced`, an observer's `stop` beside a `start`.

**The system.** `System` takes the CPU's own HIGH phase and, in the cycle in which a load or a
store reaches its operand in device space, replaces "any of `DeviceBytes`" by what the device
returns, and hands the byte written to the device. A read of the ACIA's data register is three
accesses and the return, inside one HIGH phase, with the receiver thread free to run between
them. It covers programs that load and store at device registers with the absolute and the
pointer modes, which both programs of the runs are.

## 3. The abstract specifications

`ISA` says what each instruction does to registers and memory, in integer arithmetic and with
flags as sets, without clock, bus or latches. `ImplementsISA` states that the registers and SRAM
of the clocked machine, sampled whenever the cycle count is back at 0, behave as `ISA` allows.
`FollowsISA` states the same of the steps alone, for runs that start in an arbitrary state.
The operand of a memory instruction that lies in a device is any byte, and where no slave answers
the last byte transferred, to `ISA` as to the machine. JSR takes the high byte of its target after
it has pushed the return address, as the real chip does, which shows when its code is on the stack.

The emulator differs from that instruction set in these places. Each has a name, and the constant
`Waived` lists the ones a run tolerates; for a tolerated one only what it touches is left open.

| name | difference | where |
|---|---|---|
| `BVS` | BVS branches on V clear | `W65C02S.cpp:950` |
| `StickyCarry` | ASL and LSR never clear the carry (run `sticky_carry`) | `W65C02S.cpp:1535`, `1556` |
| `ShiftFlags` | shifts and rotates of memory take Z and N from the accumulator | `doASL` ... `doROR` |
| `NoOverflow` | ADC and SBC do not write V | `W65C02S.cpp:1462-1485` |
| `Decimal` | ADC and SBC are binary with D set | same |
| `PointerCarry` | `(zp),Y` loses the carry of low byte plus Y | `W65C02S.cpp:1404` |
| `PointerWrap` | a zero page pointer at 0xFF takes its high byte from 0x100 | `W65C02S.cpp:1312` |
| `JumpIndirect` | `JMP (xxFF)` takes its high byte from the same page when the page number is odd | `W65C02S.cpp:1266` |
| `CountZPX` | INC and DEC zp,X do nothing | `W65C02S.cpp:1160-1248` |
| `ReturnB` | RTI loads B | `W65C02S.cpp:493` |
| `InterruptB` | an interrupt may push B set (run `irq_pushes_b`) | `W65C02S.cpp:507` |
| `NMIMask` | an NMI leaves I alone | `W65C02S.cpp:548` |

Taking one of the first nine names out of `Waived` in `MC_Exec.cfg` makes `FollowsISA` fail with a
counterexample of one instruction, taking one of the others out of `MC_Interrupts.cfg` makes
`ImplementsISA` fail; `sticky_carry` is one such run. Timing is not part of `ISA`: every branch takes
four cycles whether or not it is taken (`opcodes.h:387-394`).

`Board` is the breadboard: the VIA keeps what is written to a port, the pins are the kept bits
whose direction is out and follow a change of either at once, and the display carries out, when
E falls, the operation that RS, RW and the data pins had been asking for. `ImplementsBoard` states
that VIA and LCD behave so. They do for programs that are `Disciplined`, which says what a program
has to observe so that the emulator's shortcuts do not show:

- the first write to port A raises E or RW, since the enable latch may power up raised;
- E falls with RS and RW as they were during the pulse;
- a byte that is sent is put on port B after the direction of port B was last set;
- it is an instruction the emulator implements, or a character, and the latter only once an
  instruction has set the address counter;
- the direction of port A is set while the E bit last written is low.

Each clause is needed: without it `ImplementsBoard`, and for the address counter `StoresInside`,
fails in the run `lcd`. The exception is `program.wroteB`, which the others imply (before a write to
port B the data pins are 0, which no operation is); it is stated because the proof uses it. `KeepsDiscipline`, in the run `system`, shows that `hello-world-final.s` observes
all of them.

**`Terminal`**: what the user of the echo loop sees. A key is hit, or a character that has been hit
appears, later than the last one in the order of the keys. The mapping, in `Programs`, takes
`latches.transmit`, which is `None` before the first store to it, for the character on the screen;
every other step of either thread, each phase of each instruction, is a stutter, but for those that set
`stray` (`Announce`). The terminal may skip a character (the receiver overwrites one the loop has not
fetched) and print one again (section 7); it may not print one before it was typed, nor go back to an
earlier one, and the receiver writing `_receiveData` under the CPU's read does not make it. One thing
appears that was not typed: `AppearStray`, the byte `_receiveData` powered up with, which the loop
prints when `_status` powers up with bit 3 set: `wozmon.s:49` takes the bit for a key, and nothing
initialises it. The abstract terminal allows it only after the bit has stood for it, and before any
other character; without `AppearStray` the run `system` fails. That the last one
typed does appear is `AllPrinted` and `Echoed`.

## 4. Runs

| run | question | bounds |
|---|---|---|
| `exec` | are ADC, SBC, CMP, the rotates and the bitwise operations exact; does every row of the opcode table do its instruction, and is it on its course in every cycle? | operations: every accumulator and operand, all flags clear or all set; rows: 3 operands (a fourth in a device for the memory instructions, at a page's end for JMP) x 3 index settings x 4 accumulator and flag settings x 3 memory fillings, one instruction |
| `interrupts` | do sequences of instructions, interrupts and resets add up, wherever the pins change, and do the handlers keep the promise that transparency rests on? | 4 programs, 4 pin changes of which a reset uses up two, handlers nested 2 deep (`Bounded`); a listed and an unlisted byte in `_ir` at power-up |
| `live` | does the CPU keep going, and is an asserted IRQ taken? | one program, unbounded pin changes, no NMI |
| `acia` | is a character ever forgotten that did not slip by, and does the destructor return? | 3 characters, any program, any order of the accesses, any status at power-up |
| `system` | do the parts work together: is what is typed printed, in order, and the message shown? | 2 programs, 2 characters, any order of the accesses, the full bit set or clear at power-up, the delay of `ECHO` one round |
| `lcd` | do VIA and LCD look like the breadboard to a disciplined program? | 2 cells, 6 control bytes, 4 data bytes, 2 directions, 4 states of the LCD and 2 of the VIA at power-up; programs of any length |
| `clock` | is there one loop, do phases alternate, does a stop reach it? | 3 starts, 3 moves of 2 observers; stops, callbacks and rounds without bound |
| `sticky_carry`, `irq_pushes_b`, `unlisted_opcode`, `overrun` | violations: the findings in `PROJECT.json` | |
| `forgotten` | violation of `KeyReady`: a clear full bit does not mean that no key is waiting | 2 characters, the program of `wozmon.s`, only its load and store out of order |

*Why the bounds are enough.* In `exec` the operands lie inside a page, at its end, and at the end
of the address space; the registers include 0, a small value and the end of the range; and every
cell that a right or a wrong address computation could reach holds a byte of its own, so a wrong
cell shows in the result. Instructions influence one another only through the registers, the
memory and the latches, and `interrupts` runs sequences of them from power-up. Four pin changes
cover both edges of both pins, or two pulses of one, at any two phases, or a pulse before, after
or around a reset; two levels of nesting cover an interrupt in a handler, and one in the entry of
another. The programs use the stack, a subroutine, BRK beside IRQ, handlers that return at once,
and an unlisted opcode. In `acia` three characters are one that is read, one that races with the
read, and one that overruns; `system` needs two, since its program is fixed and reads before it
prints. `system` runs each program from its reset vector to its final loop; `ECHO`'s delay loop does
nothing but count, and one round of it is enough to have it in the way. In `lcd` two cells are
the fewest that wrap, and power-up puts the address counter inside and outside them; the bytes are
those with each combination of E, RW and RS that a pulse goes through, and an instruction of
each kind. In `clock` three starts are needed for a restart of a restarted clock, with a loop that
lives on; two observers and three moves for one that leaves while the vector is walked, and one that
is registered twice.

Deadlock is checked wherever a clock runs without limit. It is off in the ACIA's runs, where the threads come to rest when nobody types; and in
`clock`, where a stopped or destroyed clock with no starts left has nothing more to do.

*Fairness.* `WF_vars(Clock)` in `live`: `main`'s loop calls the two phases for ever and no handler
blocks. `Scheduled`, in `system`, says the same of the composed machine, whose steps are phases or accesses of a
data register read, and adds `WF_aciaVars(Receiver)`. In `W65C51N`, `WF_vars(Receiver)` and
`WF_vars(FinishRead)`: both threads are scheduled by the operating system, and a register read that
has begun runs to its end. In `Clock`, `WF(Loop(l))` for every loop and `WF(Continue)` for what the
controlling thread has begun: threads are scheduled and sleeps end. Nothing is assumed of typing,
closing the input, destroying, starting, stopping, moving an observer, or of a pin; so
`DestructorReturns` asks for a key or the end of the input first, `Echoed` asks that the character
has come in, and `Ticks` that the clock is left running.

Each property has a mutant in `PROJECT.json`: a plausible slip in the code (an operator beside the
right one, marked "A slip the runs must notice") with which TLC finds the property violated.

## 5. Proofs

All are for every value of the constants; `OpcodeMapAssumption` asks of an opcode table that it has
BRK with seven cycles, the modes of the enum and 2 to 7 cycles per row, and `RowsAssumption` that
each row is one its mode's handler can carry out in the cycles it has. TLC evaluates both for the
table of the source. The theorems about courses and the instruction set have a hypothesis about the
program, `[]CodeInMemory`: opcodes, operands, pointers and the stack are read from SRAM and EEPROM,
never from a device register or where no slave answers, since the next instruction would then be up
to the device; the operands themselves may lie anywhere. The runs `exec` and `interrupts` have such
programs, and `exec` checks it. `StaysInMemory` derives it from a hypothesis that speaks of the
program alone, `[]StaysInside`, and the echo theorems need neither.

- `Bytes_proofs`: types of the byte operators.
- `Alu_proofs`: the four properties of `Arithmetic`, for every status byte, where the run `exec` has two
  of the 256. `BitwiseIsExact` rests on `ByteOfOnes`, a byte is the sum of its bits, and on weighing the
  sets of bits mask by mask.
- `W65C02S_proofs`: `TypeCorrect`, `Sequenced`, `CountsWithinInstruction`, `FetchAddress`,
  `FrameUnmasked` and, for the action property, `HangsForGood`; with pins that move and resets
  between instructions. The inductive invariant is the
  conjunction of the five. No one of them is inductive alone: the type of `_cycle` needs
  `CycleInRange`, since a count past its end would grow for ever; that in turn needs `Sequencing`,
  which says that `_ir` is not replaced in mid-instruction; `FetchesAtPC` needs it too, as the first
  phase after power-up may leave the address alone; and `IRQFrameUnmasked` needs to know that the
  BRK sequence, and no other, is what runs while the frame is pushed. The lemma behind all of it is
  `HighAdvances`: a HIGH handler changes neither `_ir` nor the cycle counter nor the interrupt
  latches, and does one well-typed transfer; it is shown handler by handler. Of the bus,
  `ChipSelectsExclusive`: no address selects two slaves; and `MemoriesDecodeTheirRange`: the
  memories are selected exactly where their arrays reach, so no index is out of bounds.
- `W65C02S_Cycles_proofs`: `InstructionsKeepCourse`, that `OnCourse` holds at every phase. The
  phase handlers share six latches, and what one cycle leaves in them another uses; only an
  invariant that says, for each addressing mode and cycle, what all of them hold can carry an
  instruction to its end. The inductive invariant is `TraceInv`: the CPU's invariant `Inv`, the
  type of the history variable, and `OnCourse`. It is shown mode by mode and cycle by cycle, LOW
  phase and HIGH phase apart; a pin that moves is not seen before
  the instruction's end.
  `StaysInMemory` and `ContainedProgram` turn the hypothesis about the bus into one about the program.
  `StaysInside` says of each instruction, at the boundary it starts from, that its bytes, the bytes
  looked at behind it, its branch target and its pointer lie in the memories, and that some slave
  decodes the operand. From it follow `CodeInMemory` and, in the whole machine, `Answered`: no phase
  reads a stale data latch, even though the handlers look a byte ahead, drive the address of an indexed
  operand twice, and hold addresses they do not use. The strengthening is `BusInv`: what the address
  latch holds (`OnTheBus`), and that the second drive of an indexed address still sees the index and
  the latches of the first (`DrivenTwice`). Two instructions had to be kept out of the opcode tables
  the theorems are about, `LDX` with the mode ABSX and `LDY` with ABSY, which no table of a 6502
  has: they would change their index in between.
- `W65C02S_ISA_proofs`: `ClockedImplementsISA`, the refinement of the instruction set from
  power-up, and `AnyBoundaryFollowsISA`, the same from any state between two instructions. The last
  cycle of each course is compared with what `ISA` says of the instruction; all other steps stutter.
  `Machine!Differences \subseteq Waived` says that all twelve named differences are tolerated, which
  they must be, as the runs show; the rest of each instruction is exact. `HandlersAreTransparent`
  adds the interrupts, nested to any depth, where the run has two. The run's property
  `HandlersGiveBack` is its hypothesis: a handler comes to its RTI with registers, stack pointer and
  stack as it found them, and there is room for the frame. That is the program's part; the CPU's is
  the invariant `FramesInv`, that what each handler found is the interrupted program's state with
  the frame on top (`HandedOver`), so that pulling the frame restores it.
- `System_proofs`, the receiver: `NothingIsForgotten`, for any number of characters, any status at
  power-up and any order of a thread's accesses. The two threads' read-modify-writes do overwrite one
  another, so the full bit says nothing by itself. The invariant `Remembered` says where the fact that
  there is an unread character can be: it is yet to be stored, the receiver is on its way to set the
  bit, the bit is set, the program has still to load the character, it has slipped by, or there is
  none. `InOrder` ties the two members together: a character is stored before the next one is waited
  for, and while the program, having loaded a character, is yet to clear its bit, no other came in its
  place but one that slipped by. That `slipped` is no excuse too many shows in the definition: it speaks
  of the moment of a single store, the character stored next sets it anew, and in the order of the
  code (`AsWritten`) it never becomes true: `WrittenForgetsNothing` proves that, and with it `KeyReady`,
  the property the run `forgotten` violates.
- `W65C22S_Board_proofs`: `DisplayImplementsBoard`, the refinement, and `StoresStayInside` and
  `VIATypes`, for every size of the display memory the counter can reach and all power-up values.
  The invariant `LatchesFollow` relates what the program remembers of its own writes to the members
  they ended up in: the enable latch is the E pin once port A has been written, the data latch holds
  what port B put out, and the counter is in the memory once an instruction has set it. From it
  `OperatesOnCommit` follows, that the emulator's LCD acts exactly on the pulses the board's does; what
  it then does is shown instruction by instruction (`InstructedKeeps`, `CarriedInstructs`).
- `System_proofs`, the whole machine: each part's invariant survives the composition, for every
  program. `SystemKeepsCPU` (a device's answer is one of the `DeviceBytes` the CPU's proof allows for),
  `SystemForgetsNothing` (the accesses of the CPU are those of the ACIA's environment),
  `SystemImplementsISA`. `DisciplinedProgram` says that a program in the EEPROM whose stores are
  disciplined is a behaviour of `W65C22S_Board`, and `SystemDrivesDisplay` concludes that VIA and LCD
  implement the breadboard under it; that `hello-world-final.s` is such a program is checked by the
  run `system` (`KeepsDiscipline`).
- `System_proofs`, the echo loop: what the theorems above say of every program is put to work on a
  real one. `Echoing` is the whole machine, with either thread at any speed, with `Polling` in the
  EEPROM, for any byte as delay and as many characters as a byte can number (the model's characters
  are their numbers, and a load takes a byte). `EchoStaysInside`, `EchoPollsFirst` (with
  `KeepsDiscipline`: it never writes to the VIA), `EchoPrintsAll`, `EchoImplementsTerminal` and `EchoImplementsISA` have no
  hypothesis about the program left, nor about the order of the accesses. The inductive invariant is
  `EchoInv`. Its core, `EchoAt`, has a line for each of the 18 places the program counter can be at
  between two instructions, with the stack pointer, the return address in SRAM, and where the
  character is: still polled for, in A, or in the transmit register; and, since the flag A and then Z
  carry from the poll to the branch is the only thing that tells the program whether it may read, that
  this flag and the thread's place in `readRegister` agree. `EchoInv` states it of the last boundary, and
  takes from `OnCourse` what happens in the cycles up to the next: so each instruction is a single
  step of the argument (`EchoMoves`: what it does to registers and stack; `Effect`: what to the ACIA;
  `EchoArrives`: the two lead from one place to the next), while the read of the data register, whose
  accesses the receiver thread may come between, is followed access by access (`EchoReads`).
  `EchoPrintsAll` then joins two facts from opposite ends: the printed character is the one taken
  (`EchoAt`), and with the threads at rest the one taken is the last that came in (`ACIAInv`).
  `EchoImplementsTerminal` holds at every step, with the threads anywhere, and rests on `InTyping`, which
  says that each place a character passes, from the keyboard to the transmit register, is no further
  on than the one before it, and on `StrayKnown`: as long as `_receiveData` is as it powered up, the
  bit, a status the receiver has loaded, a poll that succeeded or a read under way can only be there
  if `stray` says so.
- `Clock_proofs`: every safety property of the run `clock`, for any set of observers and any number
  of starts and moves. `HandleInv` says which loops can live at each place of the controlling thread;
  `AtMostOneLoop` follows. `StopInv` adds to it that, unless `raced`, a callback's stop and a start keep
  out of each other's way, so a request always reaches the only live loop. `AltInv` ties the phase a
  loop works with to `_state` and to the last announcement, while it is alone.

The assumption `EchoOpcodes` lists the 13 rows of the opcode table the loop uses, `DelayAssumption`
makes the delay a byte; TLC evaluates both in the run `system`. The theorems about the composed machine
use `TracedSystem`, which is `SystemSpec` with the history of the instruction boundaries and without
its fairness, which safety has no use for.

Only model-checked. Of `hello-world-final.s` the run `system` shows `Answered` and `KeepsDiscipline`,
and of the programs of `interrupts` that run shows `HandlersGiveBack`: facts about particular programs, each of
which would need an invariant like `EchoAt` of its own. They are the hypotheses of the theorems
above where these have any, so that TLC decides of a program what the proofs then use. `HelloShown`,
`Echoed`, `Progress`, `IRQServed`, `DestructorReturns`, `Ticks` and `StopHonoured` are liveness, which is
outside the prover's reach.

## 6. Not modelled

- `reset()` in the middle of an instruction. It leaves `_cycle` and `_ir` as they are, so that the
  reset sequence and the old instruction run at the same time. `main` calls it before the first phase and
  the tests between instructions; nothing says what it should do elsewhere.
- A callback of `Clock` that moves an observer or starts the clock: it waits for the lock its own
  loop holds, or joins the thread it runs in, and never returns. Whether a thread that waits to move
  an observer ever gets the lock from a loop that does not sleep is up to the lock. Time itself.
- Accesses of one thread that take effect later than the `readRegister` or the round of the receiver's
  loop they belong to; the calls in between (the bus, the stream, `getchar`) are taken to order them.
- Read-modify-write instructions on device registers and code in device space, in `System`: neither
  test program has them. To the CPU alone (`W65C02S`) a device register reads as any byte, so the
  proofs cover both.
- The interrupt sources: no device asserts IRQ or NMI. The VIA keeps no interrupt state and the ACIA's
  receiver does not signal, so the pins of `System` never move; in `W65C02S` they move freely.
- What is printed: the LCD's `update` prints the display memory, the ACIA prints `_transmitData`. The
  terminal's settings, logging, the ArduinoMega monitor, reading the ROM file.
- The cycle counts of the real chip: the table's counts are used as they are.

## 7. Plan

Done: the CPU with its abstract instruction set, bus and memories; the ACIA's receiver; VIA and LCD
with the abstract board; the composed machine; the clock; resets between instructions; the refinement of
the instruction set and of the board, alone and composed; the transparency of interrupts; the
echo loop on the composed machine, proved; the theorems above.

Left, in the order of what it would add: an invariant of the same kind for `hello-world-final.s`,
from which `SystemDrivesDisplay` would follow for it without the run; the character read
twice (a bit set late by the receiver), for which the repository states no expectation; and
`wozmon.s` as a whole, whose line editor and hexadecimal parser `Programs` leaves out.
