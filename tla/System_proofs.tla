------------------------------- MODULE System_proofs -------------------------------
(***********************************************************************************)
(* The ACIA's receiver, and the machine as a whole: what is proved of the CPU, of    *)
(* VIA and display and of the ACIA by themselves holds of main.cpp's machine, whatever *)
(* program is in the EEPROM. The CPU, whose device reads return what the devices hold *)
(* instead of any byte, takes no step it does not take alone; the ACIA sees the       *)
(* accesses of a program; and a program that keeps the discipline drives the display. *)
(* Then one program in full: the start and the echo loop of wozmon.s on this machine.  *)
(***********************************************************************************)
EXTENDS System, Programs, W65C02S_ISA_proofs, W65C22S_Board_proofs

-----------------------------------------------------------------------------------
(* The receiver, for any number of characters, whatever the status register holds at    *)
(* power-up, and in whatever order the accesses of a thread to the two members take      *)
(* effect: no character is forgotten, unless it slipped by.                             *)
(*                                                                                     *)
(* The read-modify-writes of the two threads may overwrite one another, so that the    *)
(* full bit alone says nothing. The invariant names the places the fact "there is an    *)
(* unread character" can be in: it is yet to be stored, the receiver is on its way to   *)
(* set the full bit, the bit is set, the program is on its way to load the character,   *)
(* it has slipped by, or there is none.                                                *)
Announcing == rx.at \in {"test", "overrun", "overrun_store", "full", "full_store"}

Remembered ==
    \/ CaughtUp
    \/ slipped
    \/ rx.unstored
    \/ Announcing
    \/ RDRF \in status
    \/ host.unread

(* A character is stored before the next one is waited for, and while the program is    *)
(* yet to clear the bit of a character it has loaded, no other came in its place.      *)
InOrder ==
    /\ rx.unstored => Announcing \/ rx.at = "loop"
    /\ ~rx.unstored => receiveData = received
    /\ host.unread => host.at \in {"clear", "cleared"}
    /\ host.at = "clear" /\ ~host.unread /\ ~rx.unstored /\ ~slipped => CaughtUp

ACIAInv == ACIATypeOK /\ InOrder /\ Remembered

-----------------------------------------------------------------------------------
(* Counting a character stays within the bound while it is below one that does.        *)
LEMMA CountsOn ==
    ASSUME NEW n \in Number, NEW k \in Number, n < k \/ n < MaxTyped
    PROVE  n + 1 \in Number
BY MaxTypedAssumption DEF Number

(* Every step of the terminal, the receiver and the CPU's thread keeps the types.      *)
LEMMA TypesKept == ACIATypeOK /\ [ACIANext]_aciaVars => ACIATypeOK'
<1> SUFFICES ASSUME ACIATypeOK, [ACIANext]_aciaVars PROVE ACIATypeOK'
    OBVIOUS
<1> USE DEF ACIATypeOK
<1>1. CASE Type \/ Close
    <2>1. Type => typed + 1 \in Number
        BY CountsOn DEF Type
    <2>2. CASE Type
        BY <2>1, <2>2 DEF Type
    <2>3. CASE Close
        BY <2>3 DEF Close
    <2> QED
        BY <1>1, <2>2, <2>3
<1>2. CASE TestStop \/ GetEOF
    BY <1>2 DEF TestStop, GetEOF
<1>3. CASE GetChar
    <2>1. received + 1 \in Number
        BY <1>3, CountsOn DEF GetChar
    <2> QED
        BY <1>3, <2>1 DEF GetChar
<1>4. CASE StoreCharacter
    <2>1. overwrote' = (Leftover < receiveData /\ taken < receiveData) /\ slipped' = TooLate
        BY <1>4 DEF StoreCharacter
    <2>2. (Leftover < receiveData /\ taken < receiveData) \in BOOLEAN /\ TooLate \in BOOLEAN
        BY Zenon DEF TooLate
    <2> QED
        BY <1>4, <2>1, <2>2 DEF StoreCharacter
<1>5. CASE TestFull
    BY <1>5 DEF TestFull, StatusAccess
<1>6. CASE LoadStatus
    BY <1>6 DEF LoadStatus, StatusAccess
<1>7. CASE SetOverrun \/ SetFull
    <2>1. {OVRN} \in SUBSET Flags /\ {RDRF} \in SUBSET Flags
        BY DEF Flags
    <2>2. (flagged \/ OVRN \in rx.seen) \in BOOLEAN /\ (stray \/ receiveData = Leftover) \in BOOLEAN
        BY Zenon
    <2> QED
        BY <1>7, <2>1, <2>2 DEF SetOverrun, SetFull, StatusAccess
<1>8. CASE PollStatus \/ ReadData
    <2>1. CASE PollStatus
        BY <2>1 DEF PollStatus
    <2>2. CASE ReadData
        <3>1. host' = [at |-> "clear", seen |-> status, unread |-> TRUE]
            BY <2>2 DEF ReadData, ReadDataAfter
        <3>2. host' \in [at : {"idle", "polled", "clear", "cleared"},
                         seen : SUBSET Flags, unread : BOOLEAN]
            BY <3>1
        <3> QED
            BY <2>2, <3>2 DEF ReadData, ReadDataAfter
    <2> QED
        BY <1>8, <2>1, <2>2
<1>9. CASE ClearStatus \/ TakeCharacter \/ ReturnData
    BY <1>9 DEF ClearStatus, TakeCharacter, ReturnData
<1>10. CASE WriteStatus \/ Destroy
    <2>1. CASE WriteStatus
        <3>1. PICK new \in SUBSET Flags :
                  /\ status' = new
                  /\ taken' = IF RDRF \in new THEN taken ELSE receiveData
                  /\ stray' = (stray \/ (RDRF \in new /\ receiveData = Leftover))
            BY <2>1 DEF WriteStatus
        <3>2. (stray \/ (RDRF \in new /\ receiveData = Leftover)) \in BOOLEAN
            BY Zenon
        <3>3. taken' \in Number \cup {None}
            BY <3>1
        <3> QED
            BY <2>1, <3>1, <3>2, <3>3 DEF WriteStatus
    <2>2. CASE Destroy
        BY <2>2 DEF Destroy
    <2> QED
        BY <1>10, <2>1, <2>2
<1>11. CASE UNCHANGED aciaVars
    BY <1>11 DEF aciaVars
<1> QED
    BY <1>1, <1>2, <1>3, <1>4, <1>5, <1>6, <1>7, <1>8, <1>9, <1>10, <1>11 DEF ACIANext

(* Every step keeps the character remembered in one of its places.                     *)
LEMMA RememberedKept ==
    ASSUME ACIAInv, [ACIANext]_aciaVars
    PROVE  InOrder' /\ Remembered'
<1> USE DEF ACIAInv, ACIATypeOK, InOrder, Remembered, Announcing, CaughtUp
<1>1. CASE Type \/ Close \/ Destroy
    BY <1>1 DEF Type, Close, Destroy
<1>2. CASE TestStop \/ GetEOF
    BY <1>2 DEF TestStop, GetEOF
<1>3. CASE GetChar
    BY <1>3 DEF GetChar
<1>4. CASE StoreCharacter
    BY <1>4 DEF StoreCharacter, TooLate
<1>5. CASE TestFull
    BY <1>5 DEF TestFull, StatusAccess
<1>6. CASE LoadStatus
    BY <1>6 DEF LoadStatus, StatusAccess
<1>7. CASE SetOverrun
    BY <1>7 DEF SetOverrun, StatusAccess
<1>8. CASE SetFull
    BY <1>8 DEF SetFull, StatusAccess
<1>9. CASE PollStatus
    BY <1>9 DEF PollStatus
<1>10. CASE ReadData
    BY <1>10 DEF ReadData, ReadDataAfter
<1>11. CASE ClearStatus
    BY <1>11 DEF ClearStatus
<1>12. CASE TakeCharacter
    BY <1>12 DEF TakeCharacter
<1>13. CASE ReturnData
    BY <1>13 DEF ReturnData
<1>14. CASE WriteStatus
    BY <1>14 DEF WriteStatus
<1>15. CASE UNCHANGED aciaVars
    BY <1>15 DEF aciaVars
<1> QED
    BY <1>1, <1>2, <1>3, <1>4, <1>5, <1>6, <1>7, <1>8, <1>9, <1>10, <1>11, <1>12,
       <1>13, <1>14, <1>15 DEF ACIANext

(* The receiver and the CPU's thread start at rest, with nothing typed.                *)
LEMMA ACIAInvInit == ACIAInit => ACIAInv
<1> SUFFICES ASSUME ACIAInit PROVE ACIAInv
    OBVIOUS
<1>1. Leftover \in Number /\ 0 \in Number
    BY MaxTypedAssumption DEF Number, Leftover
<1>2. status \in SUBSET Flags
    BY PowerUpStatusAssumption DEF ACIAInit
<1>3. ACIATypeOK
    BY <1>1, <1>2 DEF ACIAInit, ACIATypeOK
<1> QED
    BY <1>3 DEF ACIAInit, ACIAInv, InOrder, Remembered, CaughtUp, Leftover

(* Whichever accesses a program makes, a step of the two threads keeps the invariant.   *)
LEMMA ACIAInvNext == ACIAInv /\ [ACIANext]_aciaVars => ACIAInv'
BY TypesKept, RememberedKept DEF ACIAInv

(* What the receiver's invariant is for.                                              *)
LEMMA ACIAInvMeans == ACIAInv => ACIATypeOK /\ NothingForgotten
BY DEF ACIAInv, ACIATypeOK, InOrder, Remembered, Announcing, NothingForgotten, Quiet

(* Every access finds well-typed registers, in whatever order the accesses take effect. *)
THEOREM ReceiverTypes == ACIASpec => []ACIATypeOK
<1>1. ACIAInit => ACIATypeOK
    BY ACIAInvInit, ACIAInvMeans
<1> QED
    BY <1>1, TypesKept, PTL DEF ACIASpec

(* Whatever the interleaving of the receiver's loop, readRegister and handleWrite, and  *)
(* whatever order the accesses of a thread take effect in: when both threads rest and   *)
(* the full bit is clear, the program has had the last character. The one exception is  *)
(* a character that slipped by: stored between the program's load and its clearing of    *)
(* the bit, or after the bit that stands for it was cleared.                            *)
THEOREM NothingIsForgotten == ACIASpec => []NothingForgotten
BY ACIAInvInit, ACIAInvNext, ACIAInvMeans, PTL DEF ACIASpec

(* In the order the code is written in, no character slips by, so that none is forgotten *)
(* under a program that polls: a clear full bit does mean that no key is waiting.        *)
THEOREM WrittenForgetsNothing == WrittenSpec => [](~slipped /\ KeyReady)
<1> DEFINE Slipless == AsWritten /\ ~slipped
<1>1. ACIAInit => Slipless
    BY DEF ACIAInit, AsWritten, ReceiverAsWritten
<1>2. Slipless /\ [MonitorNext /\ AsWritten']_aciaVars => Slipless'
    <2> SUFFICES ASSUME AsWritten, ~slipped, [MonitorNext /\ AsWritten']_aciaVars
                 PROVE  Slipless'
        OBVIOUS
    <2>1. CASE StoreCharacter /\ AsWritten'
        BY <2>1 DEF StoreCharacter, TooLate, AsWritten, ReceiverAsWritten
    <2>2. CASE UNCHANGED aciaVars
        BY <2>2 DEF aciaVars, AsWritten, ReceiverAsWritten
    <2>3. CASE MonitorNext /\ AsWritten' /\ ~StoreCharacter
        <3>1. slipped' = slipped
            BY <2>3
            DEF MonitorNext, Type, Close, Receiver, TestStop, GetChar, GetEOF, TestFull, LoadStatus,
                SetOverrun, SetFull, StatusAccess, Monitor, PollStatus, ReadDataAfter, FinishRead,
                ClearStatus, TakeCharacter, ReturnData, Destroy
        <3> QED
            BY <2>3, <3>1
    <2> QED
        BY <2>1, <2>2, <2>3
<1>3. [MonitorNext /\ AsWritten']_aciaVars => [ACIANext]_aciaVars
    BY DEF MonitorNext, Receiver, Monitor, FinishRead, ReadDataAfter, ReadData, ACIANext
<1>4. ACIAInv /\ Slipless => ~slipped /\ KeyReady
    BY ACIAInvMeans DEF NothingForgotten, KeyReady
<1> QED
    BY <1>1, <1>2, <1>3, <1>4, ACIAInvInit, ACIAInvNext, PTL DEF WrittenSpec

-----------------------------------------------------------------------------------
(* The steps of the machine, seen by each of its parts.                                *)
LEMMA CPUSteps == [SystemNext]_systemVars => Phi2Low \/ Phi2High \/ UNCHANGED vars
<1> SUFFICES ASSUME [SystemNext]_systemVars
             PROVE  Phi2Low \/ Phi2High \/ UNCHANGED vars
    OBVIOUS
<1>1. CASE PlainPhase
    BY <1>1 DEF PlainPhase
<1>2. CASE ReadVIA \/ WriteVIA \/ ReadACIA \/ WriteACIA
    BY <1>2 DEF ReadVIA, WriteVIA, ReadACIA, WriteACIA, ReadReturns
<1>3. CASE ReadCharacter
    BY <1>3 DEF ReadCharacter, ReadReturns
<1>4. CASE Receiving \/ Typing \/ UNCHANGED systemVars
    BY <1>4 DEF Receiving, Typing, systemVars
<1> QED
    BY <1>1, <1>2, <1>3, <1>4 DEF SystemNext, MainLoop

(* Every step of the system keeps the CPU's invariant.                                *)
LEMMA CPUInvNext == Inv /\ [SystemNext]_systemVars => Inv'
BY CPUSteps, InvPhi2Low, InvPhi2High, InvStutter

(* The program's and the receiver's accesses are among those W65C51N knows.            *)
LEMMA ACIASteps == [SystemNext]_systemVars => [ACIANext]_aciaVars
<1> SUFFICES ASSUME [SystemNext]_systemVars PROVE [ACIANext]_aciaVars
    OBVIOUS
<1>1. CASE PlainPhase \/ ReadVIA \/ WriteVIA \/ UNCHANGED systemVars
    BY <1>1 DEF PlainPhase, ReadVIA, WriteVIA, systemVars
<1>2. CASE ReadACIA
    BY <1>2 DEF ReadACIA, ACIANext
<1>3. CASE ReadCharacter
    BY <1>3 DEF ReadCharacter, ACIANext
<1>4. CASE WriteACIA
    BY <1>4 DEF WriteACIA, ACIANext
<1>5. CASE Receiving \/ Typing
    BY <1>5 DEF Receiving, Typing, Receiver, ACIANext
<1> QED
    BY <1>1, <1>2, <1>3, <1>4, <1>5 DEF SystemNext, MainLoop

(* The register a VIA access names is one of its sixteen, and the byte on the bus a     *)
(* byte: a disciplined store is a write VIA and display are verified for.              *)
LEMMA DisplaySteps ==
    ASSUME Inv, [SystemNext]_systemVars, [WriteVIA => Disciplined(Reg, data')]_systemVars
    PROVE  [DisplayNext]_boardVars
<1>1. CASE PlainPhase \/ ReadVIA \/ ReadACIA \/ ReadCharacter \/ WriteACIA \/ Receiving \/ Typing
           \/ UNCHANGED systemVars
    BY <1>1
    DEF PlainPhase, ReadVIA, ReadACIA, ReadCharacter, WriteACIA, Receiving, Typing, systemVars
<1>2. CASE WriteVIA /\ ~UNCHANGED systemVars
    <2>1. Disciplined(Reg, data') /\ HandleWrite(Reg, data') /\ Remember(Reg, data')
        BY <1>2 DEF WriteVIA
    <2>2. data' \in Byte
        BY CPUInvNext DEF Inv, TypeOK, BusTypeOK
    <2>3. Reg \in Register
        <3>1. address \in Int /\ 0 <= address
            BY WordMember DEF Inv, TypeOK, BusTypeOK
        <3> QED
            BY <3>1 DEF Reg, Register
    <2>4. DisplayWrite(Reg, data')
        BY <2>1 DEF DisplayWrite
    <2> QED
        BY <2>2, <2>3, <2>4 DEF DisplayNext
<1> QED
    BY <1>1, <1>2 DEF SystemNext, MainLoop

-----------------------------------------------------------------------------------
(* The CPU on the whole board, with devices that answer, runs any program with its      *)
(* registers and latches in range, its cycle count within the instruction, its fetches *)
(* from the program counter (handlePhi2Low and handlePhi2High).                         *)
THEOREM SystemKeepsCPU ==
    SystemSpec => [](TypeOK /\ Sequencing /\ FetchesAtPC /\ CycleInRange)
<1>1. SystemInit => Inv
    BY InvInit DEF SystemInit
<1>2. Inv => TypeOK /\ Sequencing /\ FetchesAtPC /\ CycleInRange
    BY DEF Inv
<1> QED
    BY <1>1, <1>2, CPUInvNext, PTL DEF SystemSpec

(* No character is forgotten on the whole machine, whatever program runs: one that      *)
(* polls, one that reads DATA unasked, or one that stores to STATUS. The steps of one    *)
(* read of DATA lie in one HIGH phase of the CPU, between any steps of the receiver; the *)
(* exception is a character that slipped by between two accesses out of order.          *)
THEOREM SystemForgetsNothing == SystemSpec => []NothingForgotten
<1>1. SystemInit => ACIAInv
    BY ACIAInvInit DEF SystemInit
<1> QED
    BY <1>1, ACIASteps, ACIAInvNext, ACIAInvMeans, PTL DEF SystemSpec

(* A program in the EEPROM whose stores to the VIA keep the discipline is, to VIA and   *)
(* display, one of the programs W65C22S_Board is about.                                 *)
THEOREM DisciplinedProgram == SystemSpec /\ KeepsDiscipline => DisplaySpec
<1>1. SystemInit => Inv /\ DisplayInit
    BY InvInit DEF SystemInit
<1>2. Inv /\ [SystemNext]_systemVars /\ [WriteVIA => Disciplined(Reg, data')]_systemVars
          => [DisplayNext]_boardVars
    BY DisplaySteps
<1> QED
    BY <1>1, <1>2, CPUInvNext, PTL DEF SystemSpec, KeepsDiscipline, DisplaySpec

(* The display shows what such a program has sent, one operation for each pulse of E,    *)
(* and no character is stored outside its memory: from the CPU's store instructions     *)
(* over W65C22S::handleWrite to HD44780LCD::handleWrite.                                *)
THEOREM SystemDrivesDisplay ==
    SystemSpec /\ KeepsDiscipline => ImplementsBoard /\ []StoresInside
BY DisciplinedProgram, DisplayImplementsBoard, StoresStayInside, PTL

-----------------------------------------------------------------------------------
(* The whole machine with the history of its instruction boundaries.                    *)
TracedSystem ==
    /\ SystemInit
    /\ boundary = AfterReset
    /\ [][SystemNext /\ Record]_<<systemVars, boundary>>

(* A step that leaves the CPU alone adds nothing to the history.                        *)
LEMMA TracedSteps ==
    ASSUME TraceInv, [SystemNext /\ Record]_<<systemVars, boundary>>
    PROVE  [TraceNext]_traceVars
<1>1. CASE UNCHANGED <<systemVars, boundary>>
    BY <1>1 DEF systemVars, traceVars
<1>2. CASE SystemNext /\ Record
    <2>1. CASE Phi2Low \/ Phi2High
        BY <1>2, <2>1 DEF TraceNext, Next
    <2>2. CASE UNCHANGED vars
        <3>1. AtBoundary => boundary = Snapshot
            BY DEF TraceInv, OnCourse, AtBoundary
        <3>2. AtBoundary' <=> AtBoundary
            BY <2>2 DEF vars, AtBoundary
        <3>3. Snapshot' = Snapshot
            BY <2>2 DEF vars, busVars, Snapshot, Architectural
        <3> QED
            BY <1>2, <2>2, <3>1, <3>2, <3>3 DEF Record, traceVars
    <2> QED
        BY <1>2, <2>1, <2>2, CPUSteps
<1> QED
    BY <1>1, <1>2

(* Every program, on the whole machine, is carried out instruction by instruction as    *)
(* the instruction set says, but for the named differences: its loads and stores may go *)
(* to the display and to the ACIA, while the receiver thread runs beside it, as long as *)
(* its code and pointers lie in SRAM and EEPROM.                                        *)
THEOREM SystemImplementsISA ==
    ASSUME Machine!Differences \subseteq Waived
    PROVE  TracedSystem /\ []CodeInMemory => ImplementsISA
<1>1. SystemInit /\ boundary = AfterReset => TraceInv /\ Machine!Init
    <2>1. SystemInit /\ boundary = AfterReset => TraceInit
        BY DEF SystemInit, TraceInit
    <2> QED
        BY <2>1, TraceInvInit, PowerUpFollowsISA
<1>2. TraceInv /\ [SystemNext /\ Record]_<<systemVars, boundary>> => [TraceNext]_traceVars
    BY TracedSteps
<1>3. TraceInv /\ CodeInMemory /\ [TraceNext]_traceVars => TraceInv'
    BY TraceInvNext
<1>4. TraceInv /\ CodeInMemory /\ [TraceNext]_traceVars => [Machine!Next]_(Machine!isaVars)
    BY StepFollowsISA
<1> QED
    BY <1>1, <1>2, <1>3, <1>4, PTL DEF TracedSystem, ImplementsISA, Machine!Spec

-----------------------------------------------------------------------------------
(* Every address some slave decodes is answered.                                       *)
LEMMA DecodedIsAnswered == Decoded(address) => Answered
BY DeviceBytesAssumption DEF Decoded, InMemorySpace, Answered, Driven

(* On the whole machine, too, a program that keeps inside keeps the address latch there. *)
LEMMA BusInside ==
    TraceInv /\ BusInv /\ StaysInside /\ [SystemNext /\ Record]_<<systemVars, boundary>>
        => TraceInv' /\ BusInv'
BY TracedSteps, BusNext, TraceInvNext, BusCode DEF BusInv

(* A program whose instructions have their bytes, targets and pointers in the memories  *)
(* and their operands there, in the VIA or in the ACIA, finds all of its code in the     *)
(* memories, and no read of the CPU's is left without an answer: not the bytes it looks  *)
(* ahead at, nor the addresses its handlers drive and do not use.                       *)
THEOREM ContainedProgram ==
    TracedSystem /\ []StaysInside => [](CodeInMemory /\ Answered)
<1>1. SystemInit /\ boundary = AfterReset => TraceInv /\ BusInv
    BY TraceInvInit, BusInit0 DEF SystemInit, TraceInit
<1>2. BusInv => CodeInMemory /\ Answered
    BY BusCode, DecodedIsAnswered DEF BusInv, OnTheBus
<1> QED
    BY <1>1, <1>2, BusInside, PTL DEF TracedSystem

(* So it is carried out as the instruction set says, but for the named differences: what *)
(* SystemImplementsISA asks of the address bus follows from the program.                *)
THEOREM ContainedImplementsISA ==
    ASSUME Machine!Differences \subseteq Waived
    PROVE  TracedSystem /\ []StaysInside => ImplementsISA
BY ContainedProgram, SystemImplementsISA, PTL

-----------------------------------------------------------------------------------
(* The start and the echo loop of wozmon.s at work in the machine, for any length of    *)
(* its delay loop, as many characters as a byte can number, and any interleaving of the  *)
(* two threads.                                                                        *)
(* EchoAt is the invariant of the program, one line for each place it can be at: what   *)
(* is on the stack and in A there, and where the read of the ACIA has got to. At each   *)
(* boundary it holds of the state the history has recorded; between two boundaries      *)
(* OnCourse says what the instruction under way has done of its work, cycle by cycle.   *)
InECHO(ram) == ByteAt(ram, 511) = \hFF /\ ByteAt(ram, 510) = \h19

Printed == latches.transmit = taken
AtRest  == host.at = "idle"
Polled  == host.at = "polled"

EchoAt(c, ram) ==
    /\ c.y = 0
    /\ \/ /\ c.pc \in {\hFF00, \hFF02, \hFF05, \hFF07, \hFF0A, \hFF1A}
          /\ c.sp = 255 /\ AtRest /\ Printed
       \/ /\ c.pc = \hFF0D
          /\ c.sp = 255 /\ Printed /\ (AtRest \/ Polled)
          /\ Has(c.a, 8) <=> Polled
       \/ /\ c.pc = \hFF0F
          /\ c.sp = 255 /\ Printed /\ (AtRest \/ Polled)
          /\ ~Has(c.status, ZERO) <=> Polled
       \/ /\ c.pc = \hFF11
          /\ c.sp = 255
          /\ \/ Polled
             \/ host.at \in {"clear", "cleared"} /\ edge = "HIGH" /\ cpu.cycle = 3
       \/ /\ c.pc \in {\hFF14, \hFF17}
          /\ c.sp = 255 /\ AtRest /\ c.a = taken
       \/ /\ c.pc = \hFF1D
          /\ c.sp = 253 /\ InECHO(ram) /\ AtRest /\ c.a = taken
       \/ /\ c.pc = \hFF1E
          /\ c.sp = 252 /\ InECHO(ram) /\ AtRest /\ c.a = taken
       \/ /\ c.pc \in {\hFF21, \hFF23, \hFF24, \hFF26}
          /\ c.sp = 252 /\ InECHO(ram) /\ AtRest /\ Printed
       \/ /\ c.pc = \hFF27
          /\ c.sp = 253 /\ InECHO(ram) /\ AtRest /\ Printed

Places == {\hFF00, \hFF02, \hFF05, \hFF07, \hFF0A, \hFF0D, \hFF0F, \hFF11, \hFF14, \hFF17, \hFF1A,
          \hFF1D, \hFF1E, \hFF21, \hFF23, \hFF24, \hFF26, \hFF27}

LatchesTypeOK == latches \in [transmit : Byte \cup {None}, command : Byte, control : Byte]

EchoInv ==
    /\ TraceInv
    /\ BusInv
    /\ ACIATypeOK /\ LatchesTypeOK
    /\ rom = Polling
    /\ irq = "HIGH" /\ nmi = "HIGH"
    /\ cpu.cycle > 0 => Software /\ cpu.ir = CodeByte(Origin, 0)
    /\ cpu.resetStage < 2 => boundary.regs = AfterReset.regs
    /\ EchoAt(boundary.regs, boundary.ram)

-----------------------------------------------------------------------------------
(* The cells of a piece of code, and of two side by side.                              *)
LEMMA CodeCells ==
    ASSUME NEW o \in Nat, NEW q, NEW n \in Nat, Len(q) = n
    PROVE  /\ DOMAIN Code(o, q) = o .. o + n - 1
           /\ \A i \in 1 .. n : Code(o, q)[o + i - 1] = q[i]
BY DEF Code

(* The bytes of the loop and of ECHO.                                                  *)
LEMMA LoopCells ==
    /\ DOMAIN Loop = \hFF00 .. \hFF1C
    /\ \E q : q = <<\hA9, \h1F, \h8D, \h03, \h50, \hA9, \h0B, \h8D, \h02, \h50,
                   \hAD, \h01, \h50, \h29, \h08, \hF0, \hF9, \hAD, \h00, \h50, \h99, \h00, \h02,
                   \h20, \h1D, \hFF, \h4C, \h0A, \hFF>> /\ \A i \in 1 .. 29 : Loop[\hFF00 + i - 1] = q[i]
<1>1. PICK q : q = <<\hA9, \h1F, \h8D, \h03, \h50, \hA9, \h0B, \h8D, \h02, \h50,
                   \hAD, \h01, \h50, \h29, \h08, \hF0, \hF9, \hAD, \h00, \h50, \h99, \h00, \h02,
                   \h20, \h1D, \hFF, \h4C, \h0A, \hFF>>
    OBVIOUS
<1>2. Len(q) = 29
    BY <1>1
<1>3. Loop = Code(\hFF00, q)
    BY <1>1 DEF Loop
<1>4. DOMAIN Code(\hFF00, q) = \hFF00 .. \hFF00 + 29 - 1
      /\ \A i \in 1 .. 29 : Code(\hFF00, q)[\hFF00 + i - 1] = q[i]
    <2>1. PICK o \in Nat, n \in Nat : o = \hFF00 /\ n = 29
        OBVIOUS
    <2>2. DOMAIN Code(o, q) = o .. o + n - 1 /\ \A i \in 1 .. n : Code(o, q)[o + i - 1] = q[i]
        <3>1. Len(q) = n
            BY <1>2, <2>1, SMT
        <3> QED
            BY <3>1, CodeCells, SMT
    <2> QED
        BY <2>1, <2>2, SMT
<1> QED
    BY <1>1, <1>3, <1>4

(* The same of ECHO.                                                                   *)
LEMMA ECHOCells ==
    /\ DOMAIN ECHO = \hFF1D .. \hFF27
    /\ \E q : q = <<\h48, \h8D, \h00, \h50, \hA9, Delay, \h3A, \hD0, \hFD, \h68, \h60>> /\ \A i \in 1 .. 11 : ECHO[\hFF1D + i - 1] = q[i]
<1>1. PICK q : q = <<\h48, \h8D, \h00, \h50, \hA9, Delay, \h3A, \hD0, \hFD, \h68, \h60>>
    OBVIOUS
<1>2. Len(q) = 11
    BY <1>1
<1>3. ECHO = Code(\hFF1D, q)
    BY <1>1 DEF ECHO
<1>4. DOMAIN Code(\hFF1D, q) = \hFF1D .. \hFF1D + 11 - 1
      /\ \A i \in 1 .. 11 : Code(\hFF1D, q)[\hFF1D + i - 1] = q[i]
    <2>1. PICK o \in Nat, n \in Nat : o = \hFF1D /\ n = 11
        OBVIOUS
    <2>2. DOMAIN Code(o, q) = o .. o + n - 1 /\ \A i \in 1 .. n : Code(o, q)[o + i - 1] = q[i]
        <3>1. Len(q) = n
            BY <1>2, <2>1, SMT
        <3> QED
            BY <3>1, CodeCells, SMT
    <2> QED
        BY <2>1, <2>2, SMT
<1> QED
    BY <1>1, <1>3, <1>4

(* The EEPROM holds both, and the reset vector that leads to the first.                *)
LEMMA PollingCells ==
    /\ \A a \in \hFF00 .. \hFF1C : ByteAt(Polling, a) = Loop[a]
    /\ \A a \in \hFF1D .. \hFF27 : ByteAt(Polling, a) = ECHO[a]
    /\ ByteAt(Polling, 65532) = \h00 /\ ByteAt(Polling, 65533) = \hFF
<1> DEFINE v == Code(\hFFFC, <<\h00, \hFF>>)
<1>1. DOMAIN Loop = \hFF00 .. \hFF1C
    BY LoopCells
<1>2. DOMAIN ECHO = \hFF1D .. \hFF27
    BY ECHOCells
<1>3. DOMAIN v = \hFFFC .. \hFFFD /\ v[65532] = \h00 /\ v[65533] = \hFF
    BY DEF Code
<1> HIDE DEF v
<1>4. Polling = Beside(Loop, Beside(ECHO, v))
    BY DEF Polling, v
<1>5. ASSUME NEW a \in \hFF00 .. \hFF1C
      PROVE  ByteAt(Polling, a) = Loop[a]
    <2>1. a \in DOMAIN Loop
        BY <1>1
    <2>2. a \in DOMAIN Polling /\ Polling[a] = Loop[a]
        BY <1>4, <2>1, SMT DEF Beside
    <2> QED
        BY <2>2 DEF ByteAt
<1>6. ASSUME NEW a \in \hFF1D .. \hFF27
      PROVE  ByteAt(Polling, a) = ECHO[a]
    <2>1. a \in DOMAIN ECHO
        BY <1>2
    <2>2. a \notin DOMAIN Loop
        BY <1>1
    <2>3. a \in DOMAIN Polling /\ Polling[a] = Beside(ECHO, v)[a]
        BY <1>4, <2>1, <2>2, SMT DEF Beside
    <2>4. Beside(ECHO, v)[a] = ECHO[a]
        BY <2>1, SMT DEF Beside
    <2> QED
        BY <2>3, <2>4 DEF ByteAt
<1>7. ASSUME NEW a \in {65532, 65533}
      PROVE  ByteAt(Polling, a) = v[a]
    <2>1. a \in DOMAIN v
        BY <1>3
    <2>2. a \notin DOMAIN Loop /\ a \notin DOMAIN ECHO
        BY <1>1, <1>2
    <2>3. a \in DOMAIN Polling /\ Polling[a] = Beside(ECHO, v)[a]
        BY <1>4, <2>1, <2>2, SMT DEF Beside
    <2>4. Beside(ECHO, v)[a] = v[a]
        BY <2>1, <2>2, SMT DEF Beside
    <2> QED
        BY <2>3, <2>4 DEF ByteAt
<1> QED
    BY <1>3, <1>5, <1>6, <1>7

(* Byte by byte.                                                                       *)
LEMMA LoopBytes ==
    /\ ByteAt(Polling, \hFF00) = \hA9 /\ ByteAt(Polling, \hFF01) = \h1F
    /\ ByteAt(Polling, \hFF02) = \h8D /\ ByteAt(Polling, \hFF03) = \h03
    /\ ByteAt(Polling, \hFF04) = \h50 /\ ByteAt(Polling, \hFF05) = \hA9
    /\ ByteAt(Polling, \hFF06) = \h0B /\ ByteAt(Polling, \hFF07) = \h8D
    /\ ByteAt(Polling, \hFF08) = \h02 /\ ByteAt(Polling, \hFF09) = \h50
    /\ ByteAt(Polling, \hFF0A) = \hAD /\ ByteAt(Polling, \hFF0B) = \h01
    /\ ByteAt(Polling, \hFF0C) = \h50 /\ ByteAt(Polling, \hFF0D) = \h29
    /\ ByteAt(Polling, \hFF0E) = \h08 /\ ByteAt(Polling, \hFF0F) = \hF0
    /\ ByteAt(Polling, \hFF10) = \hF9 /\ ByteAt(Polling, \hFF11) = \hAD
    /\ ByteAt(Polling, \hFF12) = \h00 /\ ByteAt(Polling, \hFF13) = \h50
    /\ ByteAt(Polling, \hFF14) = \h99 /\ ByteAt(Polling, \hFF15) = \h00
    /\ ByteAt(Polling, \hFF16) = \h02 /\ ByteAt(Polling, \hFF17) = \h20
    /\ ByteAt(Polling, \hFF18) = \h1D /\ ByteAt(Polling, \hFF19) = \hFF
    /\ ByteAt(Polling, \hFF1A) = \h4C /\ ByteAt(Polling, \hFF1B) = \h0A
    /\ ByteAt(Polling, \hFF1C) = \hFF
<1>1. PICK q : q = <<\hA9, \h1F, \h8D, \h03, \h50, \hA9, \h0B, \h8D, \h02, \h50,
                   \hAD, \h01, \h50, \h29, \h08, \hF0, \hF9, \hAD, \h00, \h50, \h99, \h00, \h02,
                   \h20, \h1D, \hFF, \h4C, \h0A, \hFF>>
               /\ \A i \in 1 .. 29 : Loop[\hFF00 + i - 1] = q[i]
    BY LoopCells
<1>3. \A i \in 1 .. 29 : ByteAt(Polling, \hFF00 + i - 1) = q[i]
    BY <1>1, PollingCells
<1>4. /\ q[1] = \hA9 /\ q[2] = \h1F /\ q[3] = \h8D /\ q[4] = \h03 /\ q[5] = \h50
      /\ q[6] = \hA9 /\ q[7] = \h0B /\ q[8] = \h8D /\ q[9] = \h02 /\ q[10] = \h50
      /\ q[11] = \hAD /\ q[12] = \h01 /\ q[13] = \h50 /\ q[14] = \h29 /\ q[15] = \h08
    BY <1>1
<1>5. /\ q[16] = \hF0 /\ q[17] = \hF9 /\ q[18] = \hAD /\ q[19] = \h00 /\ q[20] = \h50
      /\ q[21] = \h99 /\ q[22] = \h00 /\ q[23] = \h02 /\ q[24] = \h20 /\ q[25] = \h1D
      /\ q[26] = \hFF /\ q[27] = \h4C /\ q[28] = \h0A /\ q[29] = \hFF
    BY <1>1
<1> QED
    BY <1>3, <1>4, <1>5

(* Byte by byte; the delay, at $FF22, is any byte.                                      *)
LEMMA ECHOBytes ==
    /\ ByteAt(Polling, \hFF1D) = \h48 /\ ByteAt(Polling, \hFF1E) = \h8D
    /\ ByteAt(Polling, \hFF1F) = \h00 /\ ByteAt(Polling, \hFF20) = \h50
    /\ ByteAt(Polling, \hFF21) = \hA9 /\ ByteAt(Polling, \hFF23) = \h3A
    /\ ByteAt(Polling, \hFF24) = \hD0 /\ ByteAt(Polling, \hFF25) = \hFD
    /\ ByteAt(Polling, \hFF26) = \h68 /\ ByteAt(Polling, \hFF27) = \h60
<1>1. PICK q : q = <<\h48, \h8D, \h00, \h50, \hA9, Delay, \h3A, \hD0, \hFD, \h68, \h60>>
               /\ \A i \in 1 .. 11 : ECHO[\hFF1D + i - 1] = q[i]
    BY ECHOCells
<1>3. \A i \in 1 .. 11 : ByteAt(Polling, \hFF1D + i - 1) = q[i]
    BY <1>1, PollingCells
<1>4. /\ q[1] = \h48 /\ q[2] = \h8D /\ q[3] = \h00 /\ q[4] = \h50 /\ q[5] = \hA9
      /\ q[7] = \h3A /\ q[8] = \hD0 /\ q[9] = \hFD /\ q[10] = \h68 /\ q[11] = \h60
    BY <1>1
<1> QED
    BY <1>3, <1>4

(* A number of 16 bits is kept as it is.                                               *)
LEMMA Narrows ==
    ASSUME NEW n \in Int, n >= 0, n < 65536
    PROVE  U16(n) = n
BY SMT DEF U16

(* A program in the EEPROM finds its bytes one behind the other.                       *)
LEMMA CodeAt ==
    ASSUME NEW s, NEW w \in Int, w >= 32768, w < 65533, s.regs.pc = w, NEW n \in 0 .. 3
    PROVE  PCAfter(s, n) = w + n /\ CodeByte(s, n) = ByteAt(s.rom, w + n)
<1>1. w + n \in Int /\ w + n >= 0
    OBVIOUS
<1>2. w + n < 65536
    BY SMT
<1>3. U16(w + n) = w + n
    BY <1>1, <1>2, Narrows
<1>4. PCAfter(s, n) = w + n
    BY <1>3 DEF PCAfter
<1>5. ~(w + n < EEPROM_FIRST)
    BY SMT DEF EEPROM_FIRST
<1>6. Peek(s, w + n) = ByteAt(s.rom, w + n)
    BY <1>5 DEF Peek
<1> QED
    BY <1>4, <1>6 DEF CodeByte

(* The three bytes an instruction may have, with the monitor in the EEPROM.             *)
LEMMA CodeHere ==
    ASSUME NEW s, s.rom = Polling, NEW w \in Int, w >= 32768, w < 65533, s.regs.pc = w
    PROVE  /\ CodeByte(s, 0) = ByteAt(Polling, w)
           /\ CodeByte(s, 1) = ByteAt(Polling, w + 1)
           /\ CodeByte(s, 2) = ByteAt(Polling, w + 2)
           /\ PCAfter(s, 0) = w /\ PCAfter(s, 1) = w + 1
           /\ PCAfter(s, 2) = w + 2 /\ PCAfter(s, 3) = w + 3
<1>1. \A n \in 0 .. 3 : PCAfter(s, n) = w + n /\ CodeByte(s, n) = ByteAt(Polling, w + n)
    BY CodeAt
<1>2. w + 0 = w
    OBVIOUS
<1> QED
    BY <1>1, <1>2

(* The instruction at each place of the loop, and where it looks or goes.              *)
LEMMA EchoCode ==
    ASSUME NEW s, s.rom = Polling, NEW i, i = OpcodeMap[CodeByte(s, 0)]
    PROVE  /\ s.regs.pc \in {\hFF00, \hFF05, \hFF21} =>
                  i = [op |-> "LDA", mode |-> "IMM", cycles |-> 2]
           /\ s.regs.pc \in {\hFF02, \hFF07, \hFF1E} =>
                  i = [op |-> "STA", mode |-> "ABS", cycles |-> 4]
           /\ s.regs.pc \in {\hFF0A, \hFF11} =>
                  i = [op |-> "LDA", mode |-> "ABS", cycles |-> 4]
           /\ s.regs.pc = \hFF02 => CodeWord(s) = \h5003
           /\ s.regs.pc = \hFF07 => CodeWord(s) = \h5002
           /\ s.regs.pc = \hFF0A => CodeWord(s) = \h5001
           /\ s.regs.pc \in {\hFF11, \hFF1E} => CodeWord(s) = \h5000
           /\ s.regs.pc = \hFF0D =>
                  i = [op |-> "AND", mode |-> "IMM", cycles |-> 2] /\ CodeByte(s, 1) = 8
           /\ s.regs.pc = \hFF0F =>
                  i = [op |-> "BEQ", mode |-> "REL", cycles |-> 4] /\ BranchTarget(s) = \hFF0A
           /\ s.regs.pc = \hFF14 =>
                  i = [op |-> "STA", mode |-> "ABSY", cycles |-> 5] /\ CodeWord(s) = 512
           /\ s.regs.pc = \hFF17 =>
                  i = [op |-> "JSR", mode |-> "ABS", cycles |-> 6] /\ CodeWord(s) = \hFF1D
           /\ s.regs.pc = \hFF1A =>
                  i = [op |-> "JMP", mode |-> "ABS", cycles |-> 3] /\ CodeWord(s) = \hFF0A
           /\ s.regs.pc = \hFF1D => i = [op |-> "PHA", mode |-> "IMP", cycles |-> 3]
           /\ s.regs.pc = \hFF23 => i = [op |-> "DEC", mode |-> "ACC", cycles |-> 2]
           /\ s.regs.pc = \hFF24 =>
                  i = [op |-> "BNE", mode |-> "REL", cycles |-> 4] /\ BranchTarget(s) = \hFF23
           /\ s.regs.pc = \hFF26 => i = [op |-> "PLA", mode |-> "IMP", cycles |-> 4]
           /\ s.regs.pc = \hFF27 => i = [op |-> "RTS", mode |-> "IMP", cycles |-> 6]
           /\ s.regs.pc \in Places => CodeByte(s, 0) \in DOMAIN OpcodeMap
<1>1. CASE s.regs.pc \in {\hFF00, \hFF05, \hFF21}
    <2> PICK w \in Int : w >= 32768 /\ w < 65533 /\ w = s.regs.pc
        BY <1>1, SMT
    <2>1. CodeByte(s, 0) = ByteAt(Polling, w)
        BY CodeHere
    <2>2. CodeByte(s, 0) = \hA9
        BY <1>1, <2>1, LoopBytes, ECHOBytes, SMT
    <2> QED
        BY <1>1, <2>2, EchoOpcodes, SMT
<1>2. CASE s.regs.pc = \hFF02
    <2> PICK w \in Int : w >= 32768 /\ w < 65533 /\ w = s.regs.pc
        BY <1>2, SMT
    <2>1. /\ CodeByte(s, 0) = ByteAt(Polling, w)
          /\ CodeByte(s, 1) = ByteAt(Polling, w + 1)
          /\ CodeByte(s, 2) = ByteAt(Polling, w + 2)
        BY CodeHere
    <2>2. CodeByte(s, 0) = \h8D
        BY <1>2, <2>1, LoopBytes, ECHOBytes, SMT
    <2>3. CodeByte(s, 1) = \h03
        BY <1>2, <2>1, LoopBytes, ECHOBytes, SMT
    <2>4. CodeByte(s, 2) = \h50
        BY <1>2, <2>1, LoopBytes, ECHOBytes, SMT
    <2>5. CodeWord(s) = \h5003
        BY <2>3, <2>4, SMT DEF CodeWord, Join
    <2> QED
        BY <1>2, <2>2, <2>3, <2>5, EchoOpcodes, SMT
<1>3. CASE s.regs.pc = \hFF07
    <2> PICK w \in Int : w >= 32768 /\ w < 65533 /\ w = s.regs.pc
        BY <1>3, SMT
    <2>1. /\ CodeByte(s, 0) = ByteAt(Polling, w)
          /\ CodeByte(s, 1) = ByteAt(Polling, w + 1)
          /\ CodeByte(s, 2) = ByteAt(Polling, w + 2)
        BY CodeHere
    <2>2. CodeByte(s, 0) = \h8D
        BY <1>3, <2>1, LoopBytes, ECHOBytes, SMT
    <2>3. CodeByte(s, 1) = \h02
        BY <1>3, <2>1, LoopBytes, ECHOBytes, SMT
    <2>4. CodeByte(s, 2) = \h50
        BY <1>3, <2>1, LoopBytes, ECHOBytes, SMT
    <2>5. CodeWord(s) = \h5002
        BY <2>3, <2>4, SMT DEF CodeWord, Join
    <2> QED
        BY <1>3, <2>2, <2>3, <2>5, EchoOpcodes, SMT
<1>4. CASE s.regs.pc = \hFF1E
    <2> PICK w \in Int : w >= 32768 /\ w < 65533 /\ w = s.regs.pc
        BY <1>4, SMT
    <2>1. /\ CodeByte(s, 0) = ByteAt(Polling, w)
          /\ CodeByte(s, 1) = ByteAt(Polling, w + 1)
          /\ CodeByte(s, 2) = ByteAt(Polling, w + 2)
        BY CodeHere
    <2>2. CodeByte(s, 0) = \h8D
        BY <1>4, <2>1, LoopBytes, ECHOBytes, SMT
    <2>3. CodeByte(s, 1) = \h00
        BY <1>4, <2>1, LoopBytes, ECHOBytes, SMT
    <2>4. CodeByte(s, 2) = \h50
        BY <1>4, <2>1, LoopBytes, ECHOBytes, SMT
    <2>5. CodeWord(s) = \h5000
        BY <2>3, <2>4, SMT DEF CodeWord, Join
    <2> QED
        BY <1>4, <2>2, <2>3, <2>5, EchoOpcodes, SMT
<1>5. CASE s.regs.pc = \hFF0A
    <2> PICK w \in Int : w >= 32768 /\ w < 65533 /\ w = s.regs.pc
        BY <1>5, SMT
    <2>1. /\ CodeByte(s, 0) = ByteAt(Polling, w)
          /\ CodeByte(s, 1) = ByteAt(Polling, w + 1)
          /\ CodeByte(s, 2) = ByteAt(Polling, w + 2)
        BY CodeHere
    <2>2. CodeByte(s, 0) = \hAD
        BY <1>5, <2>1, LoopBytes, ECHOBytes, SMT
    <2>3. CodeByte(s, 1) = \h01
        BY <1>5, <2>1, LoopBytes, ECHOBytes, SMT
    <2>4. CodeByte(s, 2) = \h50
        BY <1>5, <2>1, LoopBytes, ECHOBytes, SMT
    <2>5. CodeWord(s) = \h5001
        BY <2>3, <2>4, SMT DEF CodeWord, Join
    <2> QED
        BY <1>5, <2>2, <2>3, <2>5, EchoOpcodes, SMT
<1>6. CASE s.regs.pc = \hFF11
    <2> PICK w \in Int : w >= 32768 /\ w < 65533 /\ w = s.regs.pc
        BY <1>6, SMT
    <2>1. /\ CodeByte(s, 0) = ByteAt(Polling, w)
          /\ CodeByte(s, 1) = ByteAt(Polling, w + 1)
          /\ CodeByte(s, 2) = ByteAt(Polling, w + 2)
        BY CodeHere
    <2>2. CodeByte(s, 0) = \hAD
        BY <1>6, <2>1, LoopBytes, ECHOBytes, SMT
    <2>3. CodeByte(s, 1) = \h00
        BY <1>6, <2>1, LoopBytes, ECHOBytes, SMT
    <2>4. CodeByte(s, 2) = \h50
        BY <1>6, <2>1, LoopBytes, ECHOBytes, SMT
    <2>5. CodeWord(s) = \h5000
        BY <2>3, <2>4, SMT DEF CodeWord, Join
    <2> QED
        BY <1>6, <2>2, <2>3, <2>5, EchoOpcodes, SMT
<1>7. CASE s.regs.pc = \hFF0D
    <2> PICK w \in Int : w >= 32768 /\ w < 65533 /\ w = s.regs.pc
        BY <1>7, SMT
    <2>1. /\ CodeByte(s, 0) = ByteAt(Polling, w)
          /\ CodeByte(s, 1) = ByteAt(Polling, w + 1)
        BY CodeHere
    <2>2. CodeByte(s, 0) = \h29
        BY <1>7, <2>1, LoopBytes, ECHOBytes, SMT
    <2>3. CodeByte(s, 1) = \h08
        BY <1>7, <2>1, LoopBytes, ECHOBytes, SMT
    <2> QED
        BY <1>7, <2>2, <2>3, EchoOpcodes, SMT
<1>8. CASE s.regs.pc = \hFF0F
    <2> PICK w \in Int : w >= 32768 /\ w < 65533 /\ w = s.regs.pc
        BY <1>8, SMT
    <2>1. /\ CodeByte(s, 0) = ByteAt(Polling, w)
          /\ CodeByte(s, 1) = ByteAt(Polling, w + 1)
          /\ PCAfter(s, 2) = w + 2
        BY CodeHere
    <2>2. CodeByte(s, 0) = \hF0
        BY <1>8, <2>1, LoopBytes, ECHOBytes, SMT
    <2>3. CodeByte(s, 1) = \hF9
        BY <1>8, <2>1, LoopBytes, ECHOBytes, SMT
    <2>4. BranchTarget(s) = \hFF0A
        BY <1>8, <2>1, <2>3, SMT DEF BranchTarget, U16, Signed
    <2> QED
        BY <1>8, <2>2, <2>3, <2>4, EchoOpcodes, SMT
<1>9. CASE s.regs.pc = \hFF14
    <2> PICK w \in Int : w >= 32768 /\ w < 65533 /\ w = s.regs.pc
        BY <1>9, SMT
    <2>1. /\ CodeByte(s, 0) = ByteAt(Polling, w)
          /\ CodeByte(s, 1) = ByteAt(Polling, w + 1)
          /\ CodeByte(s, 2) = ByteAt(Polling, w + 2)
        BY CodeHere
    <2>2. CodeByte(s, 0) = \h99
        BY <1>9, <2>1, LoopBytes, ECHOBytes, SMT
    <2>3. CodeByte(s, 1) = \h00
        BY <1>9, <2>1, LoopBytes, ECHOBytes, SMT
    <2>4. CodeByte(s, 2) = \h02
        BY <1>9, <2>1, LoopBytes, ECHOBytes, SMT
    <2>5. CodeWord(s) = \h0200
        BY <2>3, <2>4, SMT DEF CodeWord, Join
    <2> QED
        BY <1>9, <2>2, <2>3, <2>5, EchoOpcodes, SMT
<1>10. CASE s.regs.pc = \hFF17
    <2> PICK w \in Int : w >= 32768 /\ w < 65533 /\ w = s.regs.pc
        BY <1>10, SMT
    <2>1. /\ CodeByte(s, 0) = ByteAt(Polling, w)
          /\ CodeByte(s, 1) = ByteAt(Polling, w + 1)
          /\ CodeByte(s, 2) = ByteAt(Polling, w + 2)
        BY CodeHere
    <2>2. CodeByte(s, 0) = \h20
        BY <1>10, <2>1, LoopBytes, ECHOBytes, SMT
    <2>3. CodeByte(s, 1) = \h1D
        BY <1>10, <2>1, LoopBytes, ECHOBytes, SMT
    <2>4. CodeByte(s, 2) = \hFF
        BY <1>10, <2>1, LoopBytes, ECHOBytes, SMT
    <2>5. CodeWord(s) = \hFF1D
        BY <2>3, <2>4, SMT DEF CodeWord, Join
    <2> QED
        BY <1>10, <2>2, <2>3, <2>5, EchoOpcodes, SMT
<1>11. CASE s.regs.pc = \hFF1A
    <2> PICK w \in Int : w >= 32768 /\ w < 65533 /\ w = s.regs.pc
        BY <1>11, SMT
    <2>1. /\ CodeByte(s, 0) = ByteAt(Polling, w)
          /\ CodeByte(s, 1) = ByteAt(Polling, w + 1)
          /\ CodeByte(s, 2) = ByteAt(Polling, w + 2)
        BY CodeHere
    <2>2. CodeByte(s, 0) = \h4C
        BY <1>11, <2>1, LoopBytes, ECHOBytes, SMT
    <2>3. CodeByte(s, 1) = \h0A
        BY <1>11, <2>1, LoopBytes, ECHOBytes, SMT
    <2>4. CodeByte(s, 2) = \hFF
        BY <1>11, <2>1, LoopBytes, ECHOBytes, SMT
    <2>5. CodeWord(s) = \hFF0A
        BY <2>3, <2>4, SMT DEF CodeWord, Join
    <2> QED
        BY <1>11, <2>2, <2>3, <2>5, EchoOpcodes, SMT
<1>12. CASE s.regs.pc = \hFF1D
    <2> PICK w \in Int : w >= 32768 /\ w < 65533 /\ w = s.regs.pc
        BY <1>12, SMT
    <2>1. CodeByte(s, 0) = ByteAt(Polling, w)
        BY CodeHere
    <2>2. CodeByte(s, 0) = \h48
        BY <1>12, <2>1, LoopBytes, ECHOBytes, SMT
    <2> QED
        BY <1>12, <2>2, EchoOpcodes, SMT
<1>13. CASE s.regs.pc = \hFF23
    <2> PICK w \in Int : w >= 32768 /\ w < 65533 /\ w = s.regs.pc
        BY <1>13, SMT
    <2>1. CodeByte(s, 0) = ByteAt(Polling, w)
        BY CodeHere
    <2>2. CodeByte(s, 0) = \h3A
        BY <1>13, <2>1, LoopBytes, ECHOBytes, SMT
    <2> QED
        BY <1>13, <2>2, EchoOpcodes, SMT
<1>14. CASE s.regs.pc = \hFF24
    <2> PICK w \in Int : w >= 32768 /\ w < 65533 /\ w = s.regs.pc
        BY <1>14, SMT
    <2>1. /\ CodeByte(s, 0) = ByteAt(Polling, w)
          /\ CodeByte(s, 1) = ByteAt(Polling, w + 1)
          /\ PCAfter(s, 2) = w + 2
        BY CodeHere
    <2>2. CodeByte(s, 0) = \hD0
        BY <1>14, <2>1, LoopBytes, ECHOBytes, SMT
    <2>3. CodeByte(s, 1) = \hFD
        BY <1>14, <2>1, LoopBytes, ECHOBytes, SMT
    <2>4. BranchTarget(s) = \hFF23
        BY <1>14, <2>1, <2>3, SMT DEF BranchTarget, U16, Signed
    <2> QED
        BY <1>14, <2>2, <2>3, <2>4, EchoOpcodes, SMT
<1>15. CASE s.regs.pc = \hFF26
    <2> PICK w \in Int : w >= 32768 /\ w < 65533 /\ w = s.regs.pc
        BY <1>15, SMT
    <2>1. CodeByte(s, 0) = ByteAt(Polling, w)
        BY CodeHere
    <2>2. CodeByte(s, 0) = \h68
        BY <1>15, <2>1, LoopBytes, ECHOBytes, SMT
    <2> QED
        BY <1>15, <2>2, EchoOpcodes, SMT
<1>16. CASE s.regs.pc = \hFF27
    <2> PICK w \in Int : w >= 32768 /\ w < 65533 /\ w = s.regs.pc
        BY <1>16, SMT
    <2>1. CodeByte(s, 0) = ByteAt(Polling, w)
        BY CodeHere
    <2>2. CodeByte(s, 0) = \h60
        BY <1>16, <2>1, LoopBytes, ECHOBytes, SMT
    <2> QED
        BY <1>16, <2>2, EchoOpcodes, SMT
<1> QED
    BY <1>1, <1>2, <1>3, <1>4, <1>5, <1>6, <1>7, <1>8, <1>9, <1>10, <1>11, <1>12, <1>13, <1>14, <1>15, <1>16, SMT DEF Places

-----------------------------------------------------------------------------------
(* What a load and a store leave.                                                      *)
LEMMA LoadMoves ==
    ASSUME NEW s, IsState(s), NEW op \in {"LDA", "AND"}, NEW n \in 0 .. 3, NEW t,
           Performed(s, op, n, t)', NEW c, c = Architectural(cpu'), NEW f, f = sram'
    PROVE  /\ f = s.ram
           /\ c.y = s.regs.y /\ c.sp = s.regs.sp /\ c.pc = PCAfter(s, n)
           /\ \E m \in Readable(s, t) : c = ReadResult(op, Behind(s, n), m)
<1>1. op \in ReadOps /\ op \notin ModifyOps /\ op \notin StoreOps /\ op \in PointerOps \ {"STA"}
    BY DEF ReadOps, ModifyOps, StoreOps, PointerOps
<1>2. PICK m \in Readable(s, t) : c = ReadResult(op, Behind(s, n), m) /\ f = s.ram
    BY <1>1 DEF Performed, PerformedOn, Holds, Architectural
<1>3. Behind(s, n) \in File /\ Behind(s, n).pc = PCAfter(s, n) /\ Behind(s, n).y = s.regs.y
      /\ Behind(s, n).sp = s.regs.sp
    BY BehindFields
<1>4. c.y = Behind(s, n).y /\ c.sp = Behind(s, n).sp /\ c.pc = Behind(s, n).pc
    BY <1>1, <1>2, <1>3, ReadKeeps
<1> QED
    BY <1>2, <1>3, <1>4

(* A store ends with the byte of A in the cell it addresses.                           *)
LEMMA StoreMoves ==
    ASSUME NEW s, IsState(s), NEW n \in 0 .. 3, NEW t,
           Performed(s, "STA", n, t)', NEW c, c = Architectural(cpu'), NEW f, f = sram'
    PROVE  /\ f = AfterWrite(s.ram, t, s.regs.a)
           /\ c.y = s.regs.y /\ c.sp = s.regs.sp /\ c.pc = PCAfter(s, n) /\ c.a = s.regs.a
<1>1. "STA" \notin ReadOps /\ "STA" \notin ModifyOps
    BY DEF ReadOps, ModifyOps
<1>2. c = Behind(s, n) /\ f = AfterWrite(s.ram, t, StoredByte("STA", s.regs))
    BY <1>1 DEF Performed, PerformedOn, Holds, Architectural
<1> QED
    BY <1>2, BehindFields DEF StoredByte

(* AND #$08 leaves the zero flag clear if the bit was set.                              *)
LEMMA MaskedBit ==
    ASSUME NEW d \in File, NEW c, c = ReadResult("AND", d, 8)
    PROVE  Has(c.status, ZERO) <=> ~Has(d.a, 8)
<1> DEFINE v == BitAnd(d.a, 8)
<1>1. Ones(8) = {8}
    BY DEF Ones, Masks, Has
<1>2. v = ByteOf(Ones(d.a) \cap {8})
    BY <1>1 DEF BitAnd
<1>3. v \in Byte
    BY ByteOfType DEF BitAnd
<1>4. v = 0 <=> ~Has(d.a, 8)
    <2>1. 8 \in Ones(d.a) <=> Has(d.a, 8)
        BY DEF Ones, Masks
    <2>2. CASE 8 \in Ones(d.a)
        <3>1. Ones(d.a) \cap {8} = {8}
            BY <2>2
        <3>2. v = 8
            BY <1>2, <3>1 DEF ByteOf
        <3> QED
            BY <2>1, <2>2, <3>2
    <2>3. CASE 8 \notin Ones(d.a)
        <3>1. Ones(d.a) \cap {8} = {}
            BY <2>3
        <3>2. v = 0
            BY <1>2, <3>1 DEF ByteOf
        <3> QED
            BY <2>1, <2>3, <3>2
    <2> QED
        BY <2>2, <2>3
<1>5. c = SetA(d, v)
    BY DEF ReadResult, doAND
<1> HIDE DEF v
<1>6. c.status = UpdateStatusFlags(d.status, v)
    BY <1>3, <1>5, SetFields
<1>7. PICK z, n : z = (v = 0) /\ n = Has(v, 128)
    OBVIOUS
<1>8. z \in BOOLEAN /\ n \in BOOLEAN
    BY <1>7 DEF Has
<1>9. Has(Put(Put(d.status, ZERO, z), NEGATIVE, n), ZERO) <=> z
    <2>1. ZERO \in Masks /\ NEGATIVE \in Masks /\ ZERO # NEGATIVE
        BY DEF ZERO, NEGATIVE, Masks
    <2>2. Has(Put(Put(d.status, ZERO, z), NEGATIVE, n), ZERO) <=> Has(Put(d.status, ZERO, z), ZERO)
        BY <1>8, <2>1, PutHas
    <2>3. Has(Put(d.status, ZERO, z), ZERO) <=> z
        BY <1>8, <2>1, PutHas
    <2> QED
        BY <2>2, <2>3
<1> QED
    BY <1>4, <1>6, <1>7, <1>9 DEF UpdateStatusFlags

-----------------------------------------------------------------------------------
(* What the instruction at each place of the loop makes of the registers and the SRAM: *)
(* the state s it starts from, and the registers c and memory f it leaves.              *)
EchoMove(s, c, f) ==
    /\ c.y = 0
    /\ s.regs.pc = \hFF00 => c.pc = \hFF02
    /\ s.regs.pc = \hFF02 => c.pc = \hFF05
    /\ s.regs.pc = \hFF05 => c.pc = \hFF07
    /\ s.regs.pc = \hFF07 => c.pc = \hFF0A
    /\ s.regs.pc = \hFF0A => c.pc = \hFF0D
    /\ s.regs.pc = \hFF0D => c.pc = \hFF0F /\ (Has(c.status, ZERO) <=> ~Has(s.regs.a, 8))
    /\ s.regs.pc = \hFF0F => c.pc = IF Has(s.regs.status, ZERO) THEN \hFF0A ELSE \hFF11
    /\ s.regs.pc = \hFF11 => c.pc = \hFF14
    /\ s.regs.pc = \hFF14 => c.pc = \hFF17 /\ c.a = s.regs.a
    /\ s.regs.pc = \hFF17 =>
          c.pc = \hFF1D /\ c.a = s.regs.a /\ (s.regs.sp = 255 => c.sp = 253 /\ InECHO(f))
    /\ s.regs.pc = \hFF1A => c.pc = \hFF0A
    /\ s.regs.pc = \hFF1D =>
          /\ c.pc = \hFF1E /\ c.a = s.regs.a
          /\ s.regs.sp = 253 /\ InECHO(s.ram) => c.sp = 252 /\ InECHO(f)
    /\ s.regs.pc = \hFF1E => c.pc = \hFF21
    /\ s.regs.pc = \hFF21 => c.pc = \hFF23
    /\ s.regs.pc = \hFF23 => c.pc = \hFF24
    /\ s.regs.pc = \hFF24 => c.pc \in {\hFF23, \hFF26}
    /\ s.regs.pc = \hFF26 => c.pc = \hFF27 /\ (s.regs.sp = 252 => c.sp = 253)
    /\ s.regs.pc = \hFF27 =>
          (s.regs.sp = 253 /\ InECHO(s.ram) => c.pc = \hFF1A /\ c.sp = 255)
    /\ s.regs.pc \notin {\hFF17, \hFF1D, \hFF26, \hFF27} => c.sp = s.regs.sp
    /\ s.regs.pc \in {\hFF1E, \hFF21, \hFF23, \hFF24, \hFF26} => f = s.ram

(* The loads and stores.                                                               *)
LEMMA LoadsMove ==
    ASSUME NEW s, IsState(s), s.rom = Polling, s.regs.y = 0, NEW w \in Int, w = s.regs.pc,
           w >= 32768, w < 65533,
           NEW op \in {"LDA", "AND"}, NEW mode \in {"IMM", "ABS"}, NEW soft, NEW v, NEW k,
           k = IF mode = "IMM" THEN 2 ELSE 4, OneCourse(s, op, mode, soft, v, k)',
           NEW c, c = Architectural(cpu'), NEW f, f = sram'
    PROVE  /\ c.y = 0 /\ c.sp = s.regs.sp /\ f = s.ram
           /\ c.pc = w + IF mode = "IMM" THEN 2 ELSE 3
           /\ mode = "IMM" => c = ReadResult(op, Behind(s, 2), CodeByte(s, 1))
<1>1. PCAfter(s, 2) = w + 2 /\ PCAfter(s, 3) = w + 3 /\ PCAfter(s, 1) = w + 1
    BY CodeHere
<1>2. CASE mode = "IMM"
    <2>1. Performed(s, op, 2, PCAfter(s, 1))'
        BY <1>2 DEF OneCourse, ImmediateCourse
    <2>2. /\ f = s.ram
          /\ c.y = s.regs.y /\ c.sp = s.regs.sp /\ c.pc = PCAfter(s, 2)
          /\ \E m \in Readable(s, PCAfter(s, 1)) : c = ReadResult(op, Behind(s, 2), m)
        BY <2>1, LoadMoves
    <2>3. Readable(s, PCAfter(s, 1)) = {CodeByte(s, 1)}
        <3>1. PCAfter(s, 1) \in Word /\ PCAfter(s, 1) >= 32768
            BY <1>1, BehindFields
        <3>2. InMemorySpace(PCAfter(s, 1))
            BY <3>1, MemoryAddresses
        <3> QED
            BY <3>2 DEF Readable, CodeByte
    <2> QED
        BY <1>1, <1>2, <2>2, <2>3
<1>3. CASE mode = "ABS"
    <2>1. op \in MemoryOps
        BY DEF MemoryOps, ReadOps
    <2>2. Performed(s, op, 3, Target(s, mode))'
        BY <1>3, <2>1 DEF OneCourse, AbsoluteCourse
    <2>3. f = s.ram /\ c.y = s.regs.y /\ c.sp = s.regs.sp /\ c.pc = PCAfter(s, 3)
        BY <2>2, LoadMoves
    <2> QED
        BY <1>1, <1>3, <2>3
<1> QED
    BY <1>2, <1>3

(* Its store, by either mode: the registers stay, and the program goes on behind it.   *)
LEMMA StoresMove ==
    ASSUME NEW s, IsState(s), s.rom = Polling, s.regs.y = 0, NEW w \in Int, w = s.regs.pc,
           w >= 32768, w < 65533,
           NEW mode \in {"ABS", "ABSY"}, NEW soft, NEW v, NEW k \in {4, 5},
           OneCourse(s, "STA", mode, soft, v, k)',
           NEW c, c = Architectural(cpu'), NEW f, f = sram'
    PROVE  /\ c.y = 0 /\ c.sp = s.regs.sp /\ c.pc = w + 3 /\ c.a = s.regs.a
           /\ f = AfterWrite(s.ram, Target(s, mode), s.regs.a)
<1>1. PCAfter(s, 3) = w + 3
    BY CodeHere
<1>2. "STA" \in MemoryOps
    BY DEF MemoryOps, StoreOps
<1>3. Performed(s, "STA", 3, Target(s, mode))'
    BY <1>2 DEF OneCourse, AbsoluteCourse
<1> QED
    BY <1>1, <1>3, StoreMoves

(* The jumps and branches of the loop.                                                 *)
LEMMA BranchMoves ==
    ASSUME NEW s, IsState(s), NEW op \in {"BEQ", "BNE"}, NEW soft, NEW v,
           OneCourse(s, op, "REL", soft, v, 4)', NEW c, c = Architectural(cpu'), NEW f, f = sram'
    PROVE  /\ c = [s.regs EXCEPT !.pc = IF Taken(op, s.regs.status) THEN BranchTarget(s)
                                        ELSE PCAfter(s, 2)]
           /\ f = s.ram
           /\ c.y = s.regs.y /\ c.sp = s.regs.sp
           /\ c.pc = IF Taken(op, s.regs.status) THEN BranchTarget(s) ELSE PCAfter(s, 2)
<1>1. Holds([s.regs EXCEPT !.pc = IF Taken(op, s.regs.status)
                                  THEN U16(PCAfter(s, 2) + Signed(CodeByte(s, 1)))
                                  ELSE PCAfter(s, 2)], s.ram)'
    BY DEF OneCourse, RelativeCourse
<1>2. /\ c = [s.regs EXCEPT !.pc = IF Taken(op, s.regs.status) THEN BranchTarget(s)
                                   ELSE PCAfter(s, 2)]
      /\ f = s.ram
    BY <1>1 DEF Holds, BranchTarget, Architectural
<1>3. s.regs \in File
    BY DEF IsState
<1> QED
    BY <1>2, <1>3 DEF File

(* A jump goes where its two bytes say.                                                *)
LEMMA JumpMoves ==
    ASSUME NEW s, IsState(s), NEW soft, NEW v,
           OneCourse(s, "JMP", "ABS", soft, v, 3)', NEW c, c = Architectural(cpu'), NEW f, f = sram'
    PROVE  f = s.ram /\ c.y = s.regs.y /\ c.sp = s.regs.sp /\ c.pc = CodeWord(s)
<1>1. Holds([s.regs EXCEPT !.pc = CodeWord(s)], s.ram)'
    BY DEF OneCourse, JumpCourse
<1>2. s.regs \in File
    BY DEF IsState
<1> QED
    BY <1>1, <1>2 DEF Holds, Architectural, File

(* DEC of the accumulator.                                                             *)
LEMMA CountMoves ==
    ASSUME NEW s, IsState(s), NEW soft, NEW v,
           OneCourse(s, "DEC", "ACC", soft, v, 2)', NEW c, c = Architectural(cpu'), NEW f, f = sram'
    PROVE  f = s.ram /\ c.y = s.regs.y /\ c.sp = s.regs.sp /\ c.pc = PCAfter(s, 1)
<1> DEFINE r == ModifyResult("DEC", s.regs.status, s.regs.a)
           b == Behind(s, 1)
           d == [b EXCEPT !.status = Put(b.status, CARRY, r.carry)]
<1>1. c = SetA(d, r.value) /\ f = s.ram
    BY DEF OneCourse, AccumulatorCourse, Holds, ToAccumulator, Architectural
<1>2. r.value \in Byte
    <2>1. s.regs.a \in Int
        BY ByteMember DEF IsState, File
    <2>2. r.value = U8(s.regs.a - 1)
        BY DEF ModifyResult, DEC
    <2> QED
        BY <2>1, <2>2, NarrowType
<1>3. b \in File /\ b.pc = PCAfter(s, 1) /\ b.y = s.regs.y /\ b.sp = s.regs.sp
    BY BehindFields
<1>4. Put(b.status, CARRY, r.carry) \in Byte
    BY PutType
<1> HIDE DEF r, b
<1>5. d \in File /\ d.pc = b.pc /\ d.y = b.y /\ d.sp = b.sp
    BY <1>3, <1>4 DEF File
<1> HIDE DEF d
<1> QED
    BY <1>1, <1>2, <1>3, <1>5, SetFields

(* The stack pointer, one and two bytes down and up.                                   *)
LEMMA SlotsOf ==
    ASSUME NEW s, NEW p, s.regs.sp = p
    PROVE  /\ p = 255 => /\ Moved(s, -2) = 253 /\ SlotAt(s, 0) = 511 /\ SlotAt(s, -1) = 510
           /\ p = 253 => /\ Moved(s, -1) = 252 /\ SlotAt(s, 0) = 509
                         /\ Moved(s, 2) = 255 /\ SlotAt(s, 1) = 510 /\ SlotAt(s, 2) = 511
           /\ p = 252 => Moved(s, 1) = 253
<1>1. CASE p = 255
    BY <1>1, SMT DEF Moved, SlotAt, U8
<1>2. CASE p = 253
    BY <1>2, SMT DEF Moved, SlotAt, U8
<1>3. CASE p = 252
    BY <1>3, SMT DEF Moved, SlotAt, U8
<1> QED
    BY <1>1, <1>2, <1>3

(* PHA pushes below the return address that ECHO is called with.                       *)
LEMMA PushMoves ==
    ASSUME NEW s, IsState(s), NEW soft, NEW v,
           OneCourse(s, "PHA", "IMP", soft, v, 3)', NEW c, c = Architectural(cpu'), NEW f, f = sram'
    PROVE  /\ c.y = s.regs.y /\ c.a = s.regs.a /\ c.pc = PCAfter(s, 1)
           /\ s.regs.sp = 253 /\ InECHO(s.ram) => c.sp = 252 /\ InECHO(f)
<1>1. c = WithPC(s, PCAfter(s, 1), -1) /\ f = AfterWrite(s.ram, SlotAt(s, 0), s.regs.a)
    BY DEF OneCourse, PushCourse, Holds, Architectural
<1>2. /\ c.y = s.regs.y /\ c.a = s.regs.a /\ c.pc = PCAfter(s, 1) /\ c.sp = Moved(s, -1)
    BY <1>1, BehindFields, WithPCFields
<1>3. ASSUME s.regs.sp = 253, InECHO(s.ram)
      PROVE  c.sp = 252 /\ InECHO(f)
    <2>1. Moved(s, -1) = 252 /\ SlotAt(s, 0) = 509
        BY <1>3, SlotsOf
    <2>2. 509 \in Word
        BY WordMember, SMT
    <2>3. ByteAt(f, 511) = ByteAt(s.ram, 511) /\ ByteAt(f, 510) = ByteAt(s.ram, 510)
        BY <1>1, <2>1, <2>2, WriteReads, SMT
    <2> QED
        BY <1>2, <1>3, <2>1, <2>3 DEF InECHO
<1> QED
    BY <1>2, <1>3

(* PLA gives the stack back.                                                           *)
LEMMA PullMoves ==
    ASSUME NEW s, IsState(s), NEW soft, NEW v,
           OneCourse(s, "PLA", "IMP", soft, v, 4)', NEW c, c = Architectural(cpu'), NEW f, f = sram'
    PROVE  f = s.ram /\ c.y = s.regs.y /\ c.pc = PCAfter(s, 1) /\ c.sp = Moved(s, 1)
<1> DEFINE p == WithPC(s, PCAfter(s, 1), 1)
           m == Peek(s, SlotAt(s, 1))
<1>1. c = SetA(p, m) /\ f = s.ram
    BY DEF OneCourse, PullCourse, AfterPull, Holds, Architectural
<1>2. p \in File /\ p.pc = PCAfter(s, 1) /\ p.y = s.regs.y /\ p.sp = Moved(s, 1)
    BY BehindFields, WithPCFields
<1>3. m \in Byte
    BY CellType
<1> QED
    BY <1>1, <1>2, <1>3, SetFields

(* RTS comes back to the instruction behind the call.                                  *)
LEMMA ReturnMoves ==
    ASSUME NEW s, IsState(s), NEW soft, NEW v,
           OneCourse(s, "RTS", "IMP", soft, v, 6)', NEW c, c = Architectural(cpu'), NEW f, f = sram'
    PROVE  /\ c.y = s.regs.y
           /\ s.regs.sp = 253 /\ InECHO(s.ram) => c.pc = \hFF1A /\ c.sp = 255
<1> DEFINE target == Join(Peek(s, SlotAt(s, 2)), Peek(s, SlotAt(s, 1)))
<1>1. c = WithPC(s, U16(target + 1), 2)
    BY DEF OneCourse, ReturnCourse, Holds, Architectural
<1>2. target \in Int
    <2>1. Peek(s, SlotAt(s, 2)) \in Byte /\ Peek(s, SlotAt(s, 1)) \in Byte
        BY CellType
    <2>2. target \in Word
        BY <2>1, JoinType
    <2> QED
        BY <2>2, WordMember
<1>3. U16(target + 1) \in Word
    BY <1>2, NarrowType
<1>4. c.y = s.regs.y /\ c.pc = U16(target + 1) /\ c.sp = Moved(s, 2)
    BY <1>1, <1>3, WithPCFields
<1>5. ASSUME s.regs.sp = 253, InECHO(s.ram)
      PROVE  c.pc = \hFF1A /\ c.sp = 255
    <2>1. Moved(s, 2) = 255 /\ SlotAt(s, 1) = 510 /\ SlotAt(s, 2) = 511
        BY <1>5, SlotsOf
    <2>2. Peek(s, 511) = \hFF /\ Peek(s, 510) = \h19
        BY <1>5, SMT DEF InECHO, Peek, EEPROM_FIRST
    <2>3. target + 1 = \hFF1A
        BY <2>1, <2>2, SMT DEF Join
    <2>4. U16(\hFF1A) = \hFF1A
        BY SMT DEF U16
    <2> QED
        BY <1>4, <2>1, <2>3, <2>4
<1> QED
    BY <1>4, <1>5

(* JSR leaves the return address on the stack.                                         *)
LEMMA CallMoves ==
    ASSUME NEW s, IsState(s), s.rom = Polling, s.regs.pc = \hFF17, NEW soft, NEW v,
           OneCourse(s, "JSR", "ABS", soft, v, 6)', NEW c, c = Architectural(cpu'), NEW f, f = sram'
    PROVE  /\ c.y = s.regs.y /\ c.a = s.regs.a /\ c.pc = CodeWord(s)
           /\ s.regs.sp = 255 => c.sp = 253 /\ InECHO(f)
<1>1. PICK last \in Int : last = \hFF19
    OBVIOUS
<1>2. PCAfter(s, 2) = last
    <2>1. PICK w \in Int : w >= 32768 /\ w < 65533 /\ w = \hFF17
        BY SMT
    <2>2. PCAfter(s, 2) = w + 2
        BY <2>1, CodeHere
    <2> QED
        BY <1>1, <2>1, <2>2, SMT
<1> DEFINE pushed == Pushed2(s, last)
           high == Peek([s EXCEPT !.ram = pushed], last)
<1>3. c = WithPC(s, Join(high, CodeByte(s, 1)), -2) /\ f = pushed
    BY <1>2 DEF OneCourse, CallCourse, Holds, Architectural
<1>4. high = CodeByte(s, 2)
    <2>1. last >= 32768
        BY <1>1, SMT
    <2>2. high = Peek(s, last)
        BY <2>1, CellInEEPROM
    <2> QED
        BY <1>2, <2>2 DEF CodeByte
<1>5. CodeWord(s) \in Word
    BY CodeTypes
<1> HIDE DEF pushed, high
<1>6. c = WithPC(s, CodeWord(s), -2)
    BY <1>3, <1>4 DEF CodeWord
<1>7. c.y = s.regs.y /\ c.a = s.regs.a /\ c.pc = CodeWord(s) /\ c.sp = Moved(s, -2)
    BY <1>5, <1>6, WithPCFields
<1>8. ASSUME s.regs.sp = 255
      PROVE  c.sp = 253 /\ InECHO(f)
    <2>1. Moved(s, -2) = 253 /\ SlotAt(s, 0) = 511 /\ SlotAt(s, -1) = 510
        BY <1>8, SlotsOf
    <2>2. Hi(last) = \hFF /\ Lo(last) = \h19
        BY <1>1, SMT DEF Hi, Lo
    <2>3. PICK e : e = AfterWrite(s.ram, 511, \hFF)
        OBVIOUS
    <2>4. f = AfterWrite(e, 510, \h19)
        BY <1>3, <2>1, <2>2, <2>3 DEF pushed, Pushed1, Pushed2
    <2>5. 511 \in Word /\ 510 \in Word
        BY WordMember, SMT
    <2>6. ByteAt(e, 511) = \hFF
        BY <2>3, <2>5, WriteReads, SMT
    <2>7. ByteAt(f, 511) = ByteAt(e, 511) /\ ByteAt(f, 510) = \h19
        BY <2>4, <2>5, WriteReads, SMT
    <2> QED
        BY <1>7, <2>1, <2>6, <2>7 DEF InECHO
<1> QED
    BY <1>7, <1>8

(* A store to a device leaves the SRAM.                                                *)
LEMMA DeviceStores ==
    ASSUME NEW f, NEW v, NEW t \in {\h5000, \h5001, \h5002, \h5003}
    PROVE  AfterWrite(f, t, v) = f /\ ~VIASelected(t) /\ ACIASelected(t)
<1>1. ~Has(t, A15) /\ Has(t, A14) /\ ~Has(t, A13) /\ Has(t, A12)
    BY SMT DEF Has, A15, A14, A13, A12
<1> QED
    BY <1>1 DEF AfterWrite, SRAMSelected, VIASelected, ACIASelected

(* The instruction at each place leaves what EchoMove says.                            *)
LEMMA EchoMoves ==
    ASSUME NEW s, IsState(s), s.rom = Polling, s.regs.pc \in Places, s.regs.y = 0,
           NEW i, i = OpcodeMap[CodeByte(s, 0)], NEW soft, NEW v,
           OneCourse(s, i.op, i.mode, soft, v, i.cycles)',
           NEW c, c = Architectural(cpu'), NEW f, f = sram'
    PROVE  EchoMove(s, c, f)
<1> PICK w \in Int : w >= 32768 /\ w < 65533 /\ w = s.regs.pc
    BY SMT DEF Places
<1>1. PCAfter(s, 1) = w + 1 /\ PCAfter(s, 2) = w + 2
    BY CodeHere
<1>2. CASE w \in {\hFF00, \hFF05, \hFF21}
    <2>1. i.op = "LDA" /\ i.mode = "IMM" /\ i.cycles = 2
        BY <1>2, EchoCode, SMT
    <2>2. OneCourse(s, "LDA", "IMM", soft, v, 2)'
        BY <2>1
    <2>3. c.y = 0 /\ c.sp = s.regs.sp /\ f = s.ram /\ c.pc = w + 2
        BY <2>2, LoadsMove
    <2> QED
        BY <1>2, <2>3, SMT DEF EchoMove
<1>3. CASE w \in {\hFF0A, \hFF11}
    <2>1. i.op = "LDA" /\ i.mode = "ABS" /\ i.cycles = 4
        BY <1>3, EchoCode, SMT
    <2>2. OneCourse(s, "LDA", "ABS", soft, v, 4)'
        BY <2>1
    <2>3. c.y = 0 /\ c.sp = s.regs.sp /\ f = s.ram /\ c.pc = w + 3
        BY <2>2, LoadsMove
    <2> QED
        BY <1>3, <2>3, SMT DEF EchoMove
<1>4. CASE w \in {\hFF02, \hFF07, \hFF1E}
    <2>1. i.op = "STA" /\ i.mode = "ABS" /\ i.cycles = 4 /\ CodeWord(s) \in {\h5000, \h5002, \h5003}
        BY <1>4, EchoCode, SMT
    <2>2. OneCourse(s, "STA", "ABS", soft, v, 4)'
        BY <2>1
    <2>3. /\ c.y = 0 /\ c.sp = s.regs.sp /\ c.pc = w + 3
          /\ f = AfterWrite(s.ram, Target(s, "ABS"), s.regs.a)
        BY <2>2, StoresMove
    <2>4. Target(s, "ABS") \in {\h5000, \h5002, \h5003}
        BY <2>1 DEF Target
    <2>5. f = s.ram
        BY <2>3, <2>4, DeviceStores, SMT
    <2> QED
        BY <1>4, <2>3, <2>5, SMT DEF EchoMove
<1>5. CASE s.regs.pc = \hFF0D
    <2>1. i.op = "AND" /\ i.mode = "IMM" /\ i.cycles = 2 /\ CodeByte(s, 1) = 8
        BY <1>5, EchoCode, SMT
    <2>2. OneCourse(s, "AND", "IMM", soft, v, 2)'
        BY <2>1
    <2>3. /\ c.y = 0 /\ c.sp = s.regs.sp /\ f = s.ram /\ c.pc = w + 2
          /\ c = ReadResult("AND", Behind(s, 2), CodeByte(s, 1))
        BY <2>2, LoadsMove
    <2>4. Has(c.status, ZERO) <=> ~Has(Behind(s, 2).a, 8)
        BY <2>1, <2>3, MaskedBit, BehindFields
    <2>5. Has(c.status, ZERO) <=> ~Has(s.regs.a, 8)
        BY <2>4, BehindFields
    <2> QED
        BY <1>5, <2>3, <2>5, SMT DEF EchoMove
<1>6. CASE s.regs.pc = \hFF0F
    <2>1. i.op = "BEQ" /\ i.mode = "REL" /\ i.cycles = 4 /\ BranchTarget(s) = \hFF0A
        BY <1>6, EchoCode, SMT
    <2>2. OneCourse(s, "BEQ", "REL", soft, v, 4)'
        BY <2>1
    <2>3. /\ c.y = s.regs.y /\ c.sp = s.regs.sp /\ f = s.ram
          /\ c.pc = IF Taken("BEQ", s.regs.status) THEN BranchTarget(s) ELSE PCAfter(s, 2)
        BY <2>2, BranchMoves
    <2>4. Taken("BEQ", s.regs.status) <=> Has(s.regs.status, ZERO)
        BY DEF Taken
    <2>5. c.pc = IF Has(s.regs.status, ZERO) THEN \hFF0A ELSE \hFF11
        BY <1>1, <1>6, <2>1, <2>3, <2>4, SMT
    <2> QED
        BY <1>6, <2>3, <2>5, SMT DEF EchoMove
<1>7. CASE s.regs.pc = \hFF24
    <2>1. i.op = "BNE" /\ i.mode = "REL" /\ i.cycles = 4 /\ BranchTarget(s) = \hFF23
        BY <1>7, EchoCode, SMT
    <2>2. OneCourse(s, "BNE", "REL", soft, v, 4)'
        BY <2>1
    <2>3. /\ c.y = s.regs.y /\ c.sp = s.regs.sp /\ f = s.ram
          /\ c.pc = IF Taken("BNE", s.regs.status) THEN BranchTarget(s) ELSE PCAfter(s, 2)
        BY <2>2, BranchMoves
    <2>4. c.pc \in {\hFF23, \hFF26}
        BY <1>1, <1>7, <2>1, <2>3, SMT
    <2> QED
        BY <1>7, <2>3, <2>4, SMT DEF EchoMove
<1>8. CASE s.regs.pc = \hFF14
    <2>1. i.op = "STA" /\ i.mode = "ABSY" /\ i.cycles = 5
        BY <1>8, EchoCode, SMT
    <2>2. OneCourse(s, "STA", "ABSY", soft, v, 5)'
        BY <2>1
    <2>3. c.y = 0 /\ c.sp = s.regs.sp /\ c.pc = w + 3 /\ c.a = s.regs.a
        BY <2>2, StoresMove
    <2> QED
        BY <1>8, <2>3, SMT DEF EchoMove
<1>9. CASE s.regs.pc = \hFF17
    <2>1. i.op = "JSR" /\ i.mode = "ABS" /\ i.cycles = 6 /\ CodeWord(s) = \hFF1D
        BY <1>9, EchoCode, SMT
    <2>2. OneCourse(s, "JSR", "ABS", soft, v, 6)'
        BY <2>1
    <2>3. /\ c.y = s.regs.y /\ c.a = s.regs.a /\ c.pc = CodeWord(s)
          /\ s.regs.sp = 255 => c.sp = 253 /\ InECHO(f)
        BY <1>9, <2>2, CallMoves
    <2> QED
        BY <1>9, <2>1, <2>3, SMT DEF EchoMove
<1>10. CASE s.regs.pc = \hFF1A
    <2>1. i.op = "JMP" /\ i.mode = "ABS" /\ i.cycles = 3 /\ CodeWord(s) = \hFF0A
        BY <1>10, EchoCode, SMT
    <2>2. OneCourse(s, "JMP", "ABS", soft, v, 3)'
        BY <2>1
    <2>3. c.y = s.regs.y /\ c.sp = s.regs.sp /\ f = s.ram /\ c.pc = CodeWord(s)
        BY <2>2, JumpMoves
    <2> QED
        BY <1>10, <2>1, <2>3, SMT DEF EchoMove
<1>11. CASE s.regs.pc = \hFF1D
    <2>1. i.op = "PHA" /\ i.mode = "IMP" /\ i.cycles = 3
        BY <1>11, EchoCode, SMT
    <2>2. OneCourse(s, "PHA", "IMP", soft, v, 3)'
        BY <2>1
    <2>3. /\ c.y = s.regs.y /\ c.a = s.regs.a /\ c.pc = w + 1
          /\ s.regs.sp = 253 /\ InECHO(s.ram) => c.sp = 252 /\ InECHO(f)
        BY <1>1, <2>2, PushMoves
    <2> QED
        BY <1>11, <2>3, SMT DEF EchoMove
<1>12. CASE s.regs.pc = \hFF23
    <2>1. i.op = "DEC" /\ i.mode = "ACC" /\ i.cycles = 2
        BY <1>12, EchoCode, SMT
    <2>2. OneCourse(s, "DEC", "ACC", soft, v, 2)'
        BY <2>1
    <2>3. c.y = s.regs.y /\ c.sp = s.regs.sp /\ f = s.ram /\ c.pc = w + 1
        BY <1>1, <2>2, CountMoves
    <2> QED
        BY <1>12, <2>3, SMT DEF EchoMove
<1>13. CASE s.regs.pc = \hFF26
    <2>1. i.op = "PLA" /\ i.mode = "IMP" /\ i.cycles = 4
        BY <1>13, EchoCode, SMT
    <2>2. OneCourse(s, "PLA", "IMP", soft, v, 4)'
        BY <2>1
    <2>3. c.y = s.regs.y /\ c.sp = Moved(s, 1) /\ f = s.ram /\ c.pc = w + 1
        BY <1>1, <2>2, PullMoves
    <2>4. s.regs.sp = 252 => c.sp = 253
        BY <2>3, SlotsOf
    <2> QED
        BY <1>13, <2>3, <2>4, SMT DEF EchoMove
<1>14. CASE s.regs.pc = \hFF27
    <2>1. i.op = "RTS" /\ i.mode = "IMP" /\ i.cycles = 6
        BY <1>14, EchoCode, SMT
    <2>2. OneCourse(s, "RTS", "IMP", soft, v, 6)'
        BY <2>1
    <2>3. /\ c.y = s.regs.y
          /\ s.regs.sp = 253 /\ InECHO(s.ram) => c.pc = \hFF1A /\ c.sp = 255
        BY <2>2, ReturnMoves
    <2> QED
        BY <1>14, <2>3, SMT DEF EchoMove
<1> QED
    BY <1>2, <1>3, <1>4, <1>5, <1>6, <1>7, <1>8, <1>9, <1>10, <1>11, <1>12, <1>13, <1>14, SMT DEF Places

(* Where the instructions of the loop reach.                                           *)
LEMMA EchoReaches ==
    ASSUME NEW s, s.rom = Polling, s.regs.pc \in Places,
           NEW i, i = OpcodeMap[CodeByte(s, 0)]
    PROVE  /\ i.mode \in {"IMM", "ABS", "ABSY", "IMP", "ACC", "REL"}
           /\ i.mode = "REL" => BranchTarget(s) \in {\hFF0A, \hFF23}
           /\ i.mode = "ABS" /\ i.op \in MemoryOps =>
                  CodeWord(s) \in {\h5000, \h5001, \h5002, \h5003}
           /\ i.mode = "ABSY" => CodeWord(s) = 512
           /\ i.op \in MemoryOps => i.mode # "IMP"
<1>1. CASE s.regs.pc \in {\hFF00, \hFF05, \hFF21, \hFF0D}
    <2>1. i.mode = "IMM"
        BY <1>1, EchoCode, SMT
    <2> QED
        BY <2>1
<1>2. CASE s.regs.pc \in {\hFF02, \hFF07, \hFF0A, \hFF11, \hFF1E}
    <2>1. i.mode = "ABS" /\ CodeWord(s) \in {\h5000, \h5001, \h5002, \h5003}
        BY <1>2, EchoCode, SMT
    <2> QED
        BY <2>1
<1>3. CASE s.regs.pc \in {\hFF0F, \hFF24}
    <2>1. i.mode = "REL" /\ BranchTarget(s) \in {\hFF0A, \hFF23}
        BY <1>3, EchoCode, SMT
    <2> QED
        BY <2>1
<1>4. CASE s.regs.pc = \hFF14
    <2>1. i.mode = "ABSY" /\ CodeWord(s) = 512
        BY <1>4, EchoCode, SMT
    <2> QED
        BY <2>1
<1>5. CASE s.regs.pc \in {\hFF17, \hFF1A}
    <2>1. i.mode = "ABS" /\ i.op \in {"JSR", "JMP"}
        BY <1>5, EchoCode, SMT
    <2> QED
        BY <2>1 DEF MemoryOps, ReadOps, ModifyOps, StoreOps
<1>6. CASE s.regs.pc \in {\hFF1D, \hFF26, \hFF27}
    <2>1. i.mode = "IMP" /\ i.op \in {"PHA", "PLA", "RTS"}
        BY <1>6, EchoCode, SMT
    <2> QED
        BY <2>1 DEF MemoryOps, ReadOps, ModifyOps, StoreOps
<1>7. CASE s.regs.pc = \hFF23
    <2>1. i.mode = "ACC"
        BY <1>7, EchoCode, SMT
    <2> QED
        BY <2>1
<1> QED
    BY <1>1, <1>2, <1>3, <1>4, <1>5, <1>6, <1>7, SMT DEF Places

(* So they stay inside.                                                                *)
LEMMA EchoInside ==
    ASSUME NEW s, IsState(s), s.rom = Polling, s.regs.pc \in Places, s.regs.y = 0
    PROVE  Contained(s)
<1> PICK w \in Int : w >= 32768 /\ w < 65533 /\ w = s.regs.pc
    BY SMT DEF Places
<1> PICK i : i = OpcodeMap[CodeByte(s, 0)]
    OBVIOUS
<1>1. \A n \in 0 .. 3 : InMemorySpace(PCAfter(s, n))
    <2> TAKE n \in 0 .. 3
    <2>1. PCAfter(s, n) = w + n
        BY CodeAt
    <2>2. PCAfter(s, n) \in Word
        BY BehindFields
    <2>3. w + n >= 32768
        OBVIOUS
    <2> QED
        BY <2>1, <2>2, <2>3, MemoryAddresses
<1>2. i.mode = "REL" => InMemorySpace(BranchTarget(s))
    <2>1. \hFF0A \in Word /\ \hFF23 \in Word
        BY WordMember, SMT
    <2>2. InMemorySpace(\hFF0A) /\ InMemorySpace(\hFF23)
        BY <2>1, MemoryAddresses, SMT
    <2> QED
        BY <2>2, EchoReaches
<1>3. ASSUME i.op \in MemoryOps, i.mode # "ACC"
      PROVE  Decoded(Target(s, i.mode))
    <2>1. i.mode \in {"IMM", "ABS", "ABSY"} \/ i.mode = "REL"
        BY <1>3, EchoReaches
    <2>2. CASE i.mode = "IMM"
        BY <1>1, <2>2 DEF Target, Decoded
    <2>3. CASE i.mode = "ABS"
        <3>1. CodeWord(s) \in {\h5000, \h5001, \h5002, \h5003}
            BY <1>3, <2>3, EchoReaches
        <3>2. ACIASelected(CodeWord(s))
            BY <3>1, DeviceStores
        <3> QED
            BY <2>3, <3>2 DEF Target, Decoded
    <2>4. CASE i.mode = "ABSY"
        <3>1. Target(s, "ABSY") = U16(CodeWord(s) + s.regs.y)
            BY DEF Target, Index
        <3>2. CodeWord(s) + s.regs.y = 512
            BY <2>4, EchoReaches
        <3>3. U16(512) = 512
            BY SMT DEF U16
        <3>4. 512 \in Word
            BY WordMember, SMT
        <3>5. InMemorySpace(512)
            BY <3>4, MemoryAddresses, SMT
        <3> QED
            BY <2>4, <3>1, <3>2, <3>3, <3>5 DEF Decoded
    <2>5. i.mode # "REL"
        <3>1. CASE s.regs.pc \in {\hFF0F, \hFF24}
            <4>1. i.op \in {"BEQ", "BNE"}
                BY <3>1, EchoCode, SMT
            <4> QED
                BY <1>3, <4>1 DEF MemoryOps, ReadOps, ModifyOps, StoreOps
        <3>2. CASE s.regs.pc \notin {\hFF0F, \hFF24}
            BY <3>2, EchoCode, SMT DEF Places
        <3> QED
            BY <3>1, <3>2
    <2> QED
        BY <2>1, <2>2, <2>3, <2>4, <2>5
<1>4. i.mode # "IND"
    BY EchoReaches
<1> QED
    BY <1>1, <1>2, <1>3, <1>4 DEF Contained

-----------------------------------------------------------------------------------
(* The receiver's full bit is bit 3 of the byte a poll reads.                          *)
LEMMA StatusByteBits ==
    ASSUME status \in SUBSET Flags
    PROVE  Has(StatusByte, 8) <=> RDRF \in status
<1>1. /\ ~Has(0, 8) /\ ~Has(0, 4) /\ ~Has(4, 8) /\ Has(4, 4)
      /\ Has(8, 8) /\ ~Has(8, 4) /\ Has(12, 8) /\ Has(12, 4)
    BY DEF Has
<1>2. \E b \in {0, 4, 8, 12} : ReceiverBits(b) = status
    <2>1. ReceiverBits(0) = {} /\ ReceiverBits(4) = {OVRN} /\ ReceiverBits(8) = {RDRF}
          /\ ReceiverBits(12) = Flags
        BY <1>1 DEF ReceiverBits, Flags, RDRF, OVRN
    <2>2. status = {} \/ status = {OVRN} \/ status = {RDRF} \/ status = Flags
        BY DEF Flags
    <2> QED
        BY <2>1, <2>2
<1>3. ReceiverBits(StatusByte) = status
    BY <1>2 DEF StatusByte
<1>4. RDRF \in ReceiverBits(StatusByte) <=> Has(StatusByte, 8)
    BY DEF ReceiverBits, Flags
<1> QED
    BY <1>3, <1>4

-----------------------------------------------------------------------------------
(* Where the loop stands, and what it is about to carry out.                           *)
LEMMA EchoStands ==
    ASSUME EchoInv, NEW s, s = Origin
    PROVE  /\ IsState(s) /\ s.rom = Polling /\ s.regs.pc \in Places /\ s.regs.y = 0
           /\ s.regs = boundary.regs /\ s.ram = boundary.ram
           /\ StaysInside /\ CodeInMemory
<1>1. TraceInv /\ BusInv /\ rom = Polling /\ EchoAt(boundary.regs, boundary.ram)
    BY DEF EchoInv
<1>2. /\ IsState(s) /\ s.rom = Polling
      /\ s.regs = boundary.regs /\ s.ram = boundary.ram
    BY <1>1, OriginIsState
<1>3. s.regs.pc \in Places /\ s.regs.y = 0
    BY <1>1, <1>2, SMT DEF EchoAt, Places
<1>4. StaysInside
    BY <1>2, <1>3, EchoInside DEF StaysInside
<1>5. CodeInMemory
    BY <1>1, BusCode DEF BusInv
<1> QED
    BY <1>2, <1>3, <1>4, <1>5

(* The instruction under way is the one at its place in the loop.                      *)
LEMMA EchoRuns ==
    ASSUME EchoInv, Cycle # 0, NEW s, s = Origin, NEW i, i = OpcodeMap[CodeByte(s, 0)]
    PROVE  /\ Known /\ OpcodeMap[cpu.ir] = i /\ Op = i.op /\ Mode = i.mode
           /\ OneCourse(s, i.op, i.mode, cpu.fromSW, cpu.vector, cpu.cycle)
<1>1. cpu.cycle > 0
    <2>1. cpu.cycle \in 0 .. 7
        BY DEF EchoInv, TraceInv, Inv, TypeOK, Registers
    <2> QED
        BY <2>1 DEF Cycle
<1>2. cpu.ir = CodeByte(s, 0)
    BY <1>1 DEF EchoInv
<1>3. s.rom = Polling /\ s.regs.pc \in Places
    BY EchoStands
<1>4. Known
    BY <1>2, <1>3, EchoCode DEF Known
<1>5. OpcodeMap[cpu.ir] = i /\ Op = i.op /\ Mode = i.mode
    BY <1>2 DEF Op, Mode
<1>6. Course(s, Op, Mode, cpu.fromSW, cpu.vector, cpu.cycle)
    BY <1>1, <1>4 DEF EchoInv, TraceInv, OnCourse
<1> QED
    BY <1>4, <1>5, <1>6, CourseIsOne

(* At five places the instruction reaches the ACIA, in its cycle 3, its last.          *)
StorePlaces == {\hFF02, \hFF07, \hFF1E}
LoadPlaces  == {\hFF0A, \hFF11}

(* There it is the register that the program means, and the access it means.           *)
LEMMA EchoReachesACIA ==
    ASSUME EchoInv, edge = "HIGH", Cycle = 3, NEW s, s = Origin, s.regs.pc \in StorePlaces \cup LoadPlaces
    PROVE  /\ AtOperand /\ Mode = "ABS" /\ address = CodeWord(s)
           /\ OpcodeMap[cpu.ir].cycles = 4
           /\ s.regs.pc \in StorePlaces => Op = "STA" /\ Writing(AtACIA) /\ ~Reading(AtACIA) /\ Reg # STATUS
           /\ s.regs.pc \in LoadPlaces => Op = "LDA" /\ Reading(AtACIA) /\ ~Writing(AtACIA)
           /\ ~AtVIA
           /\ s.regs.pc = \hFF02 => Reg = CONTROL
           /\ s.regs.pc = \hFF07 => Reg = COMMAND
           /\ s.regs.pc = \hFF0A => Reg = STATUS
           /\ s.regs.pc \in {\hFF11, \hFF1E} => Reg = DATA
           /\ cpu.a = s.regs.a
<1> PICK i : i = OpcodeMap[CodeByte(s, 0)]
    OBVIOUS
<1>1. /\ Known /\ OpcodeMap[cpu.ir] = i /\ Op = i.op /\ Mode = i.mode
      /\ OneCourse(s, i.op, i.mode, cpu.fromSW, cpu.vector, cpu.cycle)
    BY EchoRuns
<1>2. IsState(s) /\ s.rom = Polling
    BY EchoStands
<1>3. /\ s.regs.pc \in StorePlaces => i.op = "STA"
      /\ s.regs.pc \in LoadPlaces => i.op = "LDA"
      /\ i.mode = "ABS" /\ i.cycles = 4
    <2>1. s.regs.pc \in StorePlaces => i = [op |-> "STA", mode |-> "ABS", cycles |-> 4]
        BY <1>2, EchoCode, SMT DEF StorePlaces
    <2>2. s.regs.pc \in LoadPlaces => i = [op |-> "LDA", mode |-> "ABS", cycles |-> 4]
        BY <1>2, EchoCode, SMT DEF LoadPlaces
    <2> QED
        BY <2>1, <2>2
<1>4. /\ s.regs.pc = \hFF02 => CodeWord(s) = \h5003
      /\ s.regs.pc = \hFF07 => CodeWord(s) = \h5002
      /\ s.regs.pc = \hFF0A => CodeWord(s) = \h5001
      /\ s.regs.pc \in {\hFF11, \hFF1E} => CodeWord(s) = \h5000
    BY <1>2, EchoCode, SMT
<1>5. CodeWord(s) \in {\h5000, \h5001, \h5002, \h5003}
    BY <1>4, SMT DEF StorePlaces, LoadPlaces
<1>6. i.op \in MemoryOps
    BY <1>3 DEF StorePlaces, LoadPlaces, MemoryOps, ReadOps, StoreOps
<1>7. AbsoluteCourse(s, i.op, "ABS", cpu.cycle)
    BY <1>1, <1>3, <1>6 DEF OneCourse
<1>8. Ready(s, 3, CodeWord(s))
    BY <1>7 DEF AbsoluteCourse, Cycle, Target
<1>9. address = CodeWord(s) /\ Architectural(cpu) = Behind(s, 3)
    BY <1>8 DEF Ready, Driving, Holds
<1>10. cpu.a = s.regs.a
    BY <1>2, <1>9, Shown, BehindFields
<1>11. AtACIA /\ ~AtVIA
    BY <1>5, <1>9, DeviceStores DEF AtACIA, AtVIA
<1>12. /\ s.regs.pc = \hFF02 => Reg = CONTROL
       /\ s.regs.pc = \hFF07 => Reg = COMMAND
       /\ s.regs.pc = \hFF0A => Reg = STATUS
       /\ s.regs.pc \in {\hFF11, \hFF1E} => Reg = DATA
    <2>1. CodeWord(s) = \h5003 => Reg = CONTROL
        BY <1>9, SMT DEF Reg, CONTROL
    <2>2. CodeWord(s) = \h5002 => Reg = COMMAND
        BY <1>9, SMT DEF Reg, COMMAND
    <2>3. CodeWord(s) = \h5001 => Reg = STATUS
        BY <1>9, SMT DEF Reg, STATUS
    <2>4. CodeWord(s) = \h5000 => Reg = DATA
        BY <1>9, SMT DEF Reg, DATA
    <2> QED
        BY <1>4, <2>1, <2>2, <2>3, <2>4
<1>13. AtOperand
    BY <1>1, <1>3 DEF AtOperand
<1>14. s.regs.pc \in StorePlaces => Reg # STATUS
    BY <1>12, SMT DEF StorePlaces, CONTROL, COMMAND, STATUS, DATA
<1> QED
    BY <1>1, <1>3, <1>9, <1>10, <1>11, <1>12, <1>13, <1>14
    DEF Writing, Reading, ReadOps, StoreOps

(* Nowhere else does it reach a device.                                                *)
LEMMA EchoUsesACIA ==
    ASSUME EchoInv, AtOperand, Op \in MemoryOps, VIASelected(address) \/ ACIASelected(address),
           NEW s, s = Origin
    PROVE  Cycle = 3 /\ edge = "HIGH" /\ s.regs.pc \in StorePlaces \cup LoadPlaces
<1> PICK i : i = OpcodeMap[CodeByte(s, 0)]
    OBVIOUS
<1>1. Cycle # 0
    BY DEF AtOperand
<1>2. /\ Op = i.op /\ Mode = i.mode
      /\ OneCourse(s, i.op, i.mode, cpu.fromSW, cpu.vector, cpu.cycle)
    BY <1>1, EchoRuns
<1>3. IsState(s) /\ s.rom = Polling /\ s.regs.pc \in Places /\ s.regs.y = 0
    BY EchoStands
<1>4. i.mode \in {"IMM", "ABS", "ABSY", "IMP", "ACC", "REL"}
    BY <1>3, EchoReaches
<1>5. edge = "HIGH" /\ Cycle = 3 /\ i.mode \in {"ABS", "ABSY"}
    BY <1>2, <1>4 DEF AtOperand
<1>6. AbsoluteCourse(s, i.op, i.mode, cpu.cycle)
    BY <1>2, <1>5 DEF OneCourse
<1>7. address = Target(s, i.mode)
    BY <1>5, <1>6 DEF AbsoluteCourse, Cycle, Ready, Driving
<1>8. i.mode = "ABS"
    <2>1. SUFFICES ASSUME i.mode = "ABSY" PROVE FALSE
        BY <1>5
    <2>2. Target(s, "ABSY") = U16(CodeWord(s) + s.regs.y)
        BY DEF Target, Index
    <2>3. CodeWord(s) + s.regs.y = 512
        BY <1>3, <2>1, EchoReaches
    <2>4. address = 512
        BY <1>7, <2>1, <2>2, <2>3, SMT DEF U16
    <2>5. ~VIASelected(512) /\ ~ACIASelected(512)
        BY SMT DEF VIASelected, ACIASelected, Has, A15, A14, A13, A12
    <2> QED
        BY <2>4, <2>5
<1>9. s.regs.pc \in StorePlaces \cup LoadPlaces
    <2>1. s.regs.pc \in {\hFF17, \hFF1A} => i.op \notin MemoryOps
        <3>1. s.regs.pc \in {\hFF17, \hFF1A} => i.op \in {"JSR", "JMP"}
            BY <1>3, EchoCode, SMT
        <3> QED
            BY <3>1 DEF MemoryOps, ReadOps, ModifyOps, StoreOps
    <2>2. i.mode = "ABS" => s.regs.pc \in StorePlaces \cup LoadPlaces \cup {\hFF17, \hFF1A}
        BY <1>3, EchoCode, SMT DEF Places, StorePlaces, LoadPlaces
    <2> QED
        BY <1>2, <1>8, <2>1, <2>2
<1> QED
    BY <1>5, <1>9

-----------------------------------------------------------------------------------
(* What the instruction that starts from s and leaves the registers c does at the ACIA. *)
Effect(s, c) ==
    /\ s.regs.pc \notin StorePlaces \cup LoadPlaces => UNCHANGED <<latches, host, taken>>
    /\ s.regs.pc \in StorePlaces => UNCHANGED <<host, taken>>
    /\ s.regs.pc \in {\hFF02, \hFF07} => latches'.transmit = latches.transmit
    /\ s.regs.pc = \hFF1E => latches'.transmit = s.regs.a
    /\ s.regs.pc = \hFF0A =>
          /\ UNCHANGED <<latches, taken>>
          /\ AtRest' \/ Polled'
          /\ Has(c.a, 8) <=> Polled'
    /\ s.regs.pc = \hFF11 => AtRest' /\ c.a = taken'

(* The loop stays where it is while nothing it knows of moves.                         *)
LEMMA EchoStays ==
    ASSUME NEW c, NEW f, EchoAt(c, f), UNCHANGED <<latches, host, taken>>,
           Polled \/ c.pc # \hFF11 \/ (edge' = edge /\ cpu'.cycle = cpu.cycle)
    PROVE  EchoAt(c, f)'
<1>1. /\ (AtRest' <=> AtRest) /\ (Polled' <=> Polled) /\ (Printed' <=> Printed)
    BY DEF AtRest, Polled, Printed
<1> QED
    BY <1>1, SMT DEF EchoAt

(* An instruction takes it from one place to the next.                                 *)
LEMMA EchoArrives ==
    ASSUME NEW s, NEW c, NEW f, EchoAt(s.regs, s.ram), EchoMove(s, c, f), Effect(s, c),
           s.regs.pc = \hFF11 => Polled \/ host.at \in {"clear", "cleared"}
    PROVE  EchoAt(c, f)'
<1>1. AtRest => ~Polled
    BY DEF AtRest, Polled
<1>2. CASE s.regs.pc \in {\hFF00, \hFF05, \hFF1A}
    <2>1. c.y = 0 /\ c.pc \in {\hFF02, \hFF07, \hFF0A} /\ c.sp = s.regs.sp
        BY <1>2, SMT DEF EchoMove
    <2>2. s.regs.sp = 255 /\ AtRest /\ Printed
        BY <1>2, SMT DEF EchoAt
    <2>3. UNCHANGED <<latches, host, taken>>
        BY <1>2, SMT DEF Effect, StorePlaces, LoadPlaces
    <2>4. AtRest' /\ Printed'
        BY <2>2, <2>3 DEF AtRest, Printed
    <2> QED
        BY <2>1, <2>2, <2>4, SMT DEF EchoAt
<1>3. CASE s.regs.pc \in {\hFF02, \hFF07}
    <2>1. c.y = 0 /\ c.pc \in {\hFF05, \hFF0A} /\ c.sp = s.regs.sp
        BY <1>3, SMT DEF EchoMove
    <2>2. s.regs.sp = 255 /\ AtRest /\ Printed
        BY <1>3, SMT DEF EchoAt
    <2>3. UNCHANGED <<host, taken>> /\ latches'.transmit = latches.transmit
        BY <1>3, SMT DEF Effect, StorePlaces, LoadPlaces
    <2>4. AtRest' /\ Printed'
        BY <2>2, <2>3 DEF AtRest, Printed
    <2> QED
        BY <2>1, <2>2, <2>4, SMT DEF EchoAt
<1>4. CASE s.regs.pc = \hFF0A
    <2>1. c.y = 0 /\ c.pc = \hFF0D /\ c.sp = s.regs.sp
        BY <1>4, SMT DEF EchoMove
    <2>2. s.regs.sp = 255 /\ Printed
        BY <1>4, SMT DEF EchoAt
    <2>3. UNCHANGED <<latches, taken>> /\ (AtRest' \/ Polled') /\ (Has(c.a, 8) <=> Polled')
        BY <1>4, SMT DEF Effect
    <2>4. Printed'
        BY <2>2, <2>3 DEF Printed
    <2> QED
        BY <2>1, <2>2, <2>3, <2>4, SMT DEF EchoAt
<1>5. CASE s.regs.pc = \hFF0D
    <2>1. c.y = 0 /\ c.pc = \hFF0F /\ c.sp = s.regs.sp /\ (Has(c.status, ZERO) <=> ~Has(s.regs.a, 8))
        BY <1>5, SMT DEF EchoMove
    <2>2. s.regs.sp = 255 /\ Printed /\ (AtRest \/ Polled) /\ (Has(s.regs.a, 8) <=> Polled)
        BY <1>5, SMT DEF EchoAt
    <2>3. UNCHANGED <<latches, host, taken>>
        BY <1>5, SMT DEF Effect, StorePlaces, LoadPlaces
    <2>4. Printed' /\ (AtRest' <=> AtRest) /\ (Polled' <=> Polled)
        BY <2>2, <2>3 DEF AtRest, Polled, Printed
    <2> QED
        BY <2>1, <2>2, <2>4, SMT DEF EchoAt
<1>6. CASE s.regs.pc = \hFF0F
    <2>1. c.y = 0 /\ c.pc = (IF Has(s.regs.status, ZERO) THEN \hFF0A ELSE \hFF11)
          /\ c.sp = s.regs.sp
        BY <1>6, SMT DEF EchoMove
    <2>2. s.regs.sp = 255 /\ Printed /\ (AtRest \/ Polled) /\ (~Has(s.regs.status, ZERO) <=> Polled)
        BY <1>6, SMT DEF EchoAt
    <2>3. UNCHANGED <<latches, host, taken>>
        BY <1>6, SMT DEF Effect, StorePlaces, LoadPlaces
    <2>4. Printed' /\ (AtRest' <=> AtRest) /\ (Polled' <=> Polled)
        BY <2>2, <2>3 DEF AtRest, Polled, Printed
    <2> QED
        BY <2>1, <2>2, <2>4, SMT DEF EchoAt
<1>7. CASE s.regs.pc = \hFF11
    <2>1. c.y = 0 /\ c.pc = \hFF14 /\ c.sp = s.regs.sp
        BY <1>7, SMT DEF EchoMove
    <2>2. s.regs.sp = 255
        BY <1>7, SMT DEF EchoAt
    <2>3. AtRest' /\ c.a = taken'
        BY <1>7, SMT DEF Effect
    <2> QED
        BY <2>1, <2>2, <2>3, SMT DEF EchoAt
<1>8. CASE s.regs.pc \in {\hFF14, \hFF17}
    <2>1. /\ c.y = 0 /\ c.a = s.regs.a
          /\ s.regs.pc = \hFF14 => c.pc = \hFF17 /\ c.sp = s.regs.sp
          /\ s.regs.pc = \hFF17 => c.pc = \hFF1D /\ (s.regs.sp = 255 => c.sp = 253 /\ InECHO(f))
        BY <1>8, SMT DEF EchoMove
    <2>2. s.regs.sp = 255 /\ AtRest /\ s.regs.a = taken
        BY <1>8, SMT DEF EchoAt
    <2>3. UNCHANGED <<latches, host, taken>>
        BY <1>8, SMT DEF Effect, StorePlaces, LoadPlaces
    <2>4. AtRest' /\ c.a = taken'
        BY <2>1, <2>2, <2>3 DEF AtRest
    <2> QED
        BY <1>8, <2>1, <2>2, <2>4, SMT DEF EchoAt
<1>9. CASE s.regs.pc = \hFF1D
    <2>1. s.regs.sp = 253 /\ InECHO(s.ram) /\ AtRest /\ s.regs.a = taken
        BY <1>9, SMT DEF EchoAt
    <2>2. c.y = 0 /\ c.pc = \hFF1E /\ c.a = s.regs.a /\ c.sp = 252 /\ InECHO(f)
        BY <1>9, <2>1, SMT DEF EchoMove
    <2>3. UNCHANGED <<latches, host, taken>>
        BY <1>9, SMT DEF Effect, StorePlaces, LoadPlaces
    <2>4. AtRest' /\ c.a = taken'
        BY <2>1, <2>2, <2>3 DEF AtRest
    <2> QED
        BY <2>2, <2>4, SMT DEF EchoAt
<1>10. CASE s.regs.pc = \hFF1E
    <2>1. s.regs.sp = 252 /\ InECHO(s.ram) /\ AtRest /\ s.regs.a = taken
        BY <1>10, SMT DEF EchoAt
    <2>2. c.y = 0 /\ c.pc = \hFF21 /\ c.sp = 252 /\ f = s.ram
        BY <1>10, <2>1, SMT DEF EchoMove
    <2>3. UNCHANGED <<host, taken>> /\ latches'.transmit = s.regs.a
        BY <1>10, SMT DEF Effect, StorePlaces, LoadPlaces
    <2>4. AtRest' /\ Printed'
        BY <2>1, <2>2, <2>3 DEF AtRest, Printed
    <2> QED
        BY <2>1, <2>2, <2>4, SMT DEF EchoAt
<1>11. CASE s.regs.pc \in {\hFF21, \hFF23, \hFF24}
    <2>1. s.regs.sp = 252 /\ InECHO(s.ram) /\ AtRest /\ Printed
        BY <1>11, SMT DEF EchoAt
    <2>2. c.y = 0 /\ c.pc \in {\hFF23, \hFF24, \hFF26} /\ c.sp = 252 /\ f = s.ram
        BY <1>11, <2>1, SMT DEF EchoMove
    <2>3. UNCHANGED <<latches, host, taken>>
        BY <1>11, SMT DEF Effect, StorePlaces, LoadPlaces
    <2>4. AtRest' /\ Printed'
        BY <2>1, <2>3 DEF AtRest, Printed
    <2> QED
        BY <2>1, <2>2, <2>4, SMT DEF EchoAt
<1>12. CASE s.regs.pc \in {\hFF26, \hFF27}
    <2>1. InECHO(s.ram) /\ AtRest /\ Printed
          /\ s.regs.sp = IF s.regs.pc = \hFF26 THEN 252 ELSE 253
        BY <1>12, SMT DEF EchoAt
    <2>2. /\ c.y = 0
          /\ s.regs.pc = \hFF26 => c.pc = \hFF27 /\ c.sp = 253 /\ f = s.ram
          /\ s.regs.pc = \hFF27 => c.pc = \hFF1A /\ c.sp = 255
        BY <1>12, <2>1, SMT DEF EchoMove
    <2>3. UNCHANGED <<latches, host, taken>>
        BY <1>12, SMT DEF Effect, StorePlaces, LoadPlaces
    <2>4. AtRest' /\ Printed'
        BY <2>1, <2>3 DEF AtRest, Printed
    <2> QED
        BY <1>12, <2>1, <2>2, <2>4, SMT DEF EchoAt
<1>13. s.regs.pc \in Places
    BY SMT DEF EchoAt, Places
<1> QED
    BY <1>2, <1>3, <1>4, <1>5, <1>6, <1>7, <1>8, <1>9, <1>10, <1>11, <1>12, <1>13, SMT DEF Places

-----------------------------------------------------------------------------------
(* What a cycle inside an instruction makes of the count, and of the history.          *)
LEMMA InstructionStep ==
    ASSUME TraceInv, Record, InstructionHigh, Cycle # 0
    PROVE  /\ cpu'.ir = cpu.ir /\ cpu'.vector = cpu.vector /\ cpu'.fromSW = cpu.fromSW
           /\ cpu'.resetStage = 2
           /\ \/ /\ Cycle + 1 = OpcodeMap[cpu.ir].cycles
                 /\ cpu'.cycle = 0 /\ boundary' = Snapshot'
              \/ /\ Cycle + 1 # OpcodeMap[cpu.ir].cycles
                 /\ cpu'.cycle = cpu.cycle + 1 /\ boundary' = boundary
<1>1. TypeOK /\ cpu \in Registers /\ cpu.cycle \in 0 .. 7 /\ cpu.cycle # 0
    BY DEF TraceInv, Inv, TypeOK, Registers, Cycle
<1>2. cpu.resetStage = 2
    BY <1>1 DEF TraceInv, Inv, Sequencing
<1>3. PICK c : Leaves(c) /\ Step(c)
    BY <1>1, HighAdvances DEF Advances
<1>4. /\ cpu'.ir = cpu.ir /\ cpu'.vector = cpu.vector /\ cpu'.fromSW = cpu.fromSW
      /\ cpu'.resetStage = cpu.resetStage
      /\ cpu'.cycle = IF Cycle + 1 = OpcodeMap[cpu.ir].cycles THEN 0 ELSE cpu.cycle + 1
    BY <1>3 DEF Leaves, Step, NextCycle, Registers, Cycle
<1> QED
    BY <1>1, <1>2, <1>4 DEF Record, AtBoundary

(* A step after which the program has come no further.                                 *)
LEMMA EchoQuiet ==
    ASSUME EchoInv, TraceInv', BusInv', ACIATypeOK', LatchesTypeOK',
           UNCHANGED <<boundary, latches, host, taken>>,
           UNCHANGED <<irq, nmi, rom>>, cpu'.resetStage < 2 => cpu.resetStage < 2,
           cpu'.cycle > 0 => Software' /\ cpu'.ir = CodeByte(Origin, 0),
           Polled \/ boundary.regs.pc # \hFF11 \/ (edge' = edge /\ cpu'.cycle = cpu.cycle)
    PROVE  EchoInv'
<1>1. Origin' = Origin
    BY DEF Origin
<1>2. CodeByte(Origin, 0)' = CodeByte(Origin, 0)
    <2>1. PICK s : s = Origin
        OBVIOUS
    <2>2. CodeByte(s, 0)' = CodeByte(s, 0)
        BY DEF CodeByte, Peek, PCAfter
    <2> QED
        BY <1>1, <2>1, <2>2
<1>3. AfterReset' = AfterReset
    BY DEF AfterReset
<1>4. EchoAt(boundary.regs, boundary.ram)'
    <2>1. PICK c, f : c = boundary.regs /\ f = boundary.ram
        OBVIOUS
    <2>2. EchoAt(c, f)
        BY <2>1 DEF EchoInv
    <2>3. EchoAt(c, f)'
        BY <2>1, <2>2, EchoStays
    <2>4. boundary'.regs = c /\ boundary'.ram = f
        BY <2>1
    <2> QED
        BY <2>3, <2>4
<1>5. (cpu.cycle > 0 => Software /\ cpu.ir = CodeByte(Origin, 0))'
    BY <1>2
<1>6. (cpu.resetStage < 2 => boundary.regs = AfterReset.regs)'
    BY <1>3 DEF EchoInv
<1> QED
    BY <1>4, <1>5, <1>6 DEF EchoInv

(* A HIGH phase inside an instruction, whatever device it uses.                        *)
LEMMA EchoInstruction ==
    ASSUME EchoInv, Record, Phi2High, InstructionHigh, Cycle # 0, BusInv', ACIATypeOK',
           LatchesTypeOK',
           NEW s, s = Origin, NEW c, c = Architectural(cpu'),
           Cycle + 1 = OpcodeMap[cpu.ir].cycles => Effect(s, c),
           Cycle + 1 # OpcodeMap[cpu.ir].cycles => UNCHANGED <<latches, host, taken>>
    PROVE  EchoInv'
<1> PICK i : i = OpcodeMap[CodeByte(s, 0)]
    OBVIOUS
<1>1. /\ Known /\ OpcodeMap[cpu.ir] = i /\ Op = i.op /\ Mode = i.mode
    BY EchoRuns
<1>2. /\ IsState(s) /\ s.rom = Polling /\ s.regs.pc \in Places /\ s.regs.y = 0
      /\ s.regs = boundary.regs /\ s.ram = boundary.ram /\ CodeInMemory
    BY EchoStands
<1>3. TraceInv'
    BY <1>1, <1>2, TraceInvInstruction DEF EchoInv
<1>4. /\ cpu'.ir = cpu.ir /\ cpu'.vector = cpu.vector /\ cpu'.fromSW = cpu.fromSW
      /\ cpu'.resetStage = 2
      /\ \/ /\ Cycle + 1 = OpcodeMap[cpu.ir].cycles
            /\ cpu'.cycle = 0 /\ boundary' = Snapshot'
         \/ /\ Cycle + 1 # OpcodeMap[cpu.ir].cycles
            /\ cpu'.cycle = cpu.cycle + 1 /\ boundary' = boundary
    BY InstructionStep DEF EchoInv
<1>5. UNCHANGED <<irq, nmi, rom>> /\ edge = "HIGH"
    BY DEF Phi2High
<1>6. s.regs.pc = \hFF11 => Polled \/ (host.at \in {"clear", "cleared"} /\ cpu.cycle = 3)
    <2>1. EchoAt(s.regs, s.ram)
        BY <1>2 DEF EchoInv
    <2> QED
        BY <2>1, SMT DEF EchoAt
<1>7. CASE Cycle + 1 # OpcodeMap[cpu.ir].cycles
    <2>1. cpu.cycle \in 0 .. 7 /\ cpu.cycle > 0
        BY DEF EchoInv, TraceInv, Inv, TypeOK, Registers, Cycle
    <2>2. s.regs.pc = \hFF11 => i.cycles = 4
        BY <1>2, EchoCode, SMT
    <2>3. s.regs.pc = \hFF11 => Polled
        BY <1>1, <1>6, <1>7, <2>2 DEF Cycle
    <2>4. Software' /\ cpu'.ir = CodeByte(Origin, 0)
        BY <1>4, <2>1 DEF EchoInv, Software
    <2> QED
        BY <1>2, <1>3, <1>4, <1>5, <1>7, <2>3, <2>4, EchoQuiet
<1>8. CASE Cycle + 1 = OpcodeMap[cpu.ir].cycles
    <2>1. PICK soft, v, k, n : soft = cpu.fromSW /\ v = cpu.vector /\ k = Cycle /\ n = k + 1
        OBVIOUS
    <2>2. Course(s, i.op, i.mode, soft, v, k + 1)'
        BY <1>1, <1>2, <2>1, InstructionRuns DEF EchoInv
    <2>3. Course(s, i.op, i.mode, soft, v, n)'
        BY <2>1, <2>2
    <2>4. OneCourse(s, i.op, i.mode, soft, v, n)'
        BY <2>3 DEF Course, OneCourse, MemoryOps, ReadOps, ModifyOps, StoreOps, RegisterOps
    <2>5. n = i.cycles
        BY <1>1, <1>8, <2>1
    <2>6. OneCourse(s, i.op, i.mode, soft, v, i.cycles)'
        BY <2>4, <2>5
    <2>7. PICK f : f = sram'
        OBVIOUS
    <2>8. EchoMove(s, c, f)
        BY <1>2, <2>6, <2>7, EchoMoves
    <2>9. EchoAt(s.regs, s.ram)
        BY <1>2 DEF EchoInv
    <2>10. Effect(s, c)
        BY <1>8
    <2>11. EchoAt(c, f)'
        BY <1>6, <2>8, <2>9, <2>10, EchoArrives
    <2>12. boundary'.regs = c /\ boundary'.ram = f /\ cpu'.cycle = 0
        BY <1>4, <1>8, <2>7 DEF Snapshot
    <2>13. EchoAt(boundary.regs, boundary.ram)'
        BY <2>11, <2>12
    <2> QED
        BY <1>3, <1>4, <1>5, <2>12, <2>13 DEF EchoInv
<1> QED
    BY <1>7, <1>8

-----------------------------------------------------------------------------------
(* The byte a load takes and a store gives is the one on the bus.                      *)
LEMMA OperandByte ==
    ASSUME TypeOK, InstructionHigh, Mode = "ABS", Cycle = 3
    PROVE  /\ Op = "LDA" => cpu'.a = data'
           /\ Op = "STA" => data' = cpu.a
<1>1. AbsoluteHigh
    BY HighHandler
<1>2. ASSUME Op \in {"LDA", "STA"}
      PROVE  Execute(ReadOps \cup ModifyOps \cup StoreOps)
    BY <1>1, <1>2 DEF AbsoluteHigh
<1>3. ASSUME Op = "LDA"
      PROVE  cpu'.a = data'
    <2>1. PICK m \in ReadBytes : FetchByte(m) /\ Read(m)
        BY <1>2, <1>3 DEF Execute, ReadOps, ModifyOps, StoreOps
    <2>2. ReadResult("LDA", cpu, m) = SetA(cpu, m)
        BY DEF ReadResult
    <2>3. cpu' = NextCycle(SetA(cpu, m)) /\ data' = m
        BY <1>3, <2>1, <2>2 DEF Read, Step, FetchByte
    <2>4. SetA(cpu, m).a = m /\ "a" \in DOMAIN SetA(cpu, m)
        BY DEF SetA, TypeOK, Registers
    <2> QED
        BY <2>3, <2>4 DEF NextCycle
<1>4. ASSUME Op = "STA"
      PROVE  data' = cpu.a
    <2>1. Store
        BY <1>2, <1>4 DEF Execute, ReadOps, ModifyOps, StoreOps
    <2> QED
        BY <1>4, <2>1 DEF Store, WriteByte, StoredByte
<1> QED
    BY <1>3, <1>4

(* The HIGH phase of a later cycle is that of an instruction.                          *)
LEMMA HighRuns ==
    ASSUME Inv, Phi2High, Cycle # 0, Known
    PROVE  InstructionHigh
<1>1. cpu.started /\ cpu.resetStage = 2
    BY DEF Inv, Sequencing, TypeOK, Registers, Cycle
<1> QED
    BY <1>1 DEF Phi2High, HandlePhi2High, InstructionHigh

(* The ACIA's latches hold bytes.                                                      *)
LEMMA LatchesKept ==
    ASSUME Inv, LatchesTypeOK, [SystemNext]_systemVars
    PROVE  LatchesTypeOK'
<1>1. CASE WriteACIA
    <2>1. data' \in Byte
        BY CPUInvNext DEF Inv, TypeOK, BusTypeOK
    <2> QED
        BY <1>1, <2>1 DEF WriteACIA, LatchesTypeOK
<1>2. CASE PlainPhase \/ ReadVIA \/ WriteVIA \/ ReadACIA \/ ReadCharacter \/ Receiving \/ Typing
           \/ UNCHANGED systemVars
    BY <1>2
    DEF PlainPhase, ReadVIA, WriteVIA, ReadACIA, ReadCharacter, Receiving, Typing, systemVars,
        LatchesTypeOK
<1> QED
    BY <1>1, <1>2 DEF SystemNext, MainLoop

(* What holds of the parts by themselves.                                              *)
LEMMA EchoParts ==
    ASSUME EchoInv, [SystemNext /\ Record]_<<systemVars, boundary>>
    PROVE  TraceInv' /\ BusInv' /\ ACIATypeOK' /\ LatchesTypeOK'
<1>1. [SystemNext]_systemVars
    OBVIOUS
<1>2. StaysInside
    BY EchoStands
<1>3. TraceInv' /\ BusInv'
    BY <1>2, BusInside DEF EchoInv
<1> QED
    BY <1>1, <1>3, ACIASteps, TypesKept, LatchesKept DEF EchoInv, TraceInv

-----------------------------------------------------------------------------------
(* The phases without a device.                                                        *)
LEMMA EchoLow ==
    ASSUME EchoInv, Record, Phi2Low, BusInv', ACIATypeOK', LatchesTypeOK',
           UNCHANGED <<latches, host, taken>>
    PROVE  EchoInv'
<1>1. TraceInv' /\ boundary' = boundary
    BY TraceInvLow DEF EchoInv
<1>2. LowPhase /\ HandlePhi2Low /\ UNCHANGED <<irq, nmi, rom>> /\ edge = "LOW"
    BY DEF Phi2Low, LowPhase
<1>3. TypeOK /\ cpu \in Registers
    BY DEF EchoInv, TraceInv, Inv, TypeOK
<1>4. /\ cpu'.cycle = cpu.cycle /\ cpu'.ir = cpu.ir /\ cpu'.resetStage = cpu.resetStage
      /\ cpu'.vector = cpu.vector /\ cpu'.fromSW = cpu.fromSW
    <2>1. CASE Known /\ Cycle = 0
        <3>1. cpu' = [cpu EXCEPT !.started = TRUE]
            BY <1>2, <2>1 DEF HandlePhi2Low, OpcodeLow
        <3> QED
            BY <1>3, <3>1 DEF Registers
    <2>2. CASE ~Known
        BY <1>2, <2>2 DEF HandlePhi2Low, Hold
    <2>3. CASE Known /\ Cycle # 0
        <3>1. cpu' \in {cpu, AdvancePC(cpu)}
            BY <1>3, <1>2, <2>3, LowDrivesOnly DEF DrivesOnly
        <3> QED
            BY <1>3, <3>1 DEF AdvancePC, Registers
    <2> QED
        BY <2>1, <2>2, <2>3
<1>5. cpu'.cycle > 0 => Software' /\ cpu'.ir = CodeByte(Origin, 0)
    BY <1>4 DEF EchoInv, Software
<1>6. Polled \/ boundary.regs.pc # \hFF11
    <2>1. EchoAt(boundary.regs, boundary.ram)
        BY DEF EchoInv
    <2> QED
        BY <1>2, <2>1, SMT DEF EchoAt
<1> QED
    BY <1>1, <1>2, <1>4, <1>5, <1>6, EchoQuiet

(* The reset vector's two bytes, and the CPU before it is started.                     *)
LEMMA EchoReset ==
    ASSUME EchoInv, Record, Phi2High, TraceInv', BusInv', ACIATypeOK', LatchesTypeOK',
           UNCHANGED <<latches, host, taken>>,
           \/ NoTransfer /\ UNCHANGED cpu /\ ~cpu.started
           \/ cpu.started /\ cpu.resetStage < 2 /\ HandleReset
    PROVE  EchoInv'
<1>1. UNCHANGED <<irq, nmi, rom>>
    BY DEF Phi2High
<1>2. TypeOK /\ cpu \in Registers /\ Inv /\ cpu.cycle \in 0 .. 7
    BY DEF EchoInv, TraceInv, Inv, TypeOK, Registers
<1>3. cpu.cycle = 0
    BY <1>2 DEF Inv, Sequencing
<1>4. cpu'.cycle = 0 /\ (cpu'.resetStage < 2 => cpu.resetStage < 2)
    <2>1. CASE UNCHANGED cpu
        BY <1>3, <2>1
    <2>2. CASE HandleReset /\ cpu.resetStage < 2
        BY <1>2, <1>3, <2>2 DEF HandleReset, AdvancePC, Registers
    <2> QED
        BY <2>1, <2>2
<1>5. boundary' = boundary
    <2>1. CASE NoTransfer /\ UNCHANGED cpu
        <3>1. Snapshot' = Snapshot
            BY <2>1 DEF NoTransfer, Snapshot, Architectural
        <3> QED
            BY <2>1, <3>1 DEF Record, AtBoundary, EchoInv, TraceInv, OnCourse
    <2>2. CASE cpu.started /\ cpu.resetStage < 2 /\ HandleReset
        <3>1. \/ boundary' = boundary
              \/ boundary' = [regs |-> AfterReset.regs, ram |-> boundary.ram]
            BY <2>2, TraceInvReset DEF EchoInv
        <3>2. boundary = [regs |-> AfterReset.regs, ram |-> boundary.ram]
            BY <2>2 DEF EchoInv, TraceInv, TraceTypeOK
        <3> QED
            BY <3>1, <3>2
    <2> QED
        BY <2>1, <2>2
<1>6. Polled \/ boundary.regs.pc # \hFF11
    <2>1. EchoAt(boundary.regs, boundary.ram)
        BY DEF EchoInv
    <2> QED
        BY <1>3, <2>1, SMT DEF EchoAt
<1> QED
    BY <1>1, <1>4, <1>5, <1>6, EchoQuiet

(* Cycle 0: no interrupt is pending, and the opcode is the one at the program counter. *)
LEMMA EchoBegins ==
    ASSUME EchoInv, Record, Phi2High, TraceInv', BusInv', ACIATypeOK', LatchesTypeOK',
           UNCHANGED <<latches, host, taken>>,
           cpu.started, cpu.resetStage = 2, Cycle = 0, TakeNMI \/ TakeIRQ \/ FetchOpcode
    PROVE  EchoInv'
<1>1. UNCHANGED <<irq, nmi, rom>> /\ edge = "HIGH"
    BY DEF Phi2High
<1>2. FetchOpcode
    BY DEF EchoInv, TakeNMI, TakeIRQ, InterruptPending
<1>3. TypeOK /\ cpu \in Registers /\ Inv /\ CodeInMemory
    BY EchoStands DEF EchoInv, TraceInv, Inv, TypeOK
<1>4. boundary = Snapshot
    BY DEF EchoInv, TraceInv, OnCourse, Cycle
<1>5. boundary' = boundary
    BY <1>3, TraceInvBegin DEF EchoInv
<1>6. PICK s : s = Origin
    OBVIOUS
<1>7. /\ IsState(s) /\ s.rom = rom /\ s.ram = sram /\ s.regs.pc = cpu.pc /\ cpu.pc \in Word
    BY <1>3, <1>4, <1>6, OriginIsState DEF Snapshot, Architectural, Registers, EchoInv
<1>8. PCAfter(s, 0) = cpu.pc
    <2>1. cpu.pc \in Int /\ 0 <= cpu.pc /\ cpu.pc <= 65535
        BY <1>7, WordMember
    <2> QED
        BY <1>7, <2>1 DEF PCAfter, U16
<1>9. address = cpu.pc
    BY <1>1, <1>3 DEF Inv, FetchesAtPC, Cycle
<1>10. InMemorySpace(address)
    BY <1>1, <1>3 DEF CodeInMemory, Operating
<1>11. ReadBytes = {CodeByte(s, 0)}
    BY <1>3, <1>7, <1>8, <1>9, <1>10, ReadsCell DEF CodeByte
<1>12. cpu' = [AdvancePC(cpu) EXCEPT !.ir = CodeByte(s, 0), !.vector = IRQ_BRK_VECTOR,
                                     !.fromSW = TRUE, !.cycle = 1]
    BY <1>2, <1>11 DEF FetchOpcode, FetchByte
<1>13. PICK m : m = CodeByte(s, 0)
    OBVIOUS
<1>14. /\ cpu'.ir = m /\ cpu'.vector = IRQ_BRK_VECTOR /\ cpu'.fromSW = TRUE
       /\ cpu'.resetStage = cpu.resetStage
    BY <1>3, <1>12, <1>13 DEF AdvancePC, Registers
<1>15. Software' /\ cpu'.ir = CodeByte(Origin, 0)
    BY <1>6, <1>13, <1>14 DEF Software
<1>16. Polled \/ boundary.regs.pc # \hFF11
    <2>1. EchoAt(boundary.regs, boundary.ram)
        BY DEF EchoInv
    <2>2. cpu.cycle = 0
        BY DEF Cycle
    <2> QED
        BY <2>1, <2>2, SMT DEF EchoAt
<1> QED
    BY <1>1, <1>5, <1>14, <1>15, <1>16, EchoQuiet

-----------------------------------------------------------------------------------
(* A cycle of an instruction that leaves the devices alone.                            *)
LEMMA EchoComputes ==
    ASSUME EchoInv, Record, Phi2High, Cycle # 0, ~UseDevice, BusInv', ACIATypeOK', LatchesTypeOK',
           UNCHANGED <<latches, host, taken>>
    PROVE  EchoInv'
<1> PICK s, c : s = Origin /\ c = Architectural(cpu')
    OBVIOUS
<1> PICK i : i = OpcodeMap[CodeByte(s, 0)]
    OBVIOUS
<1>1. Known /\ OpcodeMap[cpu.ir] = i
    BY EchoRuns
<1>2. InstructionHigh
    BY <1>1, HighRuns DEF EchoInv, TraceInv
<1>3. s.rom = Polling
    BY EchoStands
<1>4. ASSUME Cycle + 1 = OpcodeMap[cpu.ir].cycles
      PROVE  s.regs.pc \notin StorePlaces \cup LoadPlaces
    <2>1. SUFFICES ASSUME s.regs.pc \in StorePlaces \cup LoadPlaces PROVE FALSE
        OBVIOUS
    <2>2. i.cycles = 4
        BY <1>3, <2>1, EchoCode, SMT DEF StorePlaces, LoadPlaces
    <2>3. cpu.cycle \in 0 .. 7
        BY DEF EchoInv, TraceInv, Inv, TypeOK, Registers
    <2>4. Cycle = 3
        BY <1>1, <1>4, <2>2, <2>3 DEF Cycle
    <2>5. edge = "HIGH"
        BY DEF Phi2High
    <2>6. Writing(AtACIA) \/ Reading(AtACIA)
        BY <2>1, <2>4, <2>5, EchoReachesACIA
    <2> QED
        BY <2>6 DEF UseDevice, Writing, Reading
<1>5. Cycle + 1 = OpcodeMap[cpu.ir].cycles => Effect(s, c)
    <2>1. \hFF02 \in StorePlaces /\ \hFF07 \in StorePlaces /\ \hFF1E \in StorePlaces
          /\ \hFF0A \in LoadPlaces /\ \hFF11 \in LoadPlaces
        BY SMT DEF StorePlaces, LoadPlaces
    <2> QED
        BY <1>4, <2>1, SMT DEF Effect
<1> QED
    BY <1>2, <1>5, EchoInstruction

(* Before a cycle that is not the first: what a phase without a device may be.         *)
LEMMA EchoPlain ==
    ASSUME EchoInv, Record, PlainPhase, TraceInv', BusInv', ACIATypeOK', LatchesTypeOK'
    PROVE  EchoInv'
<1>1. UNCHANGED <<latches, host, taken>>
    BY DEF PlainPhase, aciaVars
<1>2. CASE Phi2Low
    BY <1>1, <1>2, EchoLow
<1>3. CASE ~UseDevice /\ Phi2High /\ Cycle # 0
    BY <1>1, <1>3, EchoComputes
<1>4. CASE Phi2High /\ Cycle = 0
    <2>1. \/ ~cpu.started /\ NoTransfer /\ UNCHANGED cpu
          \/ cpu.started /\ cpu.resetStage < 2 /\ HandleReset
          \/ /\ cpu.started /\ cpu.resetStage = 2
             /\ TakeNMI \/ TakeIRQ \/ FetchOpcode
        BY <1>4 DEF Phi2High, HandlePhi2High
    <2> QED
        BY <1>1, <1>4, <2>1, EchoReset, EchoBegins
<1> QED
    BY <1>2, <1>3, <1>4 DEF PlainPhase

-----------------------------------------------------------------------------------
(* The loop never reaches the VIA.                                                     *)
LEMMA EchoAvoidsVIA ==
    ASSUME EchoInv
    PROVE  ~ReadVIA /\ ~WriteVIA
<1> SUFFICES ASSUME Reading(AtVIA) \/ Writing(AtVIA) PROVE FALSE
    BY DEF ReadVIA, WriteVIA
<1> PICK s : s = Origin
    OBVIOUS
<1>1. AtOperand /\ AtVIA /\ Op \in MemoryOps
    BY DEF Reading, Writing, MemoryOps
<1>2. edge = "HIGH" /\ Cycle = 3 /\ s.regs.pc \in StorePlaces \cup LoadPlaces
    BY <1>1, EchoUsesACIA DEF AtVIA
<1>3. ~AtVIA
    BY <1>2, EchoReachesACIA
<1> QED
    BY <1>1, <1>3

(* Its stores to the ACIA: the control and command registers, and the character.       *)
LEMMA EchoWrites ==
    ASSUME EchoInv, Record, WriteACIA, BusInv', ACIATypeOK', LatchesTypeOK'
    PROVE  /\ EchoInv' /\ UNCHANGED aciaVars
           /\ latches'.transmit \in {latches.transmit, taken}
<1> PICK s, c : s = Origin /\ c = Architectural(cpu')
    OBVIOUS
<1>1. Writing(AtACIA) /\ Phi2High
    BY DEF WriteACIA
<1>2. edge = "HIGH" /\ Cycle = 3 /\ s.regs.pc \in StorePlaces \cup LoadPlaces
    BY <1>1, EchoUsesACIA DEF Writing, MemoryOps, AtACIA
<1>3. /\ Mode = "ABS" /\ OpcodeMap[cpu.ir].cycles = 4 /\ cpu.a = s.regs.a
      /\ s.regs.pc \in LoadPlaces => ~Writing(AtACIA)
      /\ s.regs.pc \in StorePlaces => Op = "STA" /\ Reg # STATUS
      /\ s.regs.pc = \hFF02 => Reg = CONTROL
      /\ s.regs.pc = \hFF07 => Reg = COMMAND
      /\ s.regs.pc \in {\hFF11, \hFF1E} => Reg = DATA
    BY <1>2, EchoReachesACIA
<1>4. s.regs.pc \in StorePlaces /\ Op = "STA" /\ Reg # STATUS
    BY <1>1, <1>2, <1>3
<1>5. Known /\ InstructionHigh /\ TypeOK
    BY <1>1, <1>2, EchoRuns, HighRuns DEF EchoInv, TraceInv, Inv
<1>6. data' = s.regs.a
    BY <1>2, <1>3, <1>4, <1>5, OperandByte
<1>7. UNCHANGED aciaVars /\ UNCHANGED <<host, taken>>
    BY <1>4 DEF WriteACIA, aciaVars
<1>8. /\ Reg = DATA => latches'.transmit = data'
      /\ Reg \in {COMMAND, CONTROL} => latches'.transmit = latches.transmit
    <2>1. latches \in [transmit : Byte \cup {None}, command : Byte, control : Byte]
        BY DEF EchoInv, LatchesTypeOK
    <2>2. /\ Reg = DATA => latches' = [latches EXCEPT !.transmit = data']
          /\ Reg = COMMAND => latches' = [latches EXCEPT !.command = data']
          /\ Reg = CONTROL => latches' = [latches EXCEPT !.control = data']
        BY DEF WriteACIA, DATA, COMMAND, CONTROL
    <2> QED
        BY <2>1, <2>2
<1>9. /\ s.regs.pc \in {\hFF02, \hFF07} => latches'.transmit = latches.transmit
      /\ s.regs.pc = \hFF1E => latches'.transmit = s.regs.a
    BY <1>3, <1>6, <1>8, SMT
<1>10. s.regs.pc \notin {\hFF0A, \hFF11}
    BY <1>4, SMT DEF StorePlaces
<1>11. Effect(s, c)
    BY <1>4, <1>7, <1>9, <1>10, SMT DEF Effect
<1>12. Cycle + 1 = OpcodeMap[cpu.ir].cycles
    BY <1>2, <1>3
<1>13. latches'.transmit \in {latches.transmit, taken}
    <2>1. EchoAt(s.regs, s.ram)
        BY EchoStands DEF EchoInv
    <2>2. s.regs.pc = \hFF1E => s.regs.a = taken
        BY <2>1, SMT DEF EchoAt
    <2> QED
        BY <1>4, <1>9, <2>2 DEF StorePlaces
<1> QED
    BY <1>1, <1>2, <1>5, <1>7, <1>11, <1>12, <1>13, EchoInstruction

(* Its poll.                                                                           *)
LEMMA EchoPolls ==
    ASSUME EchoInv, Record, ReadACIA, BusInv', ACIATypeOK', LatchesTypeOK'
    PROVE  /\ EchoInv'
           /\ PollStatus \/ UNCHANGED aciaVars
<1> PICK s, c : s = Origin /\ c = Architectural(cpu')
    OBVIOUS
<1>1. Reading(AtACIA) /\ Phi2High /\ Reg # DATA /\ UNCHANGED latches
    BY DEF ReadACIA, ReadReturns
<1>2. edge = "HIGH" /\ Cycle = 3 /\ s.regs.pc \in StorePlaces \cup LoadPlaces
    BY <1>1, EchoUsesACIA DEF Reading, MemoryOps, AtACIA
<1>3. /\ Mode = "ABS" /\ OpcodeMap[cpu.ir].cycles = 4
      /\ s.regs.pc \in StorePlaces => ~Reading(AtACIA)
      /\ s.regs.pc \in LoadPlaces => Op = "LDA"
      /\ s.regs.pc = \hFF0A => Reg = STATUS
      /\ s.regs.pc \in {\hFF11, \hFF1E} => Reg = DATA
    BY <1>2, EchoReachesACIA
<1>4. s.regs.pc = \hFF0A /\ Op = "LDA" /\ Reg = STATUS
    <2>1. s.regs.pc \in LoadPlaces
        BY <1>1, <1>2, <1>3
    <2>2. s.regs.pc = \hFF0A
        BY <1>1, <1>3, <2>1, SMT DEF LoadPlaces
    <2> QED
        BY <1>3, <2>1, <2>2
<1>5. Known /\ InstructionHigh /\ TypeOK
    BY <1>1, <1>2, EchoRuns, HighRuns DEF EchoInv, TraceInv, Inv
<1>6. data' = StatusByte
    BY <1>4 DEF ReadACIA, ReadReturns, STATUS, COMMAND, CONTROL
<1>7. c.a = StatusByte
    BY <1>2, <1>3, <1>4, <1>5, <1>6, OperandByte DEF Architectural
<1>8. Has(c.a, 8) <=> RDRF \in status
    BY <1>7, StatusByteBits DEF EchoInv, ACIATypeOK
<1>9. AtRest
    <2>1. EchoAt(s.regs, s.ram)
        BY EchoStands DEF EchoInv
    <2> QED
        BY <1>4, <2>1, SMT DEF EchoAt
<1>10. \/ RDRF \in status /\ PollStatus
       \/ RDRF \notin status /\ UNCHANGED aciaVars
    BY <1>4, <1>9 DEF ReadACIA, AtRest
<1>11. /\ UNCHANGED <<latches, taken>> /\ (AtRest' \/ Polled')
       /\ Has(c.a, 8) <=> Polled'
    <2>1. CASE RDRF \in status /\ PollStatus
        <3>1. taken' = taken /\ host' = [host EXCEPT !.at = "polled"]
            BY <2>1 DEF PollStatus
        <3>2. host'.at = "polled"
            BY <3>1 DEF EchoInv, ACIATypeOK
        <3> QED
            BY <1>1, <1>8, <2>1, <3>1, <3>2 DEF Polled
    <2>2. CASE RDRF \notin status /\ UNCHANGED aciaVars
        BY <1>1, <1>8, <1>9, <2>2 DEF Polled, AtRest, aciaVars
    <2> QED
        BY <1>10, <2>1, <2>2
<1>12. s.regs.pc \in LoadPlaces /\ s.regs.pc \notin StorePlaces
       /\ s.regs.pc \notin {\hFF02, \hFF07, \hFF1E, \hFF11}
    BY <1>4, SMT DEF StorePlaces, LoadPlaces
<1>13. Effect(s, c)
    BY <1>4, <1>11, <1>12, SMT DEF Effect
<1>14. Cycle + 1 = OpcodeMap[cpu.ir].cycles
    BY <1>2, <1>3
<1> QED
    BY <1>1, <1>2, <1>5, <1>10, <1>13, <1>14, EchoInstruction

(* Its read of the character, access by access.                                        *)
LEMMA EchoReads ==
    ASSUME EchoInv, Record, ReadCharacter, TraceInv', BusInv', ACIATypeOK', LatchesTypeOK'
    PROVE  /\ EchoInv'
           /\ ReadData => Polled
<1> PICK s, c : s = Origin /\ c = Architectural(cpu')
    OBVIOUS
<1>1. Reading(AtACIA) /\ Reg = DATA /\ UNCHANGED latches
    BY DEF ReadCharacter
<1>2. edge = "HIGH" /\ Cycle = 3 /\ s.regs.pc \in StorePlaces \cup LoadPlaces
    BY <1>1, EchoUsesACIA DEF Reading, MemoryOps, AtACIA
<1>3. /\ Mode = "ABS" /\ OpcodeMap[cpu.ir].cycles = 4
      /\ s.regs.pc \in StorePlaces => ~Reading(AtACIA)
      /\ s.regs.pc \in LoadPlaces => Op = "LDA"
      /\ s.regs.pc = \hFF0A => Reg = STATUS
    BY <1>2, EchoReachesACIA
<1>4. s.regs.pc = \hFF11 /\ Op = "LDA"
    <2>1. s.regs.pc \in LoadPlaces
        BY <1>1, <1>2, <1>3
    <2>2. s.regs.pc # \hFF0A
        BY <1>1, <1>3 DEF STATUS, DATA
    <2>3. s.regs.pc = \hFF11
        BY <2>1, <2>2, SMT DEF LoadPlaces
    <2> QED
        BY <1>3, <2>1, <2>3
<1>5. EchoAt(s.regs, s.ram) /\ s.regs = boundary.regs /\ s.ram = boundary.ram
    BY EchoStands DEF EchoInv
<1>6. s.regs.y = 0 /\ s.regs.sp = 255 /\ (Polled \/ host.at \in {"clear", "cleared"})
    BY <1>4, <1>5, SMT DEF EchoAt
<1>7. ReadData => Polled
    BY <1>6 DEF ReadData, ReadDataAfter, Polled
<1>8. CASE (ReadData \/ ClearStatus \/ TakeCharacter) /\ UNCHANGED vars
    <2>1. host'.at \in {"clear", "cleared"}
        <3>1. "at" \in DOMAIN host /\ host = [x \in DOMAIN host |-> host[x]]
            BY DEF EchoInv, ACIATypeOK
        <3>2. ReadData => host'.at = "clear"
            BY DEF ReadData, ReadDataAfter
        <3>3. ClearStatus => host'.at = "cleared"
            BY <3>1 DEF ClearStatus
        <3>4. TakeCharacter => host'.at = host.at /\ host.at \in {"clear", "cleared"}
            BY <3>1 DEF TakeCharacter
        <3> QED
            BY <1>8, <3>2, <3>3, <3>4
    <2>2. /\ UNCHANGED <<cpu, edge, irq, nmi, rom>> /\ boundary' = boundary
        <3>1. UNCHANGED <<cpu, edge, busVars>> /\ Inv' /\ UNCHANGED <<irq, nmi>>
            BY <1>8 DEF vars, TraceInv
        <3>2. boundary' = boundary
            BY <3>1, TraceInvPins DEF EchoInv
        <3> QED
            BY <3>1, <3>2 DEF busVars
    <2>3. EchoAt(s.regs, s.ram)'
        <3>1. PICK d, f : d = s.regs /\ f = s.ram
            OBVIOUS
        <3>2. d.pc = \hFF11 /\ d.y = 0 /\ d.sp = 255 /\ edge' = "HIGH" /\ cpu'.cycle = 3
            BY <1>2, <1>4, <1>6, <2>2, <3>1 DEF Cycle
        <3>3. EchoAt(d, f)'
            BY <2>1, <3>2, SMT DEF EchoAt
        <3> QED
            BY <3>1, <3>3
    <2>4. EchoAt(boundary.regs, boundary.ram)'
        BY <1>5, <2>2, <2>3
    <2>5. Origin' = s /\ AfterReset' = AfterReset
        BY <2>2 DEF Origin, AfterReset
    <2>6. CodeByte(s, 0)' = CodeByte(s, 0)
        BY DEF CodeByte, Peek, PCAfter
    <2>7. (cpu.cycle > 0 => Software /\ cpu.ir = CodeByte(Origin, 0))'
        BY <2>2, <2>5, <2>6 DEF EchoInv, Software
    <2> QED
        BY <1>7, <2>2, <2>4, <2>5, <2>7 DEF EchoInv
<1>9. CASE ReturnData /\ ReadReturns(taken)
    <2>1. Phi2High /\ data' = taken
        BY <1>9 DEF ReadReturns
    <2>2. Known /\ InstructionHigh /\ TypeOK
        BY <1>2, <2>1, EchoRuns, HighRuns DEF EchoInv, TraceInv, Inv
    <2>3. c.a = taken
        BY <1>2, <1>3, <1>4, <2>1, <2>2, OperandByte DEF Architectural
    <2>4. AtRest' /\ taken' = taken
        BY <1>9 DEF ReturnData, AtRest, EchoInv, ACIATypeOK
    <2>5. s.regs.pc \in LoadPlaces /\ s.regs.pc \notin StorePlaces
          /\ s.regs.pc \notin {\hFF02, \hFF07, \hFF1E, \hFF0A}
        BY <1>4, SMT DEF StorePlaces, LoadPlaces
    <2>6. Effect(s, c)
        BY <2>3, <2>4, <2>5, SMT DEF Effect
    <2>7. Cycle + 1 = OpcodeMap[cpu.ir].cycles
        BY <1>2, <1>3
    <2> QED
        BY <1>2, <1>7, <2>1, <2>2, <2>6, <2>7, EchoInstruction
<1> QED
    BY <1>7, <1>8, <1>9 DEF ReadCharacter

-----------------------------------------------------------------------------------
(* The receiver, the keyboard and a stutter leave the program where it is.             *)
LEMMA EchoRests ==
    ASSUME EchoInv, Record \/ boundary' = boundary, UNCHANGED vars, UNCHANGED <<latches, host, taken>>,
           TraceInv', BusInv', ACIATypeOK', LatchesTypeOK'
    PROVE  EchoInv'
<1>1. UNCHANGED <<cpu, edge, busVars>> /\ UNCHANGED <<irq, nmi, rom>> /\ Inv'
    BY DEF vars, busVars, TraceInv
<1>2. boundary' = boundary
    BY <1>1, TraceInvPins DEF EchoInv
<1>3. cpu'.cycle > 0 => Software' /\ cpu'.ir = CodeByte(Origin, 0)
    BY <1>1 DEF EchoInv, Software
<1> QED
    BY <1>1, <1>2, <1>3, EchoQuiet

(* Every step of the machine takes the echo loop on, polls before it reads, prints       *)
(* nothing but the character taken last, and leaves the VIA alone.                      *)
LEMMA EchoSteps ==
    ASSUME EchoInv, [SystemNext /\ Record]_<<systemVars, boundary>>
    PROVE  /\ EchoInv' /\ [MonitorNext]_aciaVars /\ [WriteVIA => Disciplined(Reg, data')]_systemVars
           /\ \/ latches'.transmit = latches.transmit
              \/ latches'.transmit = taken /\ UNCHANGED aciaVars
<1>1. TraceInv' /\ BusInv' /\ ACIATypeOK' /\ LatchesTypeOK'
    BY EchoParts
<1>2. ~ReadVIA /\ ~WriteVIA
    BY EchoAvoidsVIA
<1>3. CASE PlainPhase /\ Record
    BY <1>1, <1>2, <1>3, EchoPlain DEF PlainPhase
<1>4. CASE ReadACIA /\ Record
    BY <1>1, <1>2, <1>4, EchoPolls DEF ReadACIA, MonitorNext, Monitor
<1>5. CASE ReadCharacter /\ Record
    <2>1. EchoInv' /\ (ReadData => Polled)
        BY <1>1, <1>5, EchoReads
    <2>2. ReadData => ReadDataAfter({"polled"})
        BY <2>1 DEF ReadData, ReadDataAfter, Polled
    <2> QED
        BY <1>2, <1>5, <2>1, <2>2 DEF ReadCharacter, MonitorNext, Monitor, FinishRead
<1>6. CASE WriteACIA /\ Record
    <2>1. /\ EchoInv' /\ UNCHANGED aciaVars
          /\ latches'.transmit \in {latches.transmit, taken}
        BY <1>1, <1>6, EchoWrites
    <2> QED
        BY <1>2, <2>1
<1>7. CASE Receiving /\ Record
    <2>1. UNCHANGED <<host, taken>>
        BY <1>7
        DEF Receiving, Receiver, TestStop, GetChar, GetEOF, StoreCharacter, StatusAccess, TestFull,
            LoadStatus, SetOverrun, SetFull
    <2>2. EchoInv'
        BY <1>1, <1>7, <2>1, EchoRests DEF Receiving
    <2> QED
        BY <1>2, <1>7, <2>2 DEF Receiving, MonitorNext
<1>8. CASE Typing /\ Record
    <2>1. UNCHANGED <<host, taken>>
        BY <1>8 DEF Typing, Type, Close
    <2>2. EchoInv'
        BY <1>1, <1>8, <2>1, EchoRests DEF Typing
    <2> QED
        BY <1>2, <1>8, <2>2 DEF Typing, MonitorNext
<1>9. CASE UNCHANGED <<systemVars, boundary>>
    <2>1. UNCHANGED vars /\ UNCHANGED <<latches, host, taken>> /\ boundary' = boundary /\ UNCHANGED aciaVars
        BY <1>9 DEF systemVars, aciaVars
    <2>2. EchoInv'
        BY <1>1, <2>1, EchoRests
    <2> QED
        BY <1>2, <2>1, <2>2
<1> QED
    BY <1>2, <1>3, <1>4, <1>5, <1>6, <1>7, <1>8, <1>9 DEF SystemNext, MainLoop

(* With the monitor's start and loop in the EEPROM the machine starts at the reset      *)
(* vector's place, with nothing read and nothing printed.                               *)
LEMMA EchoInit ==
    ASSUME SystemInit, boundary = AfterReset, rom = Polling
    PROVE  EchoInv
<1>1. TraceInit
    BY DEF SystemInit, TraceInit
<1>2. TraceInv /\ BusInv
    BY <1>1, TraceInvInit, BusInit0
<1>3. ACIATypeOK
    BY ACIAInvInit, ACIAInvMeans DEF SystemInit
<1>4. LatchesTypeOK
    BY PowerUpAssumption DEF SystemInit, LatchesTypeOK
<1>5. irq = "HIGH" /\ nmi = "HIGH" /\ cpu.cycle = 0
    <2>1. PICK i \in PowerUpBytes, d \in PowerUpBytes : cpu = Reset(PoweredUp(i, d))
        BY DEF SystemInit, Init
    <2> QED
        BY <2>1 DEF SystemInit, Init, Reset, PoweredUp
<1>6. boundary.regs.pc = \hFF00 /\ boundary.regs.sp = 255 /\ boundary.regs.y = 0
    <2>1. ByteAt(rom, 65532) = \h00 /\ ByteAt(rom, 65533) = \hFF
        BY PollingCells
    <2>2. Join(\hFF, \h00) = \hFF00
        BY SMT DEF Join
    <2>3. ByteAt(rom, RESET_VECTOR) = \h00 /\ ByteAt(rom, RESET_VECTOR + 1) = \hFF
        BY <2>1, SMT DEF RESET_VECTOR
    <2> QED
        BY <2>2, <2>3 DEF AfterReset
<1>7. AtRest /\ Printed
    BY DEF SystemInit, ACIAInit, AtRest, Printed
<1>8. EchoAt(boundary.regs, boundary.ram)
    BY <1>6, <1>7, SMT DEF EchoAt
<1> QED
    BY <1>2, <1>3, <1>4, <1>5, <1>8 DEF EchoInv

(* At the poll the character the program had last is the one it has printed.           *)
LEMMA EchoAtPoll ==
    ASSUME EchoInv, AtPoll
    PROVE  Printed
<1>1. TraceInv /\ Inv /\ TypeOK /\ cpu.pc = \hFF0A /\ cpu.cycle = 0 /\ cpu.resetStage \in 0 .. 2
    BY DEF EchoInv, TraceInv, Inv, TypeOK, Registers, AtPoll
<1>2. cpu.resetStage = 2
    <2>1. SUFFICES ASSUME cpu.resetStage < 2 PROVE FALSE
        BY <1>1
    <2>2. Architectural(cpu) = [AfterReset.regs EXCEPT !.pc = RESET_VECTOR + cpu.resetStage]
        BY <1>1, <2>1 DEF TraceInv, OnCourse, Resetting, Holds
    <2>3. cpu.pc = RESET_VECTOR + cpu.resetStage
        BY <2>2 DEF Architectural, AfterReset
    <2> QED
        BY <1>1, <2>3, SMT DEF RESET_VECTOR
<1>3. boundary = Snapshot
    BY <1>1, <1>2 DEF TraceInv, OnCourse
<1>4. boundary.regs.pc = \hFF0A
    BY <1>1, <1>3 DEF Snapshot, Architectural
<1> QED
    BY <1>4, SMT DEF EchoInv, EchoAt

-----------------------------------------------------------------------------------
(* The machine with the monitor's start and echo loop in the EEPROM, and the history of *)
(* its instruction boundaries: SystemSpec, fairness left out, since what follows is     *)
(* safety.                                                                             *)
Echoing == TracedSystem /\ rom = Polling

(* What holds for ever, and of every step.                                             *)
LEMMA EchoAlways == Echoing => []EchoInv /\ PollsBeforeReading /\ KeepsDiscipline
<1>1. SystemInit /\ boundary = AfterReset /\ rom = Polling => EchoInv /\ ACIAInit
    BY EchoInit DEF SystemInit
<1>2. EchoInv /\ [SystemNext /\ Record]_<<systemVars, boundary>>
          => EchoInv' /\ [MonitorNext]_aciaVars /\ [WriteVIA => Disciplined(Reg, data')]_systemVars
    BY EchoSteps
<1> QED
    BY <1>1, <1>2, PTL DEF Echoing, TracedSystem, PollsBeforeReading, KeepsDiscipline

(* The monitor's loop never fetches a byte from outside the memories, and no address the *)
(* CPU drives for it is left without a slave that answers.                              *)
THEOREM EchoStaysInside == Echoing => [](CodeInMemory /\ Answered)
<1>1. EchoInv => StaysInside
    <2>1. SUFFICES ASSUME EchoInv PROVE StaysInside
        OBVIOUS
    <2> QED
        BY <2>1, EchoStands
<1> QED
    BY <1>1, EchoAlways, ContainedProgram, PTL DEF Echoing

(* The machine code of the loop, carried out phase by phase by the handlers of the CPU, *)
(* uses the ACIA as W65C51N assumes of a monitor: it reads DATA only after a poll that   *)
(* found the full bit, one read for each such poll, and writes no status. Nor does it    *)
(* touch the VIA.                                                                      *)
THEOREM EchoPollsFirst == Echoing => PollsBeforeReading /\ KeepsDiscipline
BY EchoAlways, PTL

(* No character ends up unprinted, but one that slipped by between two accesses out of   *)
(* order: at the poll, with the receiver at rest and the full bit clear, the character printed  *)
(* last is the one that came in last. It has gone from the data register to A, past the  *)
(* stores to SRAM and stack and the subroutine call, to the transmit register, while the *)
(* receiver thread ran at any point of it.                                              *)
THEOREM EchoPrintsAll == Echoing => []AllPrinted
<1>1. SystemInit => ACIAInv
    BY ACIAInvInit DEF SystemInit
<1>2. EchoInv /\ ACIAInv => AllPrinted
    BY EchoAtPoll, ACIAInvMeans DEF AllPrinted, NothingForgotten, CaughtUp, Printed
<1>3. ACIAInv /\ [SystemNext /\ Record]_<<systemVars, boundary>> => ACIAInv'
    BY ACIASteps, ACIAInvNext
<1> QED
    BY <1>1, <1>2, <1>3, EchoAlways, PTL DEF Echoing, TracedSystem

(* The characters the machine has taken in and not yet printed are on their way, each    *)
(* stage no further than the one before: this needs no order of the accesses.           *)
InTyping ==
    /\ latches.transmit <= taken /\ taken <= receiveData
    /\ receiveData <= received /\ received <= typed

(* As long as the data register holds the byte it powered up with, whatever can lead the *)
(* program to read it is known to be stray: the full bit, a status the receiver has      *)
(* loaded with it, a poll that found it, a read under way. And so it stays once read.   *)
StrayKnown ==
    /\ receiveData = Leftover /\ (RDRF \in status \/ RDRF \in rx.seen \/ host.at # "idle") => stray
    /\ taken = Leftover => stray

(* The characters are natural numbers, and the last one read is one, or there was none.  *)
LEMMA CharactersType ==
    ASSUME ACIATypeOK
    PROVE  taken \in Int /\ -1 <= taken /\ receiveData \in Nat /\ received \in Nat /\ typed \in Nat
<1>1. taken \in Number \cup {None} /\ receiveData \in Number /\ received \in Number /\ typed \in Number
    BY DEF ACIATypeOK
<1>2. \A n \in Number : n \in Nat
    BY MaxTypedAssumption DEF Number
<1> QED
    BY <1>1, <1>2 DEF None

(* No access of either thread takes a character before it is there.                     *)
LEMMA AccessesKeepOrder ==
    ASSUME ACIATypeOK, taken <= receiveData, receiveData <= received, received <= typed,
           [ACIANext]_aciaVars
    PROVE  /\ taken' <= receiveData' /\ receiveData' <= received' /\ received' <= typed'
           /\ taken <= taken'
           /\ \/ typed' = typed /\ (stray' = stray \/ stray' = TRUE)
              \/ typed' = typed + 1 /\ stray' = stray
<1>1. taken \in Int /\ receiveData \in Nat /\ received \in Nat /\ typed \in Nat /\ stray \in BOOLEAN
    BY CharactersType DEF ACIATypeOK
<1>2. CASE Type \/ Close \/ Destroy
    BY <1>1, <1>2 DEF Type, Close, Destroy
<1>3. CASE TestStop \/ GetChar \/ GetEOF \/ StoreCharacter
    <2>1. TestStop \/ GetEOF => UNCHANGED <<taken, receiveData, received, typed, stray>>
        BY DEF TestStop, GetEOF
    <2>2. GetChar => /\ UNCHANGED <<taken, receiveData, typed, stray>>
                     /\ received' = received + 1 /\ received < typed
        BY DEF GetChar
    <2>3. StoreCharacter => UNCHANGED <<taken, received, typed, stray>> /\ receiveData' = received
        BY DEF StoreCharacter
    <2> QED
        BY <1>1, <1>3, <2>1, <2>2, <2>3
<1>4. CASE TestFull \/ LoadStatus \/ SetOverrun \/ SetFull
    <2>1. UNCHANGED <<taken, receiveData, received, typed>>
        BY <1>4 DEF TestFull, LoadStatus, SetOverrun, SetFull, StatusAccess
    <2>2. stray' = stray \/ stray' = (stray \/ receiveData = Leftover)
        BY <1>4 DEF TestFull, LoadStatus, SetOverrun, SetFull
    <2>3. stray' = stray \/ stray' = TRUE
        BY <1>1, <2>2
    <2> QED
        BY <1>1, <2>1, <2>3
<1>5. CASE PollStatus \/ ReadData \/ ClearStatus \/ TakeCharacter \/ ReturnData
    BY <1>1, <1>5 DEF PollStatus, ReadData, ReadDataAfter, ClearStatus, TakeCharacter, ReturnData
<1>6. CASE WriteStatus
    <2>1. /\ UNCHANGED <<receiveData, received, typed>> /\ taken' \in {taken, receiveData}
          /\ \E new \in SUBSET Flags : stray' = (stray \/ (RDRF \in new /\ receiveData = Leftover))
        BY <1>6 DEF WriteStatus
    <2>2. stray' = stray \/ stray' = TRUE
        BY <1>1, <2>1
    <2> QED
        BY <1>1, <2>1, <2>2
<1>7. CASE UNCHANGED aciaVars
    BY <1>1, <1>7 DEF aciaVars
<1> QED
    BY <1>2, <1>3, <1>4, <1>5, <1>6, <1>7 DEF ACIANext

(* A monitor reads the byte of the power-up only where stray says that it may.           *)
LEMMA MonitorKnowsStrays ==
    ASSUME ACIATypeOK, receiveData <= received, StrayKnown, [MonitorNext]_aciaVars
    PROVE  StrayKnown'
<1> USE DEF StrayKnown, ACIATypeOK
<1>1. CASE Type \/ Close \/ Destroy
    BY <1>1 DEF Type, Close, Destroy
<1>2. CASE TestStop \/ GetChar \/ GetEOF
    BY <1>2 DEF TestStop, GetChar, GetEOF
<1>3. CASE StoreCharacter
    <2>1. receiveData' = Leftover => receiveData = Leftover
        <3>1. receiveData \in Nat /\ received \in Nat
            BY CharactersType
        <3> QED
            BY <1>3, <3>1 DEF StoreCharacter, Leftover
    <2> QED
        BY <1>3, <2>1 DEF StoreCharacter
<1>4. CASE TestFull \/ LoadStatus
    BY <1>4 DEF TestFull, LoadStatus, StatusAccess
<1>5. CASE SetOverrun
    BY <1>5 DEF SetOverrun, StatusAccess, RDRF, OVRN
<1>6. CASE SetFull
    BY <1>6 DEF SetFull, StatusAccess
<1>7. CASE PollStatus
    BY <1>7 DEF PollStatus
<1>8. CASE ReadDataAfter({"polled"})
    BY <1>8 DEF ReadDataAfter
<1>9. CASE ClearStatus
    BY <1>9 DEF ClearStatus
<1>10. CASE TakeCharacter
    BY <1>10 DEF TakeCharacter
<1>11. CASE ReturnData
    BY <1>11 DEF ReturnData
<1>12. CASE UNCHANGED aciaVars
    BY <1>12 DEF aciaVars
<1> QED
    BY <1>1, <1>2, <1>3, <1>4, <1>5, <1>6, <1>7, <1>8, <1>9, <1>10, <1>11, <1>12
    DEF MonitorNext, Receiver, Monitor, FinishRead

(* The machine with the echo loop is a terminal: a character is printed only after it    *)
(* was typed, and never after a later one, even where the build reorders the accesses    *)
(* of the two threads; and the byte the data register powers up with, which the code     *)
(* may print, only where the full bit stood for it, and before any other. Every clock    *)
(* phase and every access maps to a key, to a character that appears, to an              *)
(* announcement, or to nothing the user sees.                                           *)
THEOREM EchoImplementsTerminal == Echoing => ImplementsTerminal
<1> DEFINE Orderly == InTyping /\ StrayKnown
<1>1. SystemInit => Orderly /\ Screen!Init
    <2> SUFFICES ASSUME SystemInit PROVE Orderly /\ Screen!Init
        OBVIOUS
    <2>1. ACIAInit /\ latches.transmit = None
        BY DEF SystemInit
    <2>2. InTyping /\ host.at = "idle" /\ rx.seen = {} /\ taken = None
        BY <2>1 DEF ACIAInit, InTyping, None, Leftover
    <2>3. StrayKnown
        <3>1. RDRF \in status => stray
            BY <2>1, Zenon DEF ACIAInit
        <3> QED
            BY <2>2, <3>1 DEF StrayKnown, None, Leftover
    <2>4. stray \in BOOLEAN
        BY <2>1, ACIAInvInit, ACIAInvMeans DEF ACIATypeOK
    <2> QED
        BY <2>1, <2>2, <2>3, <2>4 DEF ACIAInit, Screen!Init, None
<1>2. EchoInv /\ Orderly /\ [SystemNext /\ Record]_<<systemVars, boundary>>
          => Orderly' /\ [Screen!Next]_(Screen!terminalVars)
    <2> SUFFICES ASSUME EchoInv, InTyping, StrayKnown, [SystemNext /\ Record]_<<systemVars, boundary>>
                 PROVE  InTyping' /\ StrayKnown' /\ [Screen!Next]_(Screen!terminalVars)
        OBVIOUS
    <2>1. /\ \/ latches'.transmit = latches.transmit
             \/ latches'.transmit = taken /\ UNCHANGED aciaVars
          /\ [MonitorNext]_aciaVars
        BY EchoSteps
    <2>2. ACIATypeOK /\ [ACIANext]_aciaVars
        BY ACIASteps DEF EchoInv
    <2>3. ACIATypeOK'
        BY <2>2, TypesKept
    <2>4. /\ taken' <= receiveData' /\ receiveData' <= received' /\ received' <= typed'
          /\ taken <= taken'
          /\ \/ typed' = typed /\ (stray' = stray \/ stray' = TRUE)
             \/ typed' = typed + 1 /\ stray' = stray
        BY <2>2, AccessesKeepOrder DEF InTyping
    <2>5. /\ taken \in Int /\ -1 <= taken
          /\ receiveData \in Nat /\ received \in Nat /\ typed \in Nat /\ latches.transmit \in Int
        <3>1. latches.transmit \in Byte \cup {None}
            BY DEF EchoInv, LatchesTypeOK
        <3>2. latches.transmit \in Int
            BY <3>1 DEF Byte, UINT8_MAX, None
        <3> QED
            BY <2>2, <3>2, CharactersType
    <2>6. taken' \in Int
        BY <2>3 DEF ACIATypeOK, Number, None
    <2>7. InTyping'
        BY <2>1, <2>4, <2>5, <2>6 DEF InTyping
    <2>8. StrayKnown'
        BY <2>1, <2>2, MonitorKnowsStrays DEF InTyping
    <2> SUFFICES [Screen!Next]_(Screen!terminalVars)
        BY <2>7, <2>8
    <2>9. CASE latches'.transmit = latches.transmit
        <3>1. CASE typed' = typed + 1 /\ stray' = stray
            BY <2>9, <3>1 DEF Screen!Next, Screen!Hit
        <3>2. CASE typed' = typed /\ stray' = TRUE
            BY <2>9, <3>2 DEF Screen!Next, Screen!Announce
        <3>3. CASE typed' = typed /\ stray' = stray
            BY <2>9, <3>3 DEF Screen!terminalVars
        <3> QED
            BY <2>4, <3>1, <3>2, <3>3
    <2>10. CASE latches'.transmit = taken /\ UNCHANGED aciaVars
        <3>1. /\ latches.transmit <= taken /\ taken <= typed
              /\ typed' = typed /\ stray' = stray /\ latches'.transmit = taken
            BY <2>5, <2>10 DEF InTyping, aciaVars
        <3>2. CASE taken = latches.transmit
            BY <3>1, <3>2 DEF Screen!terminalVars
        <3>3. CASE taken = 0 /\ taken # latches.transmit
            <4>1. latches.transmit = -1
                <5>1. latches.transmit \in Byte \cup {None}
                    BY DEF EchoInv, LatchesTypeOK
                <5> QED
                    BY <3>1, <3>3, <5>1 DEF Byte, UINT8_MAX, None
            <4>2. stray
                BY <3>3 DEF StrayKnown, Leftover
            <4> QED
                BY <3>1, <3>3, <4>1, <4>2 DEF Screen!Next, Screen!AppearStray
        <3>4. CASE taken # 0 /\ taken # latches.transmit
            <4>1. latches.transmit \in -1 .. taken - 1 /\ taken \in 1 .. typed
                <5>1. latches.transmit \in Byte \cup {None}
                    BY DEF EchoInv, LatchesTypeOK
                <5> QED
                    BY <2>5, <3>1, <3>4, <5>1 DEF Byte, UINT8_MAX, None
            <4> QED
                BY <3>1, <4>1 DEF Screen!Next, Screen!Appear
        <3> QED
            BY <3>2, <3>3, <3>4
    <2> QED
        BY <2>1, <2>9, <2>10
<1> QED
    BY <1>1, <1>2, EchoAlways, PTL DEF Echoing, TracedSystem, ImplementsTerminal, Screen!Spec

(* And it is carried out as the instruction set says, but for the named differences:     *)
(* the hypotheses of SystemImplementsISA hold of a real program.                        *)
THEOREM EchoImplementsISA ==
    ASSUME Machine!Differences \subseteq Waived
    PROVE  Echoing => ImplementsISA
BY EchoStaysInside, SystemImplementsISA, PTL DEF Echoing
===================================================================================
