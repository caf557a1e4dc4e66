---------------------------------- MODULE System ----------------------------------
(***********************************************************************************)
(* The machine main.cpp puts together: the CPU on the bus with its memories, the    *)
(* VIA with the LCD behind it, and the ACIA with its receiver thread. A device      *)
(* register reads as what the device returns, in place of any of DeviceBytes.       *)
(*                                                                                  *)
(* main's thread runs the clock phases; a read of the ACIA's DATA register is        *)
(* several steps of it, in the middle of one HIGH phase, between which the receiver *)
(* thread may run. The pins never move: nothing in this machine drives them.        *)
(*                                                                                  *)
(* The programs are such as load from device registers and store to them, with the  *)
(* absolute and the pointer modes; they do not run code in device space or modify a *)
(* register in place.                                                               *)
(***********************************************************************************)
EXTENDS W65C02S, W65C22S_Board, W65C51N

VARIABLE
    latches     \* the ACIA's other registers: _transmitData (printed as it is written:
                \* None before the first), _command and _control

systemVars == <<vars, boardVars, aciaVars, latches>>

(* enum class Register of the ACIA. *)
DATA    == 0
STATUS  == 1
COMMAND == 2
CONTROL == 3

SystemInit ==
    /\ Init
    /\ DisplayInit
    /\ ACIAInit
    /\ latches \in [transmit : {None}, command : PowerUpBytes, control : PowerUpBytes]

-----------------------------------------------------------------------------------
(* The cycle in which the instruction reaches the register it addresses. *)
AtOperand ==
    /\ edge = "HIGH"
    /\ Known
    /\ \/ Mode \in {"ABS", "ABSX", "ABSY"} /\ Cycle = 3
       \/ Mode \in {"INDX", "INDY"} /\ Cycle = 4

(* What this HIGH phase does at the selected device: handleBusNotification's register. *)
Reading(selected) == AtOperand /\ Op \in ReadOps  /\ selected
Writing(selected) == AtOperand /\ Op \in StoreOps /\ selected
Reg == address % 16

AtVIA  == VIASelected(address)
AtACIA == ACIASelected(address)

UseDevice == Reading(AtVIA \/ AtACIA) \/ Writing(AtVIA \/ AtACIA)

ReadReturns(v) == data' = v /\ Phi2High

(* A slip the runs must notice: the read is of the register next door.                 *)
ReadVIANextDoor ==
    /\ Reading(AtVIA)
    /\ ReadReturns(ReadRegister((Reg + 1) % 16))
    /\ UNCHANGED <<boardVars, aciaVars, latches>>

ReadVIA ==
    /\ Reading(AtVIA)
    /\ ReadReturns(ReadRegister(Reg))
    /\ UNCHANGED <<boardVars, aciaVars, latches>>

WriteVIA ==
    /\ Writing(AtVIA)
    /\ Phi2High
    /\ HandleWrite(Reg, data')
    /\ Remember(Reg, data')
    /\ UNCHANGED <<aciaVars, latches>>

-----------------------------------------------------------------------------------
(* The receiver's bits of a status byte, and the byte that has these bits alone.       *)
(* A slip the runs must notice: the two bits are taken for one another.                *)
ReceiverBitsSwapped(b) == {f \in Flags : Has(b, IF f = RDRF THEN 4 ELSE 8)}

ReceiverBits(b) == {f \in Flags : Has(b, IF f = RDRF THEN 8 ELSE 4)}

StatusByte == CHOOSE b \in {0, 4, 8, 12} : ReceiverBits(b) = status

(* readRegister, all but DATA. A poll that finds a character is one the program acts on. *)
ReadACIA ==
    /\ Reading(AtACIA)
    /\ Reg # DATA
    /\ ReadReturns(CASE Reg = STATUS -> StatusByte
                     [] Reg = COMMAND -> latches.command
                     [] Reg = CONTROL -> latches.control
                     [] OTHER -> 0)
    /\ IF Reg = STATUS /\ RDRF \in status /\ host.at = "idle"
       THEN PollStatus ELSE UNCHANGED aciaVars
    /\ UNCHANGED <<boardVars, latches>>

(* readRegister(DATA), access by access, and the byte on the bus at its end. *)
ReadCharacter ==
    /\ Reading(AtACIA)
    /\ Reg = DATA
    /\ \/ /\ ReadData \/ ClearStatus \/ TakeCharacter
          /\ UNCHANGED vars
       \/ ReturnData /\ ReadReturns(taken)
    /\ UNCHANGED <<boardVars, latches>>

(* handleWrite. *)
WriteACIA ==
    /\ Writing(AtACIA)
    /\ Phi2High
    /\ latches' = CASE Reg = DATA -> [latches EXCEPT !.transmit = data']
                    [] Reg = COMMAND -> [latches EXCEPT !.command = data']
                    [] Reg = CONTROL -> [latches EXCEPT !.control = data']
                    [] OTHER -> latches
    /\ IF Reg = STATUS
       THEN WriteStatus /\ status' = ReceiverBits(data')
       ELSE UNCHANGED aciaVars
    /\ UNCHANGED boardVars

-----------------------------------------------------------------------------------
(* A phase without a device. *)
PlainPhase ==
    /\ Phi2Low \/ (~UseDevice /\ Phi2High)
    /\ UNCHANGED <<boardVars, aciaVars, latches>>

(* main's loop, the receiver's, and the keyboard. *)
MainLoop == PlainPhase \/ ReadVIA \/ WriteVIA \/ ReadACIA \/ ReadCharacter \/ WriteACIA

Receiving == Receiver /\ UNCHANGED <<vars, boardVars, latches>>

Typing == (Type \/ Close) /\ UNCHANGED <<vars, boardVars, latches>>

SystemNext == MainLoop \/ Receiving \/ Typing

(* Both threads are scheduled; nobody has to type. main's loop never waits, and its     *)
(* steps are those that move the clock or a read of DATA: it goes on for ever.         *)
Clocked == edge' # edge \/ host' # host

Scheduled == []<><<Clocked>>_<<edge, host>> /\ WF_aciaVars(Receiver)

SystemSpec == SystemInit /\ [][SystemNext]_systemVars /\ Scheduled

-----------------------------------------------------------------------------------
(* To the ACIA the machine is a program that polls: it does what W65C51N assumes of    *)
(* the monitor, and its shared members see no other access.                           *)
PollsBeforeReading == ACIAInit /\ [][MonitorNext]_aciaVars

(* A character that has come in is printed, or one typed after it is; unless one slips   *)
(* by between the accesses of the two threads.                                         *)
Echoed == \A n \in 1 .. MaxTyped : received >= n ~> latches.transmit >= n \/ slipped

(* The program writes to the VIA as the emulator needs it.                             *)
KeepsDiscipline == [][WriteVIA => Disciplined(Reg, data')]_systemVars

(* Every address the machine puts on the bus, in whatever cycle, is decoded by a slave: *)
(* no read returns what the last transfer left in the data latch.                      *)
Answered == Driven # {}
==================================================================================
