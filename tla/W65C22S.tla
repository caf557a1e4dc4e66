--------------------------------- MODULE W65C22S ---------------------------------
(***********************************************************************************)
(* devices/W65C22S with the LCD that main.cpp connects to its ports: what a read of *)
(* one of its sixteen registers returns, and what a write does.                     *)
(*                                                                                  *)
(* A write to a port goes to the device behind it at once and is kept nowhere; a    *)
(* read of a port returns a member that nothing ever writes. main also connects the *)
(* CPU's IRQ input, to CB2, a port no register write leads to: it never moves.      *)
(***********************************************************************************)
EXTENDS HD44780LCD

CONSTANTS
    PowerUpRegisters,   \* what the members of the VIA may hold before a write
    PowerUpLCDs         \* what those of the LCD may hold

VARIABLES
    registers,      \* _dataB, _dataA, _ddrB, _ddrA, _t1cl ... _ier by register number
    lcd             \* the LCD behind ports A and B

viaVars == <<registers, lcd>>

(* enum class Register. DATA_A2 is read as DATA_A. *)
DATA_B  == 0
DATA_A  == 1
DDR_B   == 2
DDR_A   == 3
DATA_A2 == 15

Register == 0 .. 15
Member   == 0 .. 14

ASSUME PowerUpRegistersAssumption == PowerUpRegisters \subseteq [Member -> Byte]
ASSUME PowerUpLCDsAssumption == \A l \in PowerUpLCDs : l \in LCD /\ ~l.wild

VIATypeOK ==
    /\ registers \in [Member -> Byte]
    /\ lcd \in LCD

VIAInit ==
    /\ registers \in PowerUpRegisters
    /\ lcd \in PowerUpLCDs

ReadRegister(reg) == registers[IF reg = DATA_A2 THEN DATA_A ELSE reg]

(* The peripheral port each port of the VIA is connected to. *)
Connections == [A |-> CONTROL_PORT, B |-> DATA_PORT]

(* The end of handleWrite: the outputs of a port are passed on.                        *)
WritePort(port, v, ddrMask) ==
    /\ lcd' = WriteToPort(lcd, Connections[port], BitAnd(v, ddrMask))
    /\ UNCHANGED registers

(* Slips the runs must notice: the two directions are mistaken for one another, and    *)
(* the alias gets a member of its own.                                                 *)
HandleWriteSwapped(reg, v) ==
    \/ reg = DATA_B /\ WritePort("B", v, registers[DDR_B])
    \/ reg \in {DATA_A, DATA_A2} /\ WritePort("A", v, registers[DDR_A])
    \/ reg = DDR_A /\ registers' = [registers EXCEPT ![DDR_B] = v] /\ UNCHANGED lcd
    \/ reg = DDR_B /\ registers' = [registers EXCEPT ![DDR_A] = v] /\ UNCHANGED lcd
    \/ reg \in 4 .. 14 /\ UNCHANGED <<registers, lcd>>

HandleWriteAliasKept(reg, v) ==
    \/ reg \in {DDR_A, DDR_B, DATA_A2} /\ UNCHANGED lcd
         /\ registers' = [m \in DOMAIN registers \cup {reg} |-> IF m = reg THEN v ELSE registers[m]]
    \/ reg \notin {DDR_A, DDR_B, DATA_A2} /\ UNCHANGED <<registers, lcd>>

(* handleWrite. A new direction does not reach the device; timers, shift register,     *)
(* control and interrupt registers ignore what is written to them.                     *)
HandleWrite(reg, v) ==
    \/ reg = DATA_B /\ WritePort("B", v, registers[DDR_B])
    \/ reg \in {DATA_A, DATA_A2} /\ WritePort("A", v, registers[DDR_A])
    \/ reg \in {DDR_A, DDR_B} /\ registers' = [registers EXCEPT ![reg] = v] /\ UNCHANGED lcd
    \/ reg \in 4 .. 14 /\ UNCHANGED <<registers, lcd>>
==================================================================================
