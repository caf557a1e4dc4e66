------------------------------ MODULE W65C22S_Board ------------------------------
(***********************************************************************************)
(* Programs that drive the display, and what they may expect of it. The emulator    *)
(* keeps no output register, does not pass a new direction on, and powers up with   *)
(* an enable latch and an address counter that may hold anything. Disciplined says  *)
(* what a program has to observe so that none of this shows: then VIA and LCD        *)
(* together implement Board. hello-world-final.s observes it.                       *)
(***********************************************************************************)
EXTENDS W65C22S

VARIABLE
    program     \* history: what the program knows of its own writes:
                \*   ora, orb  the last byte written to each port, 0 before
                \*   maskB     the direction of port B when orb was written
                \*   wroteA, wroteB, homed
                \*             there has been a write to port A, one to port B, and
                \*             an instruction that sets the address counter

boardVars == <<viaVars, program>>

Unwritten ==
    [ora |-> 0, orb |-> 0, maskB |-> 0, wroteA |-> FALSE, wroteB |-> FALSE, homed |-> FALSE]

Board ==
    INSTANCE Board WITH
        pa <- program.ora, pb <- program.orb,
        ddra <- registers[DDR_A], ddrb <- registers[DDR_B],
        text <- lcd.ddram, cursor <- lcd.addressCounter,
        shown <- [display |-> lcd.display, bits |-> lcd.bits, lines |-> lcd.lines]

-----------------------------------------------------------------------------------
PinsA(v)  == Board!Control(v, registers[DDR_A])
FallsE(v) == E \in PinsA(program.ora) /\ E \notin PinsA(v)

(* The write of v to port A ends a pulse that asks for a write, and the operation.     *)
Commits(v) == FallsE(v) /\ RW \notin PinsA(program.ora)

(* A pulse ends with RS and RW as they were; one that writes has its byte on the data   *)
(* pins since the direction of port B was last set, asks for an operation the emulator *)
(* has, and for a character only once the address counter has been set. The first      *)
(* write to port A raises E or RW, so that the enable latch does not matter.           *)
DisciplinedA(v) ==
    /\ ~program.wroteA => PinsA(v) \cap {E, RW} # {}
    /\ FallsE(v) => PinsA(v) = PinsA(program.ora) \ {E}
    /\ Commits(v) =>
         /\ program.wroteB
         /\ registers[DDR_B] = program.maskB
         /\ IF RS \in PinsA(v) THEN program.homed ELSE Board!DataPins \in Board!Understood

(* The direction of port A is set while E is low, whichever way the pin is turned.     *)
Disciplined(reg, v) ==
    /\ reg \in {DATA_A, DATA_A2} => DisciplinedA(v)
    /\ reg = DDR_A => ~Has(program.ora, E)

Homing(v) == Commits(v) /\ RS \notin PinsA(v) /\ Board!DataPins \in {Board!Clear} \cup Board!Homes

Remember(reg, v) ==
    program' = CASE reg \in {DATA_A, DATA_A2} ->
                      [program EXCEPT !.ora = v, !.wroteA = TRUE, !.homed = @ \/ Homing(v)]
                 [] reg = DATA_B ->
                      [program EXCEPT !.orb = v, !.wroteB = TRUE, !.maskB = registers[DDR_B]]
                 [] OTHER -> program

(* Any disciplined program.                                                            *)
DisplayInit == VIAInit /\ program = Unwritten

DisplayWrite(reg, v) == Disciplined(reg, v) /\ HandleWrite(reg, v) /\ Remember(reg, v)

DisplayNext == \E reg \in Register, v \in Byte : DisplayWrite(reg, v)

DisplaySpec == DisplayInit /\ [][DisplayNext]_boardVars

-----------------------------------------------------------------------------------
(* The display shows what the program has sent, one operation for each pulse.          *)
ImplementsBoard == Board!Spec

(* No character is stored outside the display memory, although nothing initialises the  *)
(* address counter or checks it.                                                       *)
StoresInside == ~lcd.wild
==================================================================================
