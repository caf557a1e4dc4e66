---------------------------------- MODULE Board ----------------------------------
(***********************************************************************************)
(* What a program may rely on when it drives the display through the VIA: the       *)
(* breadboard itself. The VIA keeps what is written to a port; its pins are the     *)
(* kept bits whose direction is out, low otherwise, and follow a change of either   *)
(* at once. The display looks at its pins only: when E falls it carries out the     *)
(* operation that RS, RW and the data pins have been asking for.                    *)
(*                                                                                  *)
(* The operations are those the emulator implements; Understood names them.         *)
(***********************************************************************************)
EXTENDS Bytes

CONSTANT Size       \* the cells of the display memory

VARIABLES
    pa, pb,         \* the output registers of the two ports
    ddra, ddrb,     \* their directions
    text, cursor,   \* the display memory, and the cell the next character goes to
    shown           \* [display, bits, lines], as last set

displayVars == <<pa, pb, ddra, ddrb, text, cursor, shown>>

E  == 128
RW == 64
RS == 32

Control(a, d) == Ones(a) \cap Ones(d) \cap {E, RW, RS}
DataPins      == BitAnd(pb, ddrb)

-----------------------------------------------------------------------------------
Clear == 1
Homes == {2, 3}
EntryIncrement == 6
Displays == 8 .. 15
Functions8Bit == 48 .. 63

Understood == {Clear, EntryIncrement} \cup Homes \cup Displays \cup Functions8Bit

Character(v) ==
    /\ text' = [text EXCEPT ![cursor] = v]
    /\ cursor' = IF cursor + 1 = Size THEN 0 ELSE cursor + 1
    /\ UNCHANGED shown

Instruct(v) ==
    /\ v \in Understood
    /\ text' = IF v = Clear THEN [c \in DOMAIN text |-> 0] ELSE text
    /\ cursor' = IF v \in {Clear} \cup Homes THEN 0 ELSE cursor
    /\ shown' =
          [display |-> IF v \in Displays
                       THEN {f \in {"on", "cursor", "blink"} :
                                [on |-> 4, cursor |-> 2, blink |-> 1][f] \in Ones(v)}
                       ELSE shown.display,
           bits  |-> IF v \in Functions8Bit THEN 8 ELSE shown.bits,
           lines |-> IF v \in Functions8Bit THEN IF v >= 56 THEN 2 ELSE 1 ELSE shown.lines]

(* What the display does as its control pins go from one setting to the next. *)
Display ==
    LET was == Control(pa, ddra)
        is  == Control(pa', ddra')
    IN  IF E \in was /\ E \notin is /\ RW \notin was
        THEN IF RS \in was THEN Character(DataPins) ELSE Instruct(DataPins)
        ELSE UNCHANGED <<text, cursor, shown>>

-----------------------------------------------------------------------------------
Init ==
    /\ pa = 0
    /\ pb = 0
    /\ {ddra, ddrb, cursor} \subseteq Byte
    /\ DOMAIN text = 0 .. Size - 1

WriteA  == pa' \in Byte   /\ UNCHANGED <<pb, ddra, ddrb>> /\ Display
WriteB  == pb' \in Byte   /\ UNCHANGED <<pa, ddra, ddrb>> /\ Display
DirectA == ddra' \in Byte /\ UNCHANGED <<pa, pb, ddrb>> /\ Display
DirectB == ddrb' \in Byte /\ UNCHANGED <<pa, pb, ddra>> /\ Display

Next == WriteA \/ WriteB \/ DirectA \/ DirectB

Spec == Init /\ [][Next]_displayVars
==================================================================================
