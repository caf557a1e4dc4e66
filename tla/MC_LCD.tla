--------------------------------- MODULE MC_LCD ----------------------------------
(***********************************************************************************)
(* Any disciplined program that writes a few bytes, from a few power-up states.     *)
(***********************************************************************************)
EXTENDS W65C22S_Board

CONSTANTS
    ControlBytes,   \* the bytes written to port A
    DataBytes,      \* the bytes written to port B
    Directions      \* the bytes written to the two direction registers

MCPowerUpRegisters == {[m \in Member |-> d] : d \in {0, 255}}

(* The enable latch is up or down, the counter inside and outside the memory.          *)
MCPowerUpLCDs ==
    {[rs |-> FALSE, rw |-> FALSE, enable |-> e, data |-> 1, addressCounter |-> c,
      ddram |-> [n \in Cell |-> 72], wild |-> FALSE,
      display |-> {}, bits |-> 4, lines |-> 1] : e \in BOOLEAN, c \in {0, 200}}

BytesFor(reg) ==
    CASE reg \in {DATA_A, DATA_A2} -> ControlBytes
      [] reg = DATA_B -> DataBytes
      [] reg \in {DDR_A, DDR_B} -> Directions
      [] OTHER -> {0}

MCNext == \E reg \in Register : \E v \in BytesFor(reg) : DisplayWrite(reg, v)

MCSpec == DisplayInit /\ [][MCNext]_boardVars
==================================================================================
