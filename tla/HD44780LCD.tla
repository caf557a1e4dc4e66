------------------------------- MODULE HD44780LCD -------------------------------
(***********************************************************************************)
(* devices/HD44780LCD and its LCDAdapter: what the display makes of the bytes the   *)
(* VIA sends to its two ports.                                                      *)
(*                                                                                  *)
(* An LCD is one record with a field per member; every operator maps a record to    *)
(* the one the member function leaves. No member has an initial value. wild records *)
(* that a character was stored past the end of _ddram: nothing in the object keeps  *)
(* a trace of it, the byte goes to memory that belongs to something else.           *)
(* What update() prints is _ddram, cell by cell, and is left out; _dataRegister and *)
(* _instructionRegister are read only in the call that sets them, and are that       *)
(* call's argument here.                                                            *)
(***********************************************************************************)
EXTENDS Bytes

CONSTANT Size       \* _ddram.size(): 80 in the source

ASSUME SizeAssumption == Size \in 1 .. 256

Cell == 0 .. Size - 1

LCD ==
    [rs : BOOLEAN, rw : BOOLEAN, enable : BOOLEAN, data : Byte,
     addressCounter : Byte, ddram : [Cell -> Byte], wild : BOOLEAN,
     display : SUBSET {"on", "cursor", "blink"}, bits : {4, 8}, lines : {1, 2}]

(* The control lines on port A of the VIA. *)
E  == 128
RW == 64
RS == 32

-----------------------------------------------------------------------------------
(* The highest bit of a byte tells the instruction (bit_width - 1 is its number). *)
HighestBit(v, k) == k <= v /\ v < 2 * k

Cleared(l) == [l EXCEPT !.ddram = [c \in Cell |-> 0], !.addressCounter = 0]

DisplayControl(l, v) ==
    [l EXCEPT !.display = {f \in {"on", "cursor", "blink"} :
                              Has(v, CASE f = "on" -> 4 [] f = "cursor" -> 2 [] f = "blink" -> 1)}]

FunctionSet(l, v) ==
    [l EXCEPT !.bits = IF Has(v, 16) THEN 8 ELSE 4, !.lines = IF Has(v, 8) THEN 2 ELSE 1]

(* The switch of handleWrite. Entry mode and shift have empty cases; the addresses of  *)
(* CGRAM and DDRAM, and the byte 0, end in the default, which only logs.               *)
Instructed(l, v) ==
    CASE HighestBit(v, 1)  -> Cleared(l)
      [] HighestBit(v, 2)  -> [l EXCEPT !.addressCounter = 0]
      [] HighestBit(v, 8)  -> DisplayControl(l, v)
      [] HighestBit(v, 32) -> FunctionSet(l, v)
      [] OTHER -> l

(* update() after a data write. The index is checked nowhere.                          *)
(* A slip the runs must notice: the counter is not wrapped.                            *)
StoredUnwrapped(l, v) ==
    IF l.addressCounter \in Cell
    THEN [l EXCEPT !.ddram[l.addressCounter] = v,
                   !.addressCounter = U8(l.addressCounter + 1)]
    ELSE [l EXCEPT !.wild = TRUE, !.addressCounter = U8(l.addressCounter + 1)]

Stored(l, v) ==
    [l EXCEPT !.ddram = IF l.addressCounter \in Cell
                        THEN [@ EXCEPT ![l.addressCounter] = v] ELSE @,
              !.wild = @ \/ l.addressCounter \notin Cell,
              !.addressCounter = (@ + 1) % Size]

WriteOperation(l) ==
    IF l.rs THEN Stored(l, l.data) ELSE Instructed(l, l.data)

(* setControlLines and checkEnableToggled: a write is done when the enable line falls,  *)
(* with the RS and RW that come with the fall. handleRead does nothing.                *)
(* A slip the runs must notice: the write is done on the rising edge.                  *)
SetControlLinesRising(l, rs, rw, enable) ==
    LET set == [l EXCEPT !.rs = rs, !.rw = rw]
        done == IF ~l.enable /\ enable /\ ~rw THEN WriteOperation(set) ELSE set
    IN  [done EXCEPT !.enable = enable]

SetControlLines(l, rs, rw, enable) ==
    LET set == [l EXCEPT !.rs = rs, !.rw = rw]
        done == IF l.enable /\ ~enable /\ ~rw THEN WriteOperation(set) ELSE set
    IN  [done EXCEPT !.enable = enable]

WriteDataLines(l, v) == [l EXCEPT !.data = v]

-----------------------------------------------------------------------------------
(* LCDAdapter::writeToPort, by the adapter's port.                                     *)
DATA_PORT    == 0
CONTROL_PORT == 1

WriteToPort(l, port, v) ==
    CASE port = DATA_PORT -> WriteDataLines(l, v)
      [] port = CONTROL_PORT -> SetControlLines(l, Has(v, RS), Has(v, RW), Has(v, E))
==================================================================================
