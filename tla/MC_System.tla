-------------------------------- MODULE MC_System --------------------------------
(***********************************************************************************)
(* The two programs on the whole machine, one in the EEPROM of each behaviour. Keys *)
(* are pressed for the monitor only.                                                *)
(***********************************************************************************)
EXTENDS Programs

MCOpcodeMap == OpcodeTable

MCImages == {Polling, Hello}

(* The data register of port B is what lcd_wait looks at.                              *)
MCPowerUpRegisters ==
    {[m \in Member |-> IF m = DATA_B THEN b ELSE 255] : b \in {0, 128}}

MCPowerUpLCDs ==
    {[rs |-> FALSE, rw |-> FALSE, enable |-> e, data |-> 1, addressCounter |-> 200,
      ddram |-> [n \in Cell |-> 0], wild |-> FALSE,
      display |-> {}, bits |-> 4, lines |-> 1] : e \in BOOLEAN}

(* Bounds: one power-up state of VIA and LCD for the monitor, which does not use them;  *)
(* no keys for hello-world-final.s.                                                    *)
MCInit ==
    /\ SystemInit
    /\ rom = Polling => ~lcd.enable /\ registers[DATA_B] = 0
    /\ rom = Hello => status = {}

MCTyping == rom = Polling /\ Typing

MCSpec ==
    /\ MCInit
    /\ [][MainLoop \/ Receiving \/ MCTyping]_systemVars
    /\ Scheduled

-----------------------------------------------------------------------------------
Shown ==
    /\ \A i \in 1 .. Len(Message) : lcd.ddram[i - 1] = Message[i]
    /\ lcd.addressCounter = Len(Message)

(* hello-world-final.s ends up with its message on the display, for good, whatever the *)
(* LCD powers up with; provided bit 7 of the VIA's port B, which nothing writes and    *)
(* lcd_wait polls, does not happen to start as 1.                                      *)
HelloShown ==
    rom = Hello /\ ~Has(registers[DATA_B], 128) => <>[]Shown
==================================================================================
