----------------------------------- MODULE Bus -----------------------------------
(***********************************************************************************)
(* core/bus.cpp and the slaves main.cpp puts on it: the address and data latches,   *)
(* the chip selects every slave decodes for itself, the SRAM and the EEPROM.        *)
(*                                                                                  *)
(* The two memories hold 16384 and 32768 bytes. A memory is kept here as the        *)
(* function of the bytes that matter, and every other byte reads as 0: that is what *)
(* SRAM62256 starts from (_memory{}), and an EEPROM image is given by its non-zero  *)
(* bytes. What a VIA or ACIA register reads as is any member of DeviceBytes; their  *)
(* own state is not part of this module.                                            *)
(***********************************************************************************)
EXTENDS Bytes

CONSTANT DeviceBytes     \* what a read of a VIA or ACIA register may return

ASSUME DeviceBytesAssumption == DeviceBytes \subseteq Byte /\ DeviceBytes # {}

VARIABLES
    address,    \* Bus::_address
    data,       \* Bus::_data
    sram,       \* SRAM62256::_memory
    rom         \* EEPROM28C256::_memory

(* The address lines the slaves decode. *)
A15 == 32768
A14 == 16384
A13 == 8192
A12 == 4096

(* shouldHandleAddress of each slave.                                                  *)
(* A slip the runs must notice: one address line is tested the wrong way round.        *)
VIASelectedInverted(a) == ~Has(a, A15) /\ Has(a, A14) /\ Has(a, A13) /\ Has(a, A12)

SRAMSelected(a)   == ~Has(a, A15) /\ ~Has(a, A14)
EEPROMSelected(a) == Has(a, A15)
VIASelected(a)    == ~Has(a, A15) /\ Has(a, A14) /\ Has(a, A13) /\ ~Has(a, A12)
ACIASelected(a)   == ~Has(a, A15) /\ Has(a, A14) /\ ~Has(a, A13) /\ Has(a, A12)

(* The byte of a memory at an address it decodes. *)
ByteAt(memory, a) == IF a \in DOMAIN memory THEN memory[a] ELSE 0

Written(memory, a, v) ==
    [b \in DOMAIN memory \cup {a} |-> IF b = a THEN v ELSE memory[b]]

(* notifySlaves(WRITE): the SRAM after a byte was written to the address a.            *)
AfterWrite(memory, a, v) == IF SRAMSelected(a) THEN Written(memory, a, v) ELSE memory

(* notifySlaves(READ): the bytes the selected slaves put on the bus. When no slave   *)
(* decodes the address the data latch keeps what the last transfer left there.       *)
Driven ==
    UNION { IF SRAMSelected(address) THEN {ByteAt(sram, address)} ELSE {},
            IF EEPROMSelected(address) THEN {ByteAt(rom, address)} ELSE {},
            IF VIASelected(address) \/ ACIASelected(address) THEN DeviceBytes ELSE {} }

ReadBytes == IF Driven = {} THEN {data} ELSE Driven

(* The CPU's fetchByte() returning m, and its writeByte(v), which leaves the EEPROM     *)
(* alone. Neither moves the address.                                                   *)
FetchByte(m) == m \in ReadBytes /\ data' = m /\ UNCHANGED sram

WriteByte(v) == data' = v /\ sram' = AfterWrite(sram, address, v)

NoTransfer == UNCHANGED <<data, sram>>

-----------------------------------------------------------------------------------
(* Where the two memories lie. *)
SRAM_LAST    == 16383
EEPROM_FIRST == 32768

SRAMAddresses   == 0 .. SRAM_LAST
EEPROMAddresses == EEPROM_FIRST .. UINT16_MAX

IsMemory(f, range) ==
    /\ DOMAIN f \subseteq range
    /\ f = [a \in DOMAIN f |-> f[a]]
    /\ \A a \in DOMAIN f : f[a] \in Byte

BusTypeOK ==
    /\ address \in Word
    /\ data \in Byte
    /\ IsMemory(sram, SRAMAddresses)
    /\ IsMemory(rom, EEPROMAddresses)

(* An empty SRAM: every byte reads as 0. *)
Blank == [a \in {} |-> 0]

BusInit(images) ==
    /\ address = 0
    /\ data = 0
    /\ sram = Blank
    /\ rom \in images
==================================================================================
