------------------------------ MODULE MC_Interrupts ------------------------------
(***********************************************************************************)
(* A program that uses the stack and calls a subroutine, with an IRQ/BRK handler    *)
(* that saves the accumulator and toggles a cell, and an NMI handler. It is run     *)
(* from power-up; the pins change between any two clock phases.                     *)
(***********************************************************************************)
EXTENDS W65C02S_Interrupts, TLC

CONSTANTS
    MaxPinChanges,  \* how often the environment moves a pin; a reset counts twice
    MaxDepth        \* bound on the nesting of handlers that is explored

VARIABLE changes    \* how often it has

MCOpcodeMap == OpcodeTable

Code(origin, bytes) ==
    [a \in origin .. origin + Len(bytes) - 1 |-> bytes[a - origin + 1]]

Vectors ==
    Code(\hFFFA, <<\h00, \h92>>) @@ Code(\hFFFC, <<\h00, \h80>>) @@ Code(\hFFFE, <<\h00, \h90>>)

(*  9000  PHA          9200  PHA         *)
(*        LDA $10            LDA #$80    *)
(*        EOR #$FF           PLA         *)
(*        STA $10            RTI         *)
(*        PLA                            *)
(*        RTI                            *)
Handlers ==
    Code(\h9000, <<\h48, \hA5, \h10, \h49, \hFF, \h85, \h10, \h68, \h40>>)
        @@ Code(\h9200, <<\h48, \hA9, \h80, \h68, \h40>>)

(*  8000  LDA #$01      8010  PHP        *)
(*        PHA                 EOR #$81   *)
(*        JSR $8010           PLP        *)
(*        PLA                 RTS        *)
(*        BNE $8000                      *)
Main ==
    Code(\h8000, <<\hA9, \h01, \h48, \h20, \h10, \h80, \h68, \hD0, \hF7>>)
        @@ Code(\h8010, <<\h08, \h49, \h81, \h28, \h60>>)

(*  8000  BRK           the BRK instruction beside the interrupts  *)
(*        NOP                            *)
(*        JMP $8000                      *)
WithBRK == Code(\h8000, <<\h00, \hEA, \h4C, \h00, \h80>>)

(*  8000  PHA   9000  NOP   9200  RTI   for handlers inside handlers  *)
(*        PLA         RTI                                             *)
(*        JMP $8000                                                   *)
Short ==
    Code(\h8000, <<\h48, \h68, \h4C, \h00, \h80>>)
        @@ Code(\h9000, <<\hEA, \h40>>) @@ Code(\h9200, <<\h40>>)

(*  8000  NOP                           a byte the table does not list  *)
(*        CLC                                                           *)
Unlisted18 == Code(\h8000, <<\hEA, \h18>>)

MCImages == {p @@ Vectors : p \in {Main @@ Handlers, WithBRK @@ Handlers, Short, Unlisted18}}
ShortImages == {Short @@ Vectors}
BRKImages == {WithBRK @@ Handlers @@ Vectors}
UnlistedImages == {Unlisted18 @@ Vectors}

(* An NMI that is held low is taken again at every boundary.                           *)
Bounded == Len(frames) <= MaxDepth

Recorded(A) == A /\ Record /\ RecordFrame

-----------------------------------------------------------------------------------
(* Safety: both pins move, and the CPU is reset.                                      *)
(* Of the two uninitialised members only _ir takes more than one of PowerUpBytes: _add  *)
(* is written before it is read.                                                       *)
MCInit == InterruptsInit /\ changes = 0 /\ cpu.add = 0

MCClock == Recorded(Clock) /\ UNCHANGED changes

MCPins ==
    /\ changes < MaxPinChanges
    /\ changes' = changes + 1
    /\ Recorded(SetIRQ \/ SetNMI)

MCReset ==
    /\ changes + 1 < MaxPinChanges
    /\ changes' = changes + 2
    /\ Recorded(ResetBetweenInstructions)

MCSpec == MCInit /\ [][MCClock \/ MCPins \/ MCReset]_<<interruptVars, changes>>

(* Liveness: the IRQ pin moves for ever, or stops at either level; no NMI.            *)
LiveSpec ==
    /\ MCInit
    /\ [][MCClock \/ (Recorded(SetIRQ) /\ UNCHANGED changes)]_<<interruptVars, changes>>
    /\ WF_<<interruptVars, changes>>(MCClock)
==================================================================================
