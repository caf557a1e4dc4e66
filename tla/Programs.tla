--------------------------------- MODULE Programs ---------------------------------
(***********************************************************************************)
(* Two programs for the whole machine: hello-world-final.s, byte for byte, and an   *)
(* excerpt of wozmon.s: its start up to the ACIA's registers, its input loop, and    *)
(* ECHO, whose delay counts down from Delay, 255 in the source. What the monitor     *)
(* does with a line is left out, and with it the index Y and what it prints of its   *)
(* own: behind the call of ECHO the excerpt goes back to the poll.                   *)
(***********************************************************************************)
EXTENDS System, Sequences

CONSTANT Delay

ASSUME DelayAssumption == Delay \in Byte

(* The rows of the opcode table the input loop uses.                                   *)
ASSUME EchoOpcodes ==
    /\ {\hA9, \h8D, \hAD, \h29, \hF0, \h99, \h20, \h4C, \h48, \h3A, \hD0, \h68, \h60}
          \subseteq DOMAIN OpcodeMap
    /\ OpcodeMap[\hA9] = [op |-> "LDA", mode |-> "IMM",  cycles |-> 2]
    /\ OpcodeMap[\h8D] = [op |-> "STA", mode |-> "ABS",  cycles |-> 4]
    /\ OpcodeMap[\hAD] = [op |-> "LDA", mode |-> "ABS",  cycles |-> 4]
    /\ OpcodeMap[\h29] = [op |-> "AND", mode |-> "IMM",  cycles |-> 2]
    /\ OpcodeMap[\hF0] = [op |-> "BEQ", mode |-> "REL",  cycles |-> 4]
    /\ OpcodeMap[\h99] = [op |-> "STA", mode |-> "ABSY", cycles |-> 5]
    /\ OpcodeMap[\h20] = [op |-> "JSR", mode |-> "ABS",  cycles |-> 6]
    /\ OpcodeMap[\h4C] = [op |-> "JMP", mode |-> "ABS",  cycles |-> 3]
    /\ OpcodeMap[\h48] = [op |-> "PHA", mode |-> "IMP",  cycles |-> 3]
    /\ OpcodeMap[\h3A] = [op |-> "DEC", mode |-> "ACC",  cycles |-> 2]
    /\ OpcodeMap[\hD0] = [op |-> "BNE", mode |-> "REL",  cycles |-> 4]
    /\ OpcodeMap[\h68] = [op |-> "PLA", mode |-> "IMP",  cycles |-> 4]
    /\ OpcodeMap[\h60] = [op |-> "RTS", mode |-> "IMP",  cycles |-> 6]

-----------------------------------------------------------------------------------
Code(origin, bytes) ==
    [a \in origin .. origin + Len(bytes) - 1 |-> bytes[a - origin + 1]]

(* Pieces of code, each at its own addresses.                                          *)
Beside(f, g) == [a \in DOMAIN f \cup DOMAIN g |-> IF a \in DOMAIN f THEN f[a] ELSE g[a]]

(* FF00  LDA #$1F    STA $5003   LDA #$0B   STA $5002                                *)
(* FF0A  LDA $5001   AND #$08    BEQ $FF0A  LDA $5000   STA $0200,Y                  *)
(*       JSR $FF1D   JMP $FF0A                                                       *)
Loop ==
    Code(\hFF00, <<\hA9, \h1F, \h8D, \h03, \h50, \hA9, \h0B, \h8D, \h02, \h50,
                   \hAD, \h01, \h50, \h29, \h08, \hF0, \hF9, \hAD, \h00, \h50, \h99, \h00, \h02,
                   \h20, \h1D, \hFF, \h4C, \h0A, \hFF>>)

(* FF1D  PHA         STA $5000   LDA #Delay                                          *)
(* FF23  DEC         BNE $FF23   PLA        RTS                                      *)
ECHO == Code(\hFF1D, <<\h48, \h8D, \h00, \h50, \hA9, Delay, \h3A, \hD0, \hFD, \h68, \h60>>)

(* With the reset vector.                                                              *)
Polling == Beside(Loop, Beside(ECHO, Code(\hFFFC, <<\h00, \hFF>>)))

-----------------------------------------------------------------------------------
(* "Hello, world!" *)
Message == <<72, 101, 108, 108, 111, 44, 32, 119, 111, 114, 108, 100, 33>>

Hello ==
    LET reset == Code(\h8000,
            <<\hA2, \hFF, \h9A, \hA9, \hFF, \h8D, \h02, \h60, \hA9, \hE0, \h8D, \h03, \h60,
              \hA9, \h38, \h20, \h63, \h80, \hA9, \h0E, \h20, \h63, \h80,
              \hA9, \h06, \h20, \h63, \h80, \hA9, \h01, \h20, \h63, \h80,
              \hA2, \h00, \hBD, \h32, \h80, \hF0, \h07, \h20, \h79, \h80,
              \hE8, \h4C, \h23, \h80, \h4C, \h2F, \h80>>)
        message == Code(\h8032, Message \o <<0>>)
        lcdWait == Code(\h8040,
            <<\h48, \hA9, \h00, \h8D, \h02, \h60, \hA9, \h40, \h8D, \h01, \h60,
              \hA9, \hC0, \h8D, \h01, \h60, \hAD, \h00, \h60, \h29, \h80, \hD0, \hEF,
              \hA9, \h40, \h8D, \h01, \h60, \hA9, \hFF, \h8D, \h02, \h60, \h68, \h60>>)
        lcdInstruction == Code(\h8063,
            <<\h20, \h40, \h80, \h8D, \h00, \h60, \hA9, \h00, \h8D, \h01, \h60,
              \hA9, \h80, \h8D, \h01, \h60, \hA9, \h00, \h8D, \h01, \h60, \h60>>)
        printChar == Code(\h8079,
            <<\h20, \h40, \h80, \h8D, \h00, \h60, \hA9, \h20, \h8D, \h01, \h60,
              \hA9, \hA0, \h8D, \h01, \h60, \hA9, \h20, \h8D, \h01, \h60, \h60>>)
    IN  Beside(reset, Beside(message, Beside(lcdWait, Beside(lcdInstruction,
            Beside(printChar, Code(\hFFFC, <<\h00, \h80>>))))))

-----------------------------------------------------------------------------------
(* Whatever the two threads' accesses to the ACIA do to one another, no character ends *)
(* up unprinted unless it slipped by: when the monitor is back at its poll, the        *)
(* receiver at rest and the full bit clear, the last character that came in is the     *)
(* last one printed.                                                                   *)
AtPoll == rom = Polling /\ cpu.started /\ cpu.cycle = 0 /\ cpu.pc = \hFF0A

AllPrinted ==
    AtPoll /\ Quiet /\ RDRF \notin status /\ ~slipped
        => latches.transmit = received \/ received = 0

(* To its user the machine is a terminal with an echo: whatever the two threads do to   *)
(* one another, and in whatever order their accesses take effect, it prints nothing out *)
(* of order, and nothing that was not typed but for the byte the data register powered *)
(* up with: that one once, at the start, and only if the full bit stood for it.         *)
Screen == INSTANCE Terminal WITH hit <- typed, printed <- latches.transmit

ImplementsTerminal == Screen!Spec
===================================================================================
