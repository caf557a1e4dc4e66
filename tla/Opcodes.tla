--------------------------------- MODULE Opcodes ---------------------------------
(***********************************************************************************)
(* devices/W65C02S/opcodes.h: the opcode table the CPU decodes with. W65C02S.tla    *)
(* takes the table as a constant; this module is the table of the source.           *)
(*                                                                                  *)
(* The enum also names CLC, SEC, CLI, SEI, CLV, CLD and SED, and the CPU has        *)
(* handlers for them, but the table has no row for them.                            *)
(***********************************************************************************)
EXTENDS Integers

AddressingMode ==
    {"IMP", "ACC", "IMM", "ZP", "ZPX", "ZPY", "ABS", "ABSX", "ABSY", "IND", "INDX", "INDY", "REL"}

(* Rows of the table: opcode byte, mnemonic, addressing mode, clock cycles. *)
Rows == {
    <<\hA9, "LDA", "IMM", 2>>, <<\hA5, "LDA", "ZP", 3>>, <<\hB5, "LDA", "ZPX", 4>>,
    <<\hAD, "LDA", "ABS", 4>>, <<\hBD, "LDA", "ABSX", 4>>, <<\hB9, "LDA", "ABSY", 4>>,
    <<\hA1, "LDA", "INDX", 6>>, <<\hB1, "LDA", "INDY", 5>>, <<\hA2, "LDX", "IMM", 2>>,
    <<\hA6, "LDX", "ZP", 3>>, <<\hB6, "LDX", "ZPY", 4>>, <<\hAE, "LDX", "ABS", 4>>,
    <<\hBE, "LDX", "ABSY", 4>>, <<\hA0, "LDY", "IMM", 2>>, <<\hA4, "LDY", "ZP", 3>>,
    <<\hB4, "LDY", "ZPX", 4>>, <<\hAC, "LDY", "ABS", 4>>, <<\hBC, "LDY", "ABSX", 4>>,
    <<\h85, "STA", "ZP", 3>>, <<\h95, "STA", "ZPX", 4>>, <<\h8D, "STA", "ABS", 4>>,
    <<\h9D, "STA", "ABSX", 5>>, <<\h99, "STA", "ABSY", 5>>, <<\h81, "STA", "INDX", 6>>,
    <<\h91, "STA", "INDY", 6>>, <<\h86, "STX", "ZP", 3>>, <<\h96, "STX", "ZPY", 4>>,
    <<\h8E, "STX", "ABS", 4>>, <<\h84, "STY", "ZP", 3>>, <<\h94, "STY", "ZPX", 4>>,
    <<\h8C, "STY", "ABS", 4>>, <<\hAA, "TAX", "IMP", 2>>, <<\h8A, "TXA", "IMP", 2>>,
    <<\hCA, "DEX", "IMP", 2>>, <<\hE8, "INX", "IMP", 2>>, <<\hA8, "TAY", "IMP", 2>>,
    <<\h98, "TYA", "IMP", 2>>, <<\h88, "DEY", "IMP", 2>>, <<\hC8, "INY", "IMP", 2>>,
    <<\h29, "AND", "IMM", 2>>, <<\h25, "AND", "ZP", 3>>, <<\h35, "AND", "ZPX", 4>>,
    <<\h2D, "AND", "ABS", 4>>, <<\h3D, "AND", "ABSX", 4>>, <<\h39, "AND", "ABSY", 4>>,
    <<\h21, "AND", "INDX", 6>>, <<\h31, "AND", "INDY", 5>>, <<\h49, "EOR", "IMM", 2>>,
    <<\h45, "EOR", "ZP", 3>>, <<\h55, "EOR", "ZPX", 4>>, <<\h4D, "EOR", "ABS", 4>>,
    <<\h5D, "EOR", "ABSX", 4>>, <<\h59, "EOR", "ABSY", 4>>, <<\h41, "EOR", "INDX", 6>>,
    <<\h51, "EOR", "INDY", 5>>, <<\h09, "ORA", "IMM", 2>>, <<\h05, "ORA", "ZP", 3>>,
    <<\h15, "ORA", "ZPX", 4>>, <<\h0D, "ORA", "ABS", 4>>, <<\h1D, "ORA", "ABSX", 4>>,
    <<\h19, "ORA", "ABSY", 4>>, <<\h01, "ORA", "INDX", 6>>, <<\h11, "ORA", "INDY", 5>>,
    <<\h24, "BIT", "ZP", 3>>, <<\h2C, "BIT", "ABS", 4>>, <<\h69, "ADC", "IMM", 2>>,
    <<\h65, "ADC", "ZP", 3>>, <<\h75, "ADC", "ZPX", 4>>, <<\h6D, "ADC", "ABS", 4>>,
    <<\h7D, "ADC", "ABSX", 4>>, <<\h79, "ADC", "ABSY", 4>>, <<\h61, "ADC", "INDX", 6>>,
    <<\h71, "ADC", "INDY", 5>>, <<\hE9, "SBC", "IMM", 2>>, <<\hE5, "SBC", "ZP", 3>>,
    <<\hF5, "SBC", "ZPX", 4>>, <<\hED, "SBC", "ABS", 4>>, <<\hFD, "SBC", "ABSX", 4>>,
    <<\hF9, "SBC", "ABSY", 4>>, <<\hE1, "SBC", "INDX", 6>>, <<\hF1, "SBC", "INDY", 5>>,
    <<\hC9, "CMP", "IMM", 2>>, <<\hC5, "CMP", "ZP", 3>>, <<\hD5, "CMP", "ZPX", 4>>,
    <<\hCD, "CMP", "ABS", 4>>, <<\hDD, "CMP", "ABSX", 4>>, <<\hD9, "CMP", "ABSY", 4>>,
    <<\hC1, "CMP", "INDX", 6>>, <<\hD1, "CMP", "INDY", 5>>, <<\hE0, "CPX", "IMM", 2>>,
    <<\hE4, "CPX", "ZP", 3>>, <<\hEC, "CPX", "ABS", 4>>, <<\hC0, "CPY", "IMM", 2>>,
    <<\hC4, "CPY", "ZP", 3>>, <<\hCC, "CPY", "ABS", 4>>, <<\h1A, "INC", "ACC", 2>>,
    <<\hE6, "INC", "ZP", 5>>, <<\hF6, "INC", "ZPX", 6>>, <<\hEE, "INC", "ABS", 6>>,
    <<\hFE, "INC", "ABSX", 7>>, <<\h3A, "DEC", "ACC", 2>>, <<\hC6, "DEC", "ZP", 5>>,
    <<\hD6, "DEC", "ZPX", 6>>, <<\hCE, "DEC", "ABS", 6>>, <<\hDE, "DEC", "ABSX", 7>>,
    <<\h0A, "ASL", "ACC", 2>>, <<\h06, "ASL", "ZP", 5>>, <<\h16, "ASL", "ZPX", 6>>,
    <<\h0E, "ASL", "ABS", 6>>, <<\h1E, "ASL", "ABSX", 7>>, <<\h4A, "LSR", "ACC", 2>>,
    <<\h46, "LSR", "ZP", 5>>, <<\h56, "LSR", "ZPX", 6>>, <<\h4E, "LSR", "ABS", 6>>,
    <<\h5E, "LSR", "ABSX", 7>>, <<\h2A, "ROL", "ACC", 2>>, <<\h26, "ROL", "ZP", 5>>,
    <<\h36, "ROL", "ZPX", 6>>, <<\h2E, "ROL", "ABS", 6>>, <<\h3E, "ROL", "ABSX", 7>>,
    <<\h6A, "ROR", "ACC", 2>>, <<\h66, "ROR", "ZP", 5>>, <<\h76, "ROR", "ZPX", 6>>,
    <<\h6E, "ROR", "ABS", 6>>, <<\h7E, "ROR", "ABSX", 7>>, <<\hBA, "TSX", "IMP", 2>>,
    <<\h9A, "TXS", "IMP", 2>>, <<\h48, "PHA", "IMP", 3>>, <<\h68, "PLA", "IMP", 4>>,
    <<\h08, "PHP", "IMP", 3>>, <<\h28, "PLP", "IMP", 4>>, <<\h4C, "JMP", "ABS", 3>>,
    <<\h6C, "JMP", "IND", 5>>, <<\h20, "JSR", "ABS", 6>>, <<\h60, "RTS", "IMP", 6>>,
    <<\h10, "BPL", "REL", 4>>, <<\h30, "BMI", "REL", 4>>, <<\h50, "BVC", "REL", 4>>,
    <<\h70, "BVS", "REL", 4>>, <<\h90, "BCC", "REL", 4>>, <<\hB0, "BCS", "REL", 4>>,
    <<\hD0, "BNE", "REL", 4>>, <<\hF0, "BEQ", "REL", 4>>, <<\hEA, "NOP", "IMP", 2>>,
    <<\h00, "BRK", "IMP", 7>>, <<\h40, "RTI", "IMP", 6>> }

(* The bytes the enumerators with a row stand for. *)
Opcode == {r[1] : r \in Rows}

(* OpcodeMap of the source: opcode byte to OpcodeInfo. *)
OpcodeTable ==
    [b \in Opcode |->
        LET r == CHOOSE q \in Rows : q[1] = b
        IN  [op |-> r[2], mode |-> r[3], cycles |-> r[4]]]

(* The flag instructions of the enum that the table leaves out. *)
Unlisted == {<<\h18, "CLC">>, <<\h38, "SEC">>, <<\h58, "CLI">>, <<\h78, "SEI">>,
             <<\hB8, "CLV">>, <<\hD8, "CLD">>, <<\hF8, "SED">>}
==================================================================================
