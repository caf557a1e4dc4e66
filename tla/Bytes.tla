---------------------------------- MODULE Bytes ----------------------------------
(***********************************************************************************)
(* uint8_t and uint16_t: the widths the emulator computes with, the wrap-around of  *)
(* a narrowing assignment, single bits, the bitwise operators of C++ on bytes, and  *)
(* the status flags of devices/W65C02S/W65C02S.h.                                   *)
(*                                                                                  *)
(* The bitwise operators are written out bit by bit, without recursion, so that     *)
(* modules with proofs can use them.                                                *)
(***********************************************************************************)
EXTENDS Integers

UINT8_MAX  == 255
UINT16_MAX == 65535

Byte == 0 .. UINT8_MAX
Word == 0 .. UINT16_MAX

(* static_cast<uint8_t>(n) and static_cast<uint16_t>(n). *)
U8(n)  == n % 256
U16(n) == n % 65536

Lo(w) == w % 256
Hi(w) == (w \div 256) % 256

(* (h << 8) | l *)
Join(h, l) == 256 * h + l

(* A slip the runs must notice: the sign is taken from the wrong half.                 *)
SignedInverted(b) == IF b < 128 THEN b - 256 ELSE b

(* static_cast<int8_t>(b) *)
Signed(b) == IF b < 128 THEN b ELSE b - 256

-----------------------------------------------------------------------------------
(* A bit is named by its mask, 1 << i. *)
Masks == {1, 2, 4, 8, 16, 32, 64, 128}

(* (b & mask) != 0 *)
Has(b, mask) == (b \div mask) % 2 = 1

(* The bits of a byte, and the byte whose bits are the masks of S. *)
Ones(b) == {k \in Masks : Has(b, k)}

ByteOf(S) ==
    LET w(k) == IF k \in S THEN k ELSE 0
    IN  w(1) + w(2) + w(4) + w(8) + w(16) + w(32) + w(64) + w(128)

(* b |= mask when on, b &= ~mask otherwise *)
Put(b, mask, on) == ByteOf(IF on THEN Ones(b) \cup {mask} ELSE Ones(b) \ {mask})

BitAnd(u, v) == ByteOf(Ones(u) \cap Ones(v))
BitOr(u, v)  == ByteOf(Ones(u) \cup Ones(v))
BitXor(u, v) == ByteOf((Ones(u) \cup Ones(v)) \ (Ones(u) \cap Ones(v)))

-----------------------------------------------------------------------------------
(* The status flags, each named by its mask. *)
CARRY     == 1
ZERO      == 2
INTERRUPT == 4
DECIMAL   == 8
BREAK     == 16
UNUSED    == 32
OVERFLOW  == 64
NEGATIVE  == 128

(* status & STATUS_CARRY, as the number the arithmetic adds. *)
CarryOf(status) == status % 2
==================================================================================
