--------------------------- MODULE BoardRegisters ----------------------------
(***************************************************************************)
(* The user registers behind BAR0, as the host sees them: the KC705's in   *)
(* boards/kc705/rtl/pcie/PIO_EP_MEM_ACCESS.v and the ECP3 Versa's in       *)
(* boards/ecp3versa/rtl/ecp3/ipnuma.v.  A register is the sequence of its  *)
(* bytes in the order in which a host copies them.  An access is one dword *)
(* with byte enables, 0 for the byte at the lowest address.                *)
(***************************************************************************)
EXTENDS Integers, Sequences

VARIABLES
    board,          \* which of the two boards it is
    regs            \* register -> its bytes

Boards == {"KC705", "ECP3"}

RegNames == {"if_v4addr", "if_macaddr", "dest_v4addr", "dest_macaddr",
             "mem0_paddr"}

RegLen == [r \in RegNames |->
             IF r \in {"if_v4addr", "dest_v4addr"} THEN 4 ELSE 6]

\* Faulty: dest_v4addr one dword too far.
KC705BaseLate(r) == CASE r = "if_v4addr"    -> 0
                      [] r = "if_macaddr"   -> 8
                      [] r = "dest_v4addr"  -> 20
                      [] r = "dest_macaddr" -> 24
                      [] r = "mem0_paddr"   -> 40

\* Offset of a register's first byte: its bytes follow each other.
KC705Base(r) == CASE r = "if_v4addr"    -> 0
                  [] r = "if_macaddr"   -> 8
                  [] r = "dest_v4addr"  -> 16
                  [] r = "dest_macaddr" -> 24
                  [] r = "mem0_paddr"   -> 40
ECP3Base(r)  == CASE r = "if_v4addr"    -> 0
                  [] r = "if_macaddr"   -> 4
                  [] r = "dest_v4addr"  -> 16
                  [] r = "dest_macaddr" -> 20
                  [] r = "mem0_paddr"   -> 40

Base(r) == IF board = "KC705" THEN KC705Base(r) ELSE ECP3Base(r)

RegsInit ==
    regs = [if_v4addr    |-> <<10, 0, 21, 199>>,
            if_macaddr   |-> <<0, 55, 118, 0, 0, 1>>,
            dest_v4addr  |-> <<10, 0, 21, 255>>,
            dest_macaddr |-> <<255, 255, 255, 255, 255, 255>>,
            mem0_paddr   |-> <<0, 0, 0, IF board = "KC705" THEN 208 ELSE 0,
                               0, 0>>]

\* Faulty: the byte is shifted into a register with room for nine bits.
StoredShifted(r, i, b) == 2 * b

(***************************************************************************)
(* What byte i of register r becomes when byte b is written to it.  The    *)
(* KC705 keeps the bits 47-12 of mem0_paddr, and writes byte 3 of          *)
(* if_macaddr to the nine bits 31-23.                                      *)
(***************************************************************************)
Stored(r, i, b) ==
    CASE board = "KC705" /\ r = "mem0_paddr" /\ i = 1 -> 0
      [] board = "KC705" /\ r = "mem0_paddr" /\ i = 2 -> 16 * (b \div 16)
      [] board = "KC705" /\ r = "if_macaddr" /\ i = 3 -> b \div 2
      [] OTHER -> b

\* The ninth of those bits, unless byte 4 is written as well.
Spilled(r, i, word, data) ==
    IF /\ board = "KC705" /\ r = "if_macaddr" /\ i = 4
       /\ word = Base(r) \div 4 /\ 2 \in DOMAIN data
      THEN 128 * (data[2] % 2) + (regs[r][i] % 128)
      ELSE regs[r][i]

\* One dword write; data maps the enabled lanes to their bytes.
RegWrite(word, data) ==
    regs' = [r \in RegNames |-> [i \in 1..RegLen[r] |->
               LET o == Base(r) + i - 1 IN
               IF o \div 4 = word /\ o % 4 \in DOMAIN data
                 THEN Stored(r, i, data[o % 4])
                 ELSE Spilled(r, i, word, data)]]

\* Faulty: the destination's registers cannot be read.
RegByteNoDest(o) ==
    LET hit == {r \in {"if_v4addr", "if_macaddr"} :
                  o - Base(r) \in 0..(RegLen[r] - 1)} IN
    IF hit = {} THEN 0
    ELSE LET r == CHOOSE x \in hit : TRUE IN regs[r][o - Base(r) + 1]

\* The byte at offset o; offsets between the registers read as 0.
RegByte(o) ==
    LET hit == {r \in RegNames : o - Base(r) \in 0..(RegLen[r] - 1)} IN
    IF hit = {} THEN 0
    ELSE LET r == CHOOSE x \in hit : TRUE IN regs[r][o - Base(r) + 1]

=============================================================================
