----------------------------- MODULE Ecp3Client ------------------------------
(***************************************************************************)
(* The UDP packets of software/ecp3_test: a32.c, a64.c and ipnuma_client.c *)
(* send write commands to the server core of the ECP3 board.  Given only   *)
(* the board's IP address, a program sends two commands of DwLen dwords    *)
(* over and over (test); with more arguments it sends one dword.           *)
(*                                                                         *)
(* A packet is a sequence of bytes.  write_addr is given by its six bytes, *)
(* the most significant one first.                                         *)
(***************************************************************************)
EXTENDS Integers, Sequences

CONSTANT
    DwLen       \* dwlen, 16 in the code

ASSUME DwLenAssumption == DwLen \in 1..31

Programs == {"a32", "a64", "ipnuma_client"}

Magic == <<161, 17, 0, 0>>      \* a1 11 00 00

\* Write command (bit 7), 64-bit address (bit 6) and length in dwords.
CommandByte(a64, dw) == 128 + (IF a64 THEN 64 ELSE 0) + dw

Command(a64, addr, data) ==
    <<CommandByte(a64, Len(data) \div 4), 255>> \o addr \o data

\* sdata[11..14]: the least significant byte of write_data goes first.
Bytes(d) ==
    <<d % 256, (d \div 2^8) % 256, (d \div 2^16) % 256, (d \div 2^24) % 256>>

\* The bytes of round j of the test pattern.
Pattern(j) ==
    [n \in 1..(4 * DwLen) |-> 16 * (((n - 1) \div 4 + j) % 16) + ((n - 1) % 4)]

FirstAddr(p)  == IF p = "ipnuma_client" THEN <<192, 0, 0, 0>>
                                        ELSE <<208, 0, 0, 0>>
SecondAddr(p) == <<192, 0, 2, 128>>

\* a32.c has room for four bytes of the address, the others for five.
AddrBytes(p, addr) == SubSeq(addr, IF p = "a32" THEN 3 ELSE 2, 6)

\* Faulty: the delimiter is not part of the length given to sendto.
DelimiterLeftOut == <<>>

Delimiter == <<0>>

(***************************************************************************)
(* The n-th packet of a program.  c is [prog, test, addr, data]; the       *)
(* programs that loop send write_data + 1, write_data + 2, and so on.      *)
(***************************************************************************)
Count(c, n) == c.data + (IF c.prog = "ipnuma_client" THEN 0 ELSE n)

Packet(c, n) ==
    Magic
      \o (IF c.test
            THEN Command(FALSE, FirstAddr(c.prog), Pattern(n))
                   \o Command(FALSE, SecondAddr(c.prog), Pattern(n + 1))
            ELSE Command(c.prog # "a32", AddrBytes(c.prog, c.addr),
                         Bytes(Count(c, n))))
      \o Delimiter

\* With an address and data, ipnuma_client.c ends after its first packet.
Goes(c, n) == c.prog = "ipnuma_client" /\ ~c.test => n = 1

=============================================================================
