----------------------------- MODULE Ecp3Server ------------------------------
(***************************************************************************)
(* The server core of the ECP3 board (boards/ecp3versa/rtl/ecp3/server.v), *)
(* which finds write commands in frames and passes them on as words.  A    *)
(* step is an edge of pcie_clk; phy_rd_en is set during a whole frame: the *)
(* FIFO is read no faster than it is filled.                               *)
(***************************************************************************)
EXTENDS Ecp3Master

VARIABLES
    counter,    \* counter
    hdr,        \* the header registers the core compares, by their offset
    srvStatus,  \* srv_status
    srv64,      \* srv_64bit
    blen,       \* blen
    prev,       \* phy_dout2
    din,        \* mst_din: start and end flags, high and low byte
    wrEn        \* mst_wr_en

serverVars == <<counter, hdr, srvStatus, srv64, blen, prev, din, wrEn>>

SrvStates == {"IDLE", "HEAD0", "HEAD1", "ADDR64", "ADDR48", "ADDR32",
              "ADDR24", "ADDR16", "ADDR8", "DATA"}
Byte == 0..255
Word == [st : BOOLEAN, en : BOOLEAN, hi : Byte, lo : Byte]

\* eth_type, ipv4_protocol, ipv4_dest_port and magic_code[31:8] of a command
\* packet: IPv4, UDP, port 3422.
Fields == {12, 13, 23, 36, 37, 42, 43, 44}
LastField == 45
Wanted == [f \in Fields |->
             CASE f = 12 -> 8 [] f = 23 -> 17 [] f = 36 -> 13 [] f = 37 -> 94
               [] f = 42 -> 161 [] f = 43 -> 17 [] OTHER -> 0]

ServerInit ==
    /\ counter = 0 /\ hdr = [f \in Fields |-> 0]
    /\ srvStatus = "IDLE" /\ srv64 = FALSE /\ blen = 0 /\ prev = 0
    /\ din = NoWord /\ wrEn = FALSE

\* mst_wr_en is set: the word in mst_din goes to the master FIFO.
Put(w)  == din' = w /\ wrEn' = TRUE
Hold(w) == din' = w /\ wrEn' = FALSE

Goto(status) == srvStatus' = status

-----------------------------------------------------------------------------
(***************************************************************************)
(* One state of srv_status after the other, with b on phy_dout[7:0].       *)
(***************************************************************************)
Idle(b) ==
    /\ srvStatus = "IDLE"
    /\ Goto(IF counter = LastField /\ hdr = Wanted /\ b = 0
              THEN "HEAD0" ELSE "IDLE")
    /\ Hold(din)
    /\ UNCHANGED <<srv64, blen>>

Head0(b) ==
    /\ srvStatus = "HEAD0"
    /\ Hold([st |-> TRUE, en |-> FALSE, hi |-> b, lo |-> din.lo])
    /\ srv64' = ((b \div 64) % 2 = 1)
    /\ blen' = (4 * (b % 64)) % 128
    /\ Goto(IF b = 0 THEN "IDLE" ELSE "HEAD1")

Head1(b) ==
    /\ srvStatus = "HEAD1"
    /\ Put([din EXCEPT !.lo = b])
    /\ Goto(IF srv64 THEN "ADDR64" ELSE "ADDR32")
    /\ UNCHANGED <<srv64, blen>>

Addr64(b) ==
    /\ srvStatus = "ADDR64"
    /\ Put(NoWord)
    /\ Goto("ADDR48")
    /\ UNCHANGED <<srv64, blen>>

Addr48(b) ==
    /\ srvStatus = "ADDR48"
    /\ Put([din EXCEPT !.lo = prev])
    /\ Goto("ADDR32")
    /\ UNCHANGED <<srv64, blen>>

\* With a 64-bit address the core is one byte behind until here.
Addr32(b) ==
    /\ srvStatus = "ADDR32"
    /\ IF srv64
         THEN Put([NoWord EXCEPT !.hi = prev, !.lo = b]) /\ Goto("ADDR16")
         ELSE Hold([NoWord EXCEPT !.hi = b, !.lo = din.lo]) /\ Goto("ADDR24")
    /\ UNCHANGED <<srv64, blen>>

Addr24(b) ==
    /\ srvStatus = "ADDR24"
    /\ Put([din EXCEPT !.lo = IF srv64 THEN prev ELSE b])
    /\ Goto("ADDR16")
    /\ UNCHANGED <<srv64, blen>>

Addr16(b) ==
    /\ srvStatus = "ADDR16"
    /\ Hold([din EXCEPT !.hi = b])
    /\ Goto("ADDR8")
    /\ UNCHANGED <<srv64, blen>>

Addr8(b) ==
    /\ srvStatus = "ADDR8"
    /\ Put([din EXCEPT !.lo = b])
    /\ Goto("DATA")
    /\ UNCHANGED <<srv64, blen>>

\* blen counts modulo 128.
Data(b) ==
    /\ srvStatus = "DATA"
    /\ blen' = (blen + 127) % 128
    /\ IF blen % 2 = 0
         THEN Hold([din EXCEPT !.st = FALSE, !.en = FALSE, !.hi = b])
         ELSE Put([din EXCEPT !.st = FALSE, !.en = (blen = 1), !.lo = b])
    /\ Goto(IF blen = 1 THEN "HEAD0" ELSE "DATA")
    /\ UNCHANGED srv64

\* A byte of a frame (phy_dout[8] set) ...
ServerByte(b) ==
    /\ counter' = (counter + 1) % 4096
    /\ hdr' = IF srvStatus = "IDLE" /\ counter \in Fields
                THEN [hdr EXCEPT ![counter] = b] ELSE hdr
    /\ prev' = b
    /\ \/ Idle(b) \/ Head0(b) \/ Head1(b) \/ Addr64(b) \/ Addr48(b)
       \/ Addr32(b) \/ Addr24(b) \/ Addr16(b) \/ Addr8(b) \/ Data(b)

\* ... and one of the gap after it.  srv_status stays as it is.
ServerGap ==
    /\ counter' = 0 /\ prev' = 0 /\ wrEn' = FALSE
    /\ UNCHANGED <<hdr, srvStatus, srv64, blen, din>>

=============================================================================
