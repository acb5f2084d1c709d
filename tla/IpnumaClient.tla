---------------------------- MODULE IpnumaClient -----------------------------
(***************************************************************************)
(* The TLPs that software/kc705_test/ipnuma_client.c puts into a UDP       *)
(* packet: modes 0-3 write, modes 4-7 read, bit 1 of the mode asks for a   *)
(* 64-bit address and bit 0 for two dwords of data.                        *)
(***************************************************************************)
EXTENDS Integers, Sequences

Modes == 0..7

\* The first dword, as fmt bit 1 (with data), fmt bit 0 (64-bit address) and
\* length: 0x40000001, 0x40000002, 0x60000001, 0x60000002, and so on.
Header(mode) ==
    CASE mode = 0 -> [data |-> TRUE,  a64 |-> FALSE, dw |-> 1]
      [] mode = 1 -> [data |-> TRUE,  a64 |-> FALSE, dw |-> 2]
      [] mode = 2 -> [data |-> TRUE,  a64 |-> TRUE,  dw |-> 1]
      [] mode = 3 -> [data |-> TRUE,  a64 |-> TRUE,  dw |-> 2]
      [] mode = 4 -> [data |-> FALSE, a64 |-> FALSE, dw |-> 1]
      [] mode = 5 -> [data |-> FALSE, a64 |-> FALSE, dw |-> 2]
      [] mode = 6 -> [data |-> FALSE, a64 |-> TRUE,  dw |-> 1]
      [] mode = 7 -> [data |-> FALSE, a64 |-> TRUE,  dw |-> 2]

Bit(mode, b) == (mode \div b) % 2 = 1

\* The dwords of tlp[], by what they carry.
Tlp(mode) ==
    <<"header", "requester_id">>
      \o (IF Bit(mode, 2) THEN <<"addr_high">> ELSE <<>>)
      \o <<"addr">>
      \o (IF mode < 4
            THEN <<"write_data">>
                   \o (IF Bit(mode, 1) THEN <<"write_data_high">> ELSE <<>>)
            ELSE <<>>)

(***************************************************************************)
(* A TLP as the receiving card sees it: the fields of its first dword, and *)
(* sent, the dwords that really are in the packet.  (The packet is padded  *)
(* to an odd number of dwords, which the card ignores.)                    *)
(***************************************************************************)
Shape(mode) ==
    [data |-> Header(mode).data, a64 |-> Header(mode).a64,
     dw |-> Header(mode).dw, sent |-> Len(Tlp(mode))]

=============================================================================
