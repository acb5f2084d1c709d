--------------------------- MODULE MCRegisterIoctl ---------------------------
(***************************************************************************)
(* Small instances of RegisterIoctl: one process sets up the interface,    *)
(* one the destination, as init_numa of software/pingpong does with the    *)
(* addresses of the server and of the client.                              *)
(***************************************************************************)
EXTENDS RegisterIoctl

TwoProcs == {"if", "dest"}

\* On the KC705 driver and board agree on the IPv4 addresses only.
AgreedOwns(b, p) ==
    (IF p = "if" THEN {"if_v4addr"} ELSE {"dest_v4addr"})
      \union (IF b = "KC705" THEN {}
              ELSE IF p = "if" THEN {"if_macaddr"} ELSE {"dest_macaddr"})

Mem0Owns(b, p) == IF p = "dest" THEN {"mem0_paddr"} ELSE {}

\* Page-aligned physical addresses, eight bytes, lowest first.
SomeValues(r) ==
    CASE r \in {"if_v4addr", "dest_v4addr"} ->
           {<<192, 168, 1, 1>>, <<192, 168, 1, 2>>}
      [] r \in {"if_macaddr", "dest_macaddr"} ->
           {<<0, 55, 118, 16, 0, 1>>, <<0, 55, 118, 16, 0, 2>>}
      [] r = "mem0_paddr" ->
           {<<0, 192, 20, 188, 1, 0, 0, 0>>, <<0, 192, 20, 188, 0, 0, 0, 0>>}

=============================================================================
