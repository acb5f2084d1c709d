----------------------------- MODULE PioRxSnoop ------------------------------
(***************************************************************************)
(* The snooper that copies the host's BAR2 accesses, and the completions   *)
(* of remote reads, to the network                                         *)
(* (boards/kc705/rtl/pcie/PIO_RX_SNOOP.v).  It watches the receive stream  *)
(* next to PIO_RX_ENGINE, looks at tvalid and tlast only, never at tready  *)
(* nor at the FIFO's full, and writes the beats into the transmit FIFO.    *)
(*                                                                         *)
(* A FIFO entry says which beat it was made from, how it was rewritten     *)
(* (op), and the flags start (bit 64) and last (bit 65).                   *)
(***************************************************************************)
EXTENDS HostBus

VARIABLES
    snState,        \* state
    snType,         \* type and fmt of the header
    snDin,          \* din
    snWrEn          \* wr_en

snoopVars == <<snState, snType, snDin, snWrEn>>

SnStates == {"IDLE", "HEADER1", "DATA"}

\* rid:   requester ID inverted          addr32, addr64: mem0_paddr put in
\* cplid: requester ID of a completion inverted            raw: unchanged
Ops == {"rid", "addr32", "addr64", "cplid", "raw"}

Entry(op, last) == [id |-> rxBus.tlp.id, n |-> rxBus.n, op |-> op,
                    start |-> rxTvalid, last |-> last]
NoEntry == [id |-> 0, n |-> 0, op |-> "raw", start |-> FALSE, last |-> FALSE]

SnoopInit ==
    /\ snState = "IDLE" /\ snType = "MSG"
    /\ snDin = NoEntry /\ snWrEn = FALSE

\* Faulty: completions are not forwarded.
WantedBar2 == rxTvalid /\ rxBus.tlp.bar = "BAR2"

\* BAR2 or completion only
Wanted == rxTvalid /\ (rxBus.tlp.bar = "BAR2" \/ LooksLike(rxBus) = "CPL")

SnIgnore ==
    /\ snState = "IDLE" /\ ~Wanted
    /\ snWrEn' = FALSE
    /\ UNCHANGED <<snState, snType, snDin>>

SnHeader0(last) ==
    /\ snState = "IDLE" /\ Wanted
    /\ snType' = LooksLike(rxBus)
    /\ snDin' = Entry(IF LooksLike(rxBus) = "CPL" THEN "raw" ELSE "rid", last)
    /\ snWrEn' = TRUE
    /\ snState' = "HEADER1"

\* Faulty: a completion's requester ID is not turned back.
SnHeader1NoCpl(last) ==
    /\ snState = "HEADER1"
    /\ snDin' = Entry(CASE snType \in {"RD32", "WR32"} -> "addr32"
                        [] snType \in {"RD64", "WR64"} -> "addr64"
                        [] OTHER -> "raw", last)
    /\ snWrEn' = TRUE
    /\ snState' = IF last THEN "IDLE" ELSE "DATA"
    /\ UNCHANGED snType

SnHeader1(last) ==
    /\ snState = "HEADER1"
    /\ snDin' = Entry(CASE snType \in {"RD32", "WR32"} -> "addr32"
                        [] snType \in {"RD64", "WR64"} -> "addr64"
                        [] snType = "CPL" -> "cplid"
                        [] OTHER -> "raw", last)
    /\ snWrEn' = TRUE
    /\ snState' = IF last THEN "IDLE" ELSE "DATA"
    /\ UNCHANGED snType

SnData(last) ==
    /\ snState = "DATA"
    /\ snDin' = Entry("raw", last)
    /\ snWrEn' = TRUE
    /\ snState' = IF last THEN "IDLE" ELSE "DATA"
    /\ UNCHANGED snType

\* tlast of an invalid beat can be anything.
SnoopClk ==
    \E last \in (IF rxTvalid THEN {RxLast(rxBus)} ELSE BOOLEAN) :
      \/ SnIgnore
      \/ SnHeader0(last)
      \/ SnHeader1(last)
      \/ SnData(last)

=============================================================================
