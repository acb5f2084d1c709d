---------------------------- MODULE XgmiiTxEngine ----------------------------
(***************************************************************************)
(* The PCIe-to-network engine and the FIFO in front of it                  *)
(* (boards/kc705/rtl/pcie/XGMII_TX_ENGINE.v and afifo72_w250_r156).  One   *)
(* machine reads the FIFO: it throws entries away until one starts a TLP,  *)
(* waits for the header to go out, and follows the TLP to its last beat.   *)
(* The other one drives the wire.                                          *)
(*                                                                         *)
(* The FIFO is a vendor core, modelled from how it is configured           *)
(* (boards/kc705/ip_catalog/afifo72_w250_r156.xci:                         *)
(* First_Word_Fall_Through): dout shows the oldest entry, or the last one  *)
(* read when it is empty, and an entry is readable as soon as it is        *)
(* written.                                                                *)
(***************************************************************************)
EXTENDS Integers, Sequences

CONSTANT FifoDepth      \* entries the FIFO holds (4096 in the build)

ASSUME FifoDepthAssumption == FifoDepth \in Nat \ {0}

VARIABLES
    fifo,           \* contents of the FIFO
    lastRead,       \* the entry read last
    fifoState,      \* fifo_state
    rdEn,           \* rd_en
    dout2,          \* dout2
    txState2,       \* tx_state
    txCount,        \* tx_counter / 8
    txd             \* xgmii_txd

fifoVars == <<fifo, lastRead>>
xtVars   == <<fifoState, rdEn, dout2, txState2, txCount, txd>>

FifoStates == {"IDLE", "WAIT", "DATA"}
XtStates   == {"IDLE", "HEADER", "DATA", "GAP"}

\* tx_counter of the last header word: 16'h30
LastHeader == 6

\* Words on the wire: header words are numbered, TLP words are entries.
TxWord(k)   == [k |-> k, e |-> [id |-> 0, n |-> 0, op |-> "raw",
                                start |-> FALSE, last |-> FALSE]]
TlpTxWord(e) == [k |-> "tlp", e |-> e]

Empty == fifo = <<>>
Dout  == IF Empty THEN lastRead ELSE Head(fifo)

XgmiiTxInit(zero) ==
    /\ fifo = <<>> /\ lastRead = zero
    /\ fifoState = "IDLE" /\ rdEn = FALSE /\ dout2 = zero
    /\ txState2 = "IDLE" /\ txCount = 0 /\ txd = TxWord("idle")

\* The write port: an entry that finds the FIFO full is gone.
FifoWrite(wrEn, din) ==
    /\ fifo' = IF wrEn /\ Len(fifo) < FifoDepth THEN Append(fifo, din) ELSE fifo
    /\ UNCHANGED lastRead

\* The read port.
FifoRead ==
    IF rdEn /\ ~Empty
      THEN fifo' = Tail(fifo) /\ lastRead' = Head(fifo)
      ELSE UNCHANGED fifoVars

-----------------------------------------------------------------------------
FtFindStart ==
    /\ fifoState = "IDLE"
    /\ dout2' = IF rdEn THEN Dout ELSE dout2
    /\ IF rdEn /\ Dout.start /\ ~Dout.last
         THEN rdEn' = FALSE /\ fifoState' = "WAIT"
         ELSE rdEn' = ~Empty /\ fifoState' = "IDLE"

FtWaitHeader ==
    /\ fifoState = "WAIT"
    /\ fifoState' = IF txCount = LastHeader THEN "DATA" ELSE "WAIT"
    /\ UNCHANGED <<rdEn, dout2>>

FtFollow ==
    /\ fifoState = "DATA"
    /\ dout2' = Dout
    /\ IF rdEn /\ Dout.last
         THEN rdEn' = FALSE /\ fifoState' = "IDLE"
         ELSE rdEn' = ~Empty /\ fifoState' = "DATA"

XtIdle ==
    /\ txState2 = "IDLE"
    /\ IF fifoState = "WAIT"
         THEN txCount' = 0 /\ txState2' = "HEADER"
         ELSE UNCHANGED <<txCount, txState2>>
    /\ UNCHANGED txd

\* Faulty: one header word too many.
XtHeaderLong ==
    /\ txState2 = "HEADER"
    /\ txCount' = txCount + 1
    /\ txd' = TxWord(IF txCount = 0 THEN "start" ELSE "hdr")
    /\ txState2' = IF txCount = LastHeader + 1 THEN "DATA" ELSE "HEADER"

\* Preamble, Ethernet, IP and UDP headers and the magic code.
XtHeader ==
    /\ txState2 = "HEADER"
    /\ txCount' = txCount + 1
    /\ txd' = TxWord(IF txCount = 0 THEN "start" ELSE "hdr")
    /\ txState2' = IF txCount = LastHeader THEN "DATA" ELSE "HEADER"

\* Faulty: no gap after a frame.
XtDataNoGap ==
    /\ txState2 = "DATA"
    /\ IF fifoState # "DATA"
         THEN /\ txCount' = 0
              /\ txd' = TxWord("term")
              /\ txState2' = "IDLE"
         ELSE /\ txd' = TlpTxWord(dout2)
              /\ UNCHANGED <<txCount, txState2>>

XtData ==
    /\ txState2 = "DATA"
    /\ IF fifoState # "DATA"
         THEN /\ txCount' = 0
              /\ txd' = TxWord("term")
              /\ txState2' = "GAP"
         ELSE /\ txd' = TlpTxWord(dout2)
              /\ UNCHANGED <<txCount, txState2>>

\* gap_count starts at tx0_inter_frame_gap - 1 = 0: one word.
XtGap ==
    /\ txState2 = "GAP"
    /\ txd' = TxWord("idle")
    /\ txState2' = "IDLE"
    /\ UNCHANGED txCount

\* One edge of xgmii_clk.
XgmiiTxWord ==
    /\ FtFindStart \/ FtWaitHeader \/ FtFollow
    /\ XtIdle \/ XtHeader \/ XtData \/ XtGap
    /\ FifoRead

=============================================================================
