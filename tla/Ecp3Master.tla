----------------------------- MODULE Ecp3Master ------------------------------
(***************************************************************************)
(* From the words of the server core to memory writes on the PCIe link     *)
(* (boards/ecp3versa/rtl/ecp3): the master FIFO, and in pcie_tlp.v the     *)
(* master sequencer and the TX2 branch of the transmit sequencer.  A step  *)
(* is an edge of pcie_clk.                                                 *)
(*                                                                         *)
(* The FIFO shows a word one clock after it was read, so the sequencer     *)
(* works on the word before the one it reads.  Completions (TX1) and the   *)
(* PCIe core hold up the transmit sequencer: tx_rdy comes after any of     *)
(* RdyDelays clocks.                                                       *)
(***************************************************************************)
EXTENDS Integers, Sequences

CONSTANT
    RdyDelays   \* clocks from tx_req to tx_rdy

ASSUME RdyDelaysAssumption == RdyDelays \subseteq Nat

VARIABLES
    fifo,       \* fifo_wr_mstq
    mstDout,    \* mst_dout
    mstRdEn,    \* mst_rd_en
    mst,        \* mst_status, mst_rd_wait and the tx2 registers it sets
    tx,         \* tx_status, tx2_tlpd_ready and the clocks to tx_rdy
    tlp         \* the memory write on the link

masterVars == <<fifo, mstDout, mstRdEn, mst, tx, tlp>>

FifoWords == 512

NoWord == [st |-> FALSE, en |-> FALSE, hi |-> 0, lo |-> 0]

MstStates == {"IDLE", "MWRITE64", "MWRITE48", "MWRITE32", "MWRITE16",
              "MWRITED"}
TxSteps == <<"IDLE", "WAIT", "HEAD0", "HEAD1", "COMP2", "COMP3", "COMP4",
             "COMP5", "COMP6", "COMP7", "DATA">>

MasterInit ==
    /\ fifo = <<>> /\ mstDout = NoWord /\ mstRdEn = FALSE
    /\ mst = [status |-> "IDLE", wait |-> FALSE, valid |-> FALSE,
              done |-> FALSE, length |-> 0, be |-> 0,
              addr |-> <<0, 0, 0, 0, 0, 0>>, data |-> <<0, 0>>]
    /\ tx = [step |-> 1, ready |-> FALSE, delay |-> 0]
    /\ tlp = [dw |-> 0, be |-> 0, addr |-> <<>>, data |-> <<>>, delay |-> 0]

-----------------------------------------------------------------------------
Reads == mstRdEn /\ fifo # <<>>

\* A word that finds the FIFO full is lost; nobody looks at mst_full.
FifoClk(wrEn, din) ==
    /\ fifo' = (IF Reads THEN Tail(fifo) ELSE fifo)
                 \o (IF wrEn /\ Len(fifo) < FifoWords THEN <<din>> ELSE <<>>)
    /\ mstDout' = IF Reads THEN Head(fifo) ELSE mstDout

(***************************************************************************)
(* The master sequencer.  m is mst with tx2_tlpd_done cleared, w the word  *)
(* in mst_dout.                                                            *)
(***************************************************************************)
MstIdle(m, w) ==
    IF w.st
      THEN [m EXCEPT !.valid = FALSE, !.length = 2 * (w.hi % 64), !.be = w.lo,
                     !.addr = [@ EXCEPT ![1] = 0, ![2] = 0],
                     !.status = IF (w.hi \div 64) % 2 = 1 THEN "MWRITE64"
                                ELSE "MWRITE32"]
      ELSE [m EXCEPT !.valid = FALSE]

MstAddr(m, w) ==
    CASE m.status = "MWRITE64" -> [m EXCEPT !.status = "MWRITE48"]
      [] m.status = "MWRITE48" ->
           [m EXCEPT !.addr = [@ EXCEPT ![1] = w.hi, ![2] = w.lo],
                     !.status = "MWRITE32"]
      [] m.status = "MWRITE32" ->
           [m EXCEPT !.addr = [@ EXCEPT ![3] = w.hi, ![4] = w.lo],
                     !.status = "MWRITE16"]
      [] m.status = "MWRITE16" ->
           [m EXCEPT !.addr = [@ EXCEPT ![5] = w.hi, ![6] = 4 * (w.lo \div 4)],
                     !.valid = TRUE, !.wait = TRUE, !.status = "MWRITED"]

\* tx2_length is back at 2046 (-2) when all words have been shown.
LastLength == 2046

\* Faulty: the sequencer ends one clock too early.
MstDataEarly(m, w) ==
    [m EXCEPT !.valid = FALSE, !.wait = FALSE, !.data = <<w.hi, w.lo>>,
              !.length = (@ + 2047) % 2048,
              !.done = (m.length = LastLength + 1),
              !.status = IF m.length = LastLength + 1 THEN "IDLE" ELSE @]

\* Faulty: tx2_length does not wrap around.
MstDataNoWrap(m, w) ==
    [m EXCEPT !.valid = FALSE, !.wait = FALSE, !.data = <<w.hi, w.lo>>,
              !.length = @ - 1,
              !.done = (m.length = -2),
              !.status = IF m.length = -2 THEN "IDLE" ELSE @]

MstData(m, w) ==
    [m EXCEPT !.valid = FALSE, !.wait = FALSE, !.data = <<w.hi, w.lo>>,
              !.length = (@ + 2047) % 2048,
              !.done = (m.length = LastLength),
              !.status = IF m.length = LastLength THEN "IDLE" ELSE @]

\* The address states wait for a word, MWRITED for the transmit sequencer.
MstClk ==
    LET m == [mst EXCEPT !.done = FALSE]
    IN  /\ mst' = CASE mst.status = "IDLE" /\ Reads -> MstIdle(m, mstDout)
                    [] mst.status = "MWRITED" /\ tx.ready
                         -> MstData(m, mstDout)
                    [] mst.status \notin {"IDLE", "MWRITED"} /\ Reads
                         -> MstAddr(m, mstDout)
                    [] OTHER -> m
        /\ mstRdEn' =
             (/\ fifo # <<>> /\ ~mst.wait
              /\ ~(mst.status = "MWRITE16" /\ Reads)
              /\ ~(mst.status = "MWRITED" /\ tx.ready
                     /\ mst.length \in {LastLength, LastLength + 1}))

-----------------------------------------------------------------------------
(***************************************************************************)
(* The transmit sequencer: eight header words, then what is in tx2_data at *)
(* every clock, whether or not it is new.  tx_end goes with the word that  *)
(* is on the link when tx2_tlpd_done is set.                               *)
(***************************************************************************)
TxStep(s) == TxSteps[tx.step] = s

TxStart ==
    /\ TxStep("IDLE")
    /\ IF mst.valid
         THEN \E d \in RdyDelays :
                tx' = [tx EXCEPT !.step = @ + 1, !.delay = d]
         ELSE tx' = tx
    /\ UNCHANGED tlp

TxWait ==
    /\ TxStep("WAIT")
    /\ tx' = IF tx.delay = 0 THEN [tx EXCEPT !.step = @ + 1]
                             ELSE [tx EXCEPT !.delay = @ - 1]
    /\ tlp' = IF tx.delay = 0 THEN tlp ELSE [tlp EXCEPT !.delay = @ + 1]

\* The header, with the length as it is before the data are counted.
TxHeader ==
    /\ TxStep("HEAD0") \/ TxStep("HEAD1") \/ TxStep("COMP2")
         \/ TxStep("COMP3") \/ TxStep("COMP4") \/ TxStep("COMP5")
         \/ TxStep("COMP6") \/ TxStep("COMP7")
    /\ tx' = [tx EXCEPT !.step = @ + 1, !.ready = @ \/ TxStep("COMP4")]
    /\ tlp' = IF TxStep("HEAD1")
                THEN [tlp EXCEPT !.dw = mst.length \div 2, !.be = mst.be,
                                 !.addr = mst.addr, !.data = <<>>]
                ELSE tlp

TxData ==
    /\ TxStep("DATA")
    /\ tx' = IF mst.done THEN [tx EXCEPT !.step = 1, !.ready = FALSE] ELSE tx
    /\ tlp' = IF mst.done THEN [tlp EXCEPT !.delay = 0]
              ELSE [tlp EXCEPT !.data = @ \o mst.data]

TxClk == TxStart \/ TxWait \/ TxHeader \/ TxData

MasterClk(wrEn, din) == FifoClk(wrEn, din) /\ MstClk /\ TxClk

\* tx_end: the write in tlp is complete.
TxEnd == mst.done

\* Nothing is left to do.
MasterIdle == fifo = <<>> /\ mst.status = "IDLE" /\ TxStep("IDLE")

=============================================================================
