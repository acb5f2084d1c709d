----------------------------- MODULE PioRxEngine -----------------------------
(***************************************************************************)
(* The request decoder, 64-bit variant                                     *)
(* (boards/kc705/rtl/pcie/PIO_RX_ENGINE.v, generate branch pio_rx_sm_64).  *)
(* It accepts a header, holds the bus while it works on the address and    *)
(* data beat, hands reads to PIO_TX_ENGINE (req_compl) and writes to the   *)
(* register file (wr_en), and takes the last beat when that is finished.   *)
(* The core has no I/O BAR (io_bar_hit_n is the constant 1), so the states *)
(* of I/O requests are left out.  wr_busy is the constant 0.               *)
(***************************************************************************)
EXTENDS HostBus

VARIABLES
    rxState,        \* state
    rxTready,       \* m_axis_rx_tready
    inPacket,       \* in_packet_q
    tlpType,        \* tlp_type
    reqCompl,       \* req_compl
    reqComplWd,     \* req_compl_wd
    reqTag,         \* req_rid, req_tag, req_len...: the header of a read
    reqAddr,        \* req_addr: region and beat the address was taken from
    wrEn,           \* wr_en
    wrAddr,         \* wr_addr
    wrData          \* wr_data

rxEngineVars == <<rxState, rxTready, inPacket, tlpType, reqCompl, reqComplWd,
                  reqTag, reqAddr, wrEn, wrAddr, wrData>>

RxStates == {"RST", "MEM_RD32_DW1DW2", "MEM_WR32_DW1DW2", "MEM_RD64_DW1DW2",
             "MEM_WR64_DW1DW2", "MEM_WR64_DW3", "WAIT"}

\* Which beat a register was loaded from; region_select is the BAR.
Sampled(b) == [id |-> b.tlp.id, n |-> b.n, region |-> b.tlp.bar]
NoSample   == [id |-> 0, n |-> 0, region |-> "none"]

(***************************************************************************)
(* The state some cycles after reset: tready has risen.  (In the very      *)
(* first cycle it is still 0, long before the host can address the card.)  *)
(***************************************************************************)
RxEngineInit ==
    /\ rxState = "RST" /\ rxTready = TRUE /\ inPacket = FALSE
    /\ tlpType = "MSG"
    /\ reqCompl = FALSE /\ reqComplWd = TRUE
    /\ reqTag = 0 /\ reqAddr = NoSample
    /\ wrEn = FALSE /\ wrAddr = NoSample /\ wrData = NoSample

Sop == ~inPacket /\ rxTvalid

TrackPacket ==
    inPacket' = IF rxTvalid /\ rxTready /\ RxLast(rxBus) THEN FALSE
                ELSE IF Sop /\ rxTready THEN TRUE
                ELSE inPacket

\* RST: nothing to start on.
RxNoHeader ==
    /\ rxState = "RST" /\ ~Sop
    /\ rxTready' = TRUE
    /\ UNCHANGED <<rxState, tlpType, reqTag>>

RxReadHeader ==
    /\ rxState = "RST" /\ Sop
    /\ rxBus.tlp.type \in {"RD32", "RD64"}
    /\ tlpType' = rxBus.tlp.type
    /\ rxTready' = FALSE
    /\ IF rxBus.tlp.dw # 0
         THEN /\ reqTag' = rxBus.tlp.id
              /\ rxState' = IF rxBus.tlp.type = "RD32"
                              THEN "MEM_RD32_DW1DW2" ELSE "MEM_RD64_DW1DW2"
         ELSE UNCHANGED <<reqTag, rxState>>

\* Faulty: a 32-bit write leaves tready high, too.
RxWriteHeaderReady ==
    /\ rxState = "RST" /\ Sop
    /\ rxBus.tlp.type \in {"WR32", "WR64"}
    /\ tlpType' = rxBus.tlp.type
    /\ rxTready' = TRUE
    /\ rxState' = IF rxBus.tlp.dw # 1 THEN "RST"
                  ELSE IF rxBus.tlp.type = "WR32"
                         THEN "MEM_WR32_DW1DW2" ELSE "MEM_WR64_DW1DW2"
    /\ UNCHANGED reqTag

\* Only one-dword writes are served; a 64-bit header leaves tready high.
RxWriteHeader ==
    /\ rxState = "RST" /\ Sop
    /\ rxBus.tlp.type \in {"WR32", "WR64"}
    /\ tlpType' = rxBus.tlp.type
    /\ rxTready' = (rxBus.tlp.type = "WR64")
    /\ rxState' = IF rxBus.tlp.dw # 1 THEN "RST"
                  ELSE IF rxBus.tlp.type = "WR32"
                         THEN "MEM_WR32_DW1DW2" ELSE "MEM_WR64_DW1DW2"
    /\ UNCHANGED reqTag

RxOtherHeader ==
    /\ rxState = "RST" /\ Sop
    /\ rxBus.tlp.type \notin {"RD32", "RD64", "WR32", "WR64"}
    /\ rxTready' = TRUE
    /\ UNCHANGED <<rxState, tlpType, reqTag>>

RxReset ==
    /\ RxNoHeader \/ RxReadHeader \/ RxWriteHeader \/ RxOtherHeader
    /\ reqComplWd' = TRUE
    /\ reqCompl' = FALSE /\ wrEn' = FALSE
    /\ UNCHANGED <<reqAddr, wrAddr, wrData>>

\* An address or data state waits for its beat to be valid.
RxNoBeat ==
    /\ rxState \notin {"RST", "WAIT"} /\ ~rxTvalid
    /\ reqCompl' = FALSE /\ wrEn' = FALSE
    /\ UNCHANGED <<rxState, rxTready, tlpType, reqComplWd, reqTag, reqAddr,
                   wrAddr, wrData>>

\* Faulty: the read's beat is released before the completion is sent.
RxReadAddrReady ==
    /\ rxState \in {"MEM_RD32_DW1DW2", "MEM_RD64_DW1DW2"} /\ rxTvalid
    /\ rxTready' = TRUE
    /\ reqAddr' = Sampled(rxBus)
    /\ reqCompl' = TRUE /\ reqComplWd' = TRUE
    /\ wrEn' = FALSE
    /\ rxState' = "WAIT"
    /\ UNCHANGED <<tlpType, reqTag, wrAddr, wrData>>

RxReadAddr ==
    /\ rxState \in {"MEM_RD32_DW1DW2", "MEM_RD64_DW1DW2"} /\ rxTvalid
    /\ rxTready' = FALSE
    /\ reqAddr' = Sampled(rxBus)
    /\ reqCompl' = TRUE /\ reqComplWd' = TRUE
    /\ wrEn' = FALSE
    /\ rxState' = "WAIT"
    /\ UNCHANGED <<tlpType, reqTag, wrAddr, wrData>>

RxWrite32 ==
    /\ rxState = "MEM_WR32_DW1DW2" /\ rxTvalid
    /\ rxTready' = FALSE
    /\ wrAddr' = Sampled(rxBus) /\ wrData' = Sampled(rxBus)
    /\ wrEn' = TRUE
    /\ reqCompl' = FALSE
    /\ rxState' = "WAIT"
    /\ UNCHANGED <<tlpType, reqComplWd, reqTag, reqAddr>>

RxWrite64Addr ==
    /\ rxState = "MEM_WR64_DW1DW2" /\ rxTvalid
    /\ rxTready' = FALSE
    /\ wrAddr' = Sampled(rxBus)
    /\ reqCompl' = FALSE /\ wrEn' = FALSE
    /\ rxState' = "MEM_WR64_DW3"
    /\ UNCHANGED <<tlpType, reqComplWd, reqTag, reqAddr, wrData>>

RxWrite64Data ==
    /\ rxState = "MEM_WR64_DW3" /\ rxTvalid
    /\ rxTready' = FALSE
    /\ wrData' = Sampled(rxBus)
    /\ wrEn' = TRUE
    /\ reqCompl' = FALSE
    /\ rxState' = "WAIT"
    /\ UNCHANGED <<tlpType, reqComplWd, reqTag, reqAddr, wrAddr>>

\* A write is finished at once, a read when its completion was sent.
RxWait(complDone) ==
    /\ rxState = "WAIT"
    /\ reqCompl' = FALSE /\ wrEn' = FALSE
    /\ IF tlpType \in {"WR32", "WR64"} \/ complDone
         THEN rxTready' = TRUE /\ rxState' = "RST"
         ELSE UNCHANGED <<rxTready, rxState>>
    /\ UNCHANGED <<tlpType, reqComplWd, reqTag, reqAddr, wrAddr, wrData>>

RxEngineClk(complDone) ==
    /\ TrackPacket
    /\ \/ RxReset
       \/ RxNoBeat
       \/ RxReadAddr
       \/ RxWrite32
       \/ RxWrite64Addr
       \/ RxWrite64Data
       \/ RxWait(complDone)

=============================================================================
