----------------------------- MODULE PioTxEngine -----------------------------
(***************************************************************************)
(* The completion generator, 64-bit variant                                *)
(* (boards/kc705/rtl/pcie/PIO_TX_ENGINE.v, generate branch gen_cpl_64).    *)
(* A one-cycle pulse req_compl asks for one completion, sent as two beats: *)
(* the header, then rd_data with the request's ID and tag.  Of the data    *)
(* the model keeps which request a beat was built from (its tag) and which *)
(* half it is.                                                             *)
(***************************************************************************)

VARIABLES
    txState,        \* state
    reqComplQ,      \* req_compl_q: req_compl one cycle late
    reqComplWdQ,    \* req_compl_wd_q
    complBusy,      \* compl_busy_i
    complDone,      \* compl_done
    req1,           \* s_axis_tx_req
    tvalid1,        \* s_axis_tx_tvalid
    tlast1,         \* s_axis_tx_tlast
    beat1           \* s_axis_tx_tdata and s_axis_tx_tkeep

txEngineVars == <<txState, reqComplQ, reqComplWdQ, complBusy, complDone,
                  req1, tvalid1, tlast1, beat1>>

TxStates == {"RST", "QW1_FIRST", "QW1_TEMP", "QW1"}

\* The all-zero data bus between TLPs.
NoBeat == [src |-> "none", id |-> 0, n |-> 0, keep |-> "ff"]

CplHeader(tag)   == [src |-> "tx1", id |-> tag, n |-> 1, keep |-> "ff"]
CplData(tag, wd) == [src |-> "tx1", id |-> tag, n |-> 2,
                     keep |-> IF wd THEN "ff" ELSE "0f"]

TxEngineInit ==
    /\ txState = "RST"
    /\ reqComplQ = FALSE /\ reqComplWdQ = TRUE
    /\ complBusy = FALSE /\ complDone = FALSE
    /\ req1 = FALSE /\ tvalid1 = FALSE /\ tlast1 = FALSE
    /\ beat1 = NoBeat

\* RST with a completion to send: ask for the bus until it is granted.
TxRequest(ack, tready) ==
    /\ txState = "RST" /\ complBusy
    /\ txState' = IF tready /\ ack THEN "QW1_FIRST" ELSE "RST"
    /\ req1' = TRUE /\ tvalid1' = FALSE /\ tlast1' = FALSE
    /\ beat1' = NoBeat
    /\ complDone' = FALSE
    /\ complBusy' = TRUE

\* RST with nothing to send: release the bus.
TxRelease ==
    /\ txState = "RST" /\ ~complBusy
    /\ req1' = FALSE /\ tvalid1' = FALSE /\ tlast1' = FALSE
    /\ beat1' = NoBeat
    /\ complDone' = FALSE
    /\ complBusy' = reqComplQ
    /\ UNCHANGED txState

\* The grant may have gone away since RST saw it; then start over.
TxFirst(tag, tready) ==
    /\ txState = "QW1_FIRST"
    /\ IF tready
         THEN /\ txState' = "QW1_TEMP"
              /\ tlast1' = FALSE
              /\ beat1' = CplHeader(tag)
         ELSE /\ txState' = "RST"
              /\ UNCHANGED <<tlast1, beat1>>
    /\ complDone' = FALSE
    /\ complBusy' = (complBusy \/ reqComplQ)
    /\ UNCHANGED <<req1, tvalid1>>

TxTemp ==
    /\ txState = "QW1_TEMP"
    /\ txState' = "QW1"
    /\ tvalid1' = TRUE
    /\ complDone' = FALSE
    /\ complBusy' = (complBusy \/ reqComplQ)
    /\ UNCHANGED <<req1, tlast1, beat1>>

\* Faulty: compl_busy_i is not reset with the last beat.
TxLastStaysBusy(tag, tready) ==
    /\ txState = "QW1"
    /\ IF tready
         THEN /\ txState' = "RST"
              /\ tvalid1' = TRUE /\ tlast1' = TRUE
              /\ beat1' = CplData(tag, reqComplWdQ)
              /\ complDone' = TRUE
         ELSE /\ complDone' = FALSE
              /\ UNCHANGED <<txState, tvalid1, tlast1, beat1>>
    /\ UNCHANGED <<req1, complBusy>>

\* The header is on the bus; once taken, the last beat replaces it.
TxLast(tag, tready) ==
    /\ txState = "QW1"
    /\ IF tready
         THEN /\ txState' = "RST"
              /\ tvalid1' = TRUE /\ tlast1' = TRUE
              /\ beat1' = CplData(tag, reqComplWdQ)
              /\ complDone' = TRUE
              /\ complBusy' = FALSE
         ELSE /\ complDone' = FALSE
              /\ complBusy' = (complBusy \/ reqComplQ)
              /\ UNCHANGED <<txState, tvalid1, tlast1, beat1>>
    /\ UNCHANGED req1

TxEngineClk(reqCompl, reqComplWd, tag, ack, tready) ==
    /\ reqComplQ' = reqCompl
    /\ reqComplWdQ' = reqComplWd
    /\ \/ TxRequest(ack, tready)
       \/ TxRelease
       \/ TxFirst(tag, tready)
       \/ TxTemp
       \/ TxLast(tag, tready)

=============================================================================
