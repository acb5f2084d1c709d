-------------------------------- MODULE TxMux --------------------------------
(***************************************************************************)
(* The arbiter in front of the PCIe core's transmit stream on the KC705    *)
(* (boards/kc705/rtl/pcie/TX_MUX.v).  Port 1 carries the completions of    *)
(* PIO_TX_ENGINE, port 2 the TLPs that XGMII_RX_ENGINE received from the   *)
(* network.  A port raises req, waits for ack, sends, and drops req.       *)
(***************************************************************************)

VARIABLES
    ack1,       \* s_axis_tx1_ack
    ack2        \* s_axis_tx2_ack

muxVars == <<ack1, ack2>>

MuxInit == ack1 = FALSE /\ ack2 = FALSE

\* Faulty arbiter: port 1 takes the bus from an owner that still requests.
MuxClkPreempts(req1, req2) ==
    /\ ack1' = req1
    /\ ack2' = (~req1 /\ req2)

\* Faulty arbiter: port 2 keeps the bus when it stops requesting.
MuxClkNoRelease(req1, req2) ==
    /\ ack1' = (req1 /\ ~ack2)
    /\ ack2' = (ack2 \/ (~req1 /\ req2))

(***************************************************************************)
(* One clock edge.  An owner keeps the grant while it requests; when the   *)
(* bus is free, or is freed at this edge, a waiting port gets it at once,  *)
(* port 1 first.  The pair 2'b11 is left as it is.                         *)
(***************************************************************************)
MuxClk(req1, req2) ==
    /\ ack1' = IF ack1 /\ ack2 THEN TRUE
               ELSE IF ack2 THEN ~req2 /\ req1 ELSE req1
    /\ ack2' = IF ack1 /\ ack2 THEN TRUE
               ELSE IF ack2 THEN req2 ELSE ~req1 /\ req2

\* s_axis_tx1_tready and s_axis_tx2_tready
Ready1(tready) == tready /\ ack1
Ready2(tready) == tready /\ ack2

\* The output side: port 2's signal when ack2 is set, port 1's otherwise.
MuxOut(sig1, sig2) == IF ack2 THEN sig2 ELSE sig1

=============================================================================
