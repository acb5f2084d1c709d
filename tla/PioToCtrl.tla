------------------------------ MODULE PioToCtrl ------------------------------
(***************************************************************************)
(* The turn-off controller (boards/kc705/rtl/pcie/PIO_TO_CTRL.v): when the *)
(* host is about to remove the power it asks through the core, and the     *)
(* card agrees as soon as no completion is pending.  What is pending is    *)
(* told from the two pulses that PIO_RX_ENGINE and PIO_TX_ENGINE exchange. *)
(***************************************************************************)

VARIABLES
    trnPending,     \* trn_pending
    toTurnoff,      \* cfg_to_turnoff, from the core
    turnoffOk       \* cfg_turnoff_ok

turnoffVars == <<trnPending, toTurnoff, turnoffOk>>

TurnoffInit == trnPending = FALSE /\ toTurnoff = FALSE /\ turnoffOk = FALSE

\* Faulty: compl_done is not looked at.
PendingClkSticks(reqCompl, complDone) == trnPending' = (trnPending \/ reqCompl)

PendingClk(reqCompl, complDone) ==
    trnPending' = (IF ~trnPending /\ reqCompl THEN TRUE
                   ELSE trnPending /\ ~complDone)

\* Faulty: the card agrees whatever is pending.
AgreeClkAlways == turnoffOk' = toTurnoff

AgreeClk == turnoffOk' = (toTurnoff /\ ~trnPending)

\* The core asks at any time, if at all, until it has the agreement.
AskClk(asks) ==
    toTurnoff' \in (IF toTurnoff /\ ~turnoffOk THEN {TRUE}
                    ELSE IF asks THEN BOOLEAN ELSE {FALSE})

TurnoffClk(reqCompl, complDone, asks) ==
    PendingClk(reqCompl, complDone) /\ AgreeClk /\ AskClk(asks)

=============================================================================
