--------------------------- MODULE RequesterPath -----------------------------
(***************************************************************************)
(* From the host's BAR2 to the network on the KC705, wired as in           *)
(* boards/kc705/rtl/pcie/PIO_EP.v: PIO_RX_SNOOP watches the bus on which   *)
(* PIO_RX_ENGINE (with PIO_TX_ENGINE, through TX_MUX) serves the host, and *)
(* XGMII_TX_ENGINE makes frames of what it wrote to the FIFO.  No frame    *)
(* arrives from the network.                                               *)
(*                                                                         *)
(* lag orders the edges of clk (250 MHz) and xgmii_clk (156.25 MHz): eight *)
(* periods of the one are five of the other, from an arbitrary phase.      *)
(***************************************************************************)
EXTENDS TxMux, PioTxEngine, PioRxEngine, PioRxSnoop, XgmiiTxEngine

CONSTANTS
    Backlog     \* TLPs the host lets wait for the network, at most

ASSUME BacklogAssumption == Backlog \in Nat

VARIABLES
    lag,            \* phase of the two clocks
    expect,         \* TLPs for the network, in the order the host sent them
    sending,        \* TLP words of the frame on the wire so far
    frame,          \* the TLP words of the frame that has just ended, or <<>>
    quiet           \* idle words since the last frame, up to QuietMax

QuietMax == 3

netVars == <<expect, sending, frame, quiet>>
clkVars == <<muxVars, txEngineVars, rxEngineVars, hostVars, snoopVars>>
vars    == <<clkVars, fifoVars, xtVars, netVars, lag>>

\* What comment and code of PIO_RX_SNOOP want forwarded.
ForNetwork(tlp) == tlp.bar = "BAR2" \/ tlp.type = "CPL"

\* How PIO_RX_SNOOP means to rewrite beat n of a TLP.
RewriteOf(tlp, n) ==
    CASE n = 1 -> IF tlp.type = "CPL" THEN "raw" ELSE "rid"
      [] n = 2 -> CASE tlp.type \in {"RD32", "WR32"} -> "addr32"
                    [] tlp.type \in {"RD64", "WR64"} -> "addr64"
                    [] tlp.type = "CPL" -> "cplid"
                    [] OTHER -> "raw"
      [] OTHER -> "raw"

FrameOf(tlp) == [n \in 1..Beats(tlp) |->
                   [id |-> tlp.id, n |-> n, op |-> RewriteOf(tlp, n),
                    start |-> TRUE, last |-> n = Beats(tlp)]]

-----------------------------------------------------------------------------
Init ==
    /\ MuxInit /\ TxEngineInit /\ RxEngineInit /\ HostInit
    /\ SnoopInit /\ XgmiiTxInit(NoEntry)
    /\ lag \in 0..12
    /\ expect = <<>> /\ sending = <<>> /\ frame = <<>> /\ quiet = QuietMax

\* The host starts a new TLP at this edge.
Starts == rxTvalid' /\ rxBus'.n = 1 /\ hostId' # hostId

ClkEdge ==
    /\ lag <= 7
    /\ lag' = lag + 5
    /\ MuxClk(req1, FALSE)
    /\ \E tready \in (IF Throttle THEN BOOLEAN ELSE {TRUE}) :
         TxEngineClk(reqCompl, reqComplWd, reqTag, ack1, Ready1(tready))
    /\ RxEngineClk(complDone)
    /\ HostClk(rxTready)
    /\ Starts => Len(expect) < Backlog
    /\ SnoopClk
    /\ FifoWrite(snWrEn, snDin)
    /\ expect' = IF Starts /\ ForNetwork(rxBus'.tlp)
                   THEN Append(expect, rxBus'.tlp) ELSE expect
    /\ UNCHANGED <<xtVars, sending, frame, quiet>>

\* The wire carries txd; the far side sees a frame when its FCS ends it.
WireTake ==
    /\ sending' = CASE txd'.k = "tlp" -> Append(sending, txd'.e)
                    [] txd'.k = "start" -> <<>>
                    [] OTHER -> sending
    /\ frame' = IF txd'.k = "term" THEN sending ELSE <<>>
    /\ quiet' = IF txd'.k # "idle" THEN 0
                ELSE IF quiet < QuietMax THEN quiet + 1 ELSE quiet
    /\ expect' = IF frame # <<>> /\ expect # <<>> THEN Tail(expect) ELSE expect

XgmiiEdge ==
    /\ lag >= 8
    /\ lag' = lag - 8
    /\ XgmiiTxWord
    /\ WireTake
    /\ UNCHANGED clkVars

Next == ClkEdge \/ XgmiiEdge

\* Both clocks keep running.
Spec == Init /\ [][Next]_vars /\ WF_vars(ClkEdge) /\ WF_vars(XgmiiEdge)

-----------------------------------------------------------------------------
(***************************************************************************)
(* Properties.                                                             *)
(***************************************************************************)

\* Types of the registers of PIO_RX_SNOOP and XGMII_TX_ENGINE.
TypeOK ==
    /\ snState \in SnStates /\ snType \in TlpTypes /\ snWrEn \in BOOLEAN
    /\ snDin.op \in Ops
    /\ fifoState \in FifoStates /\ txState2 \in XtStates /\ rdEn \in BOOLEAN
    /\ txCount \in 0..(LastHeader + 1)
    /\ Len(fifo) <= FifoDepth

(***************************************************************************)
(* The TLPs for which FrameIsTlp is proved: those for the network have two *)
(* beats, the host's being writes of one dword (PIO_RX_SNOOP takes a beat  *)
(* for every clock that PIO_RX_ENGINE holds it, and XGMII_TX_ENGINE puts   *)
(* the second word of a longer TLP into the frame twice); no other TLP has *)
(* a beat that looks like a completion; and the core does not pause.       *)
(***************************************************************************)
TwoBeats(loads) ==
    \A l \in DOMAIN loads :
      /\ ~loads[l].bubbles
      /\ \A t \in loads[l].tlps :
           /\ t.bar = "BAR2" => t.type = "WR32" /\ t.dw = 1
           /\ t.type = "CPL" => t.dw \in {0, 1}
           /\ ~ForNetwork(t) => t.look # "CPL"

\* The host stops in time for the FIFO: a TLP takes up to four entries.
RoomForBacklog == FifoDepth >= 4 * Backlog + 2

(***************************************************************************)
(* Each frame on the wire is the whole of the oldest TLP not yet sent: its *)
(* beats in order, each once, rewritten the way PIO_RX_SNOOP means to.  So *)
(* nothing is lost, repeated, reordered or cut short, and the entries that *)
(* the snooper writes while PIO_RX_ENGINE holds a beat never become part   *)
(* of a frame.                                                             *)
(***************************************************************************)
FrameIsTlp == frame # <<>> => expect # <<>> /\ frame = FrameOf(Head(expect))

(***************************************************************************)
(* Two frames are at least two idle words apart: what the receiving card's *)
(* single TLP buffer relies on.                                            *)
(***************************************************************************)
FrameGap == [][txd.k # "start" /\ txd'.k = "start" => quiet >= 2]_vars

\* Every TLP for the network is sent.
TlpSent == \A i \in 0..(HostIds - 1) :
             (expect # <<>> /\ Head(expect).id = i)
                ~> (frame # <<>> /\ frame[1].id = i)

=============================================================================
