-------------------------- MODULE ServerPathProofs ---------------------------
(***************************************************************************)
(* Proofs about ServerPath.  First: the arbitration of the transmit stream *)
(* and the handshake between the two completion engines are safe for every *)
(* choice of TLPs, frames and idle times, and however the PCIe core        *)
(* throttles.  Then what is handed to a PCIe core that takes every beat at *)
(* once: every TLP is whole and network TLPs keep the order of their       *)
(* frames, for any number of frames in flight and any phase of the clocks. *)
(***************************************************************************)
EXTENDS ServerPath, TLAPS, SequenceTheorems

-----------------------------------------------------------------------------
(***************************************************************************)
(* Arbitration.  GrantSafe is not inductive: that a port still owns the    *)
(* output when it shows a beat follows from its having requested all the   *)
(* time since it saw the grant.                                            *)
(***************************************************************************)
GrantTypes ==
    /\ ack1 \in BOOLEAN /\ ack2 \in BOOLEAN
    /\ req1 \in BOOLEAN /\ req2 \in BOOLEAN
    /\ tvalid1 \in BOOLEAN /\ tvalid2 \in BOOLEAN

\* Port 1 owns the output from the second look at the grant to the release.
Port1 ==
    /\ txState = "QW1_FIRST" => req1
    /\ txState \in {"QW1_TEMP", "QW1"} => req1 /\ ack1
    /\ tvalid1 => req1 /\ ack1

\* Port 2 owns it from the grant to the last beat.
Port2 ==
    /\ orfState # "IDLE" => req2
    /\ orfState \in {"TLP1", "TLP2", "TLP3"} => ack2
    /\ tvalid2 => req2 /\ ack2

GrantInv == GrantTypes /\ ~(ack1 /\ ack2) /\ Port1 /\ Port2

\* The arbiter keeps its grants apart, and an owner that requests.
LEMMA MuxStep ==
    ASSUME GrantTypes, ~(ack1 /\ ack2), MuxClk(req1, req2)
    PROVE  /\ ack1' \in BOOLEAN /\ ack2' \in BOOLEAN
           /\ ~(ack1' /\ ack2')
           /\ ack1 /\ req1 => ack1'
           /\ ack2 /\ req2 => ack2'
    BY DEF GrantTypes, MuxClk

\* PIO_TX_ENGINE drives tvalid only on a grant it has kept.
LEMMA Port1Step ==
    ASSUME GrantTypes, Port1, ack1 /\ req1 => ack1',
           NEW tready \in BOOLEAN,
           TxEngineClk(reqCompl, reqComplWd, reqTag, ack1, Ready1(tready))
    PROVE  req1' \in BOOLEAN /\ tvalid1' \in BOOLEAN /\ Port1'
<1> USE DEF GrantTypes, Port1, Ready1
<1>1. CASE TxRequest(ack1, Ready1(tready))
    BY <1>1 DEF TxRequest
<1>2. CASE TxRelease
    BY <1>2 DEF TxRelease
<1>3. CASE TxFirst(reqTag, Ready1(tready))
    BY <1>3 DEF TxFirst
<1>4. CASE TxTemp
    BY <1>4 DEF TxTemp
<1>5. CASE TxLast(reqTag, Ready1(tready))
    BY <1>5 DEF TxLast
<1> QED
    BY <1>1, <1>2, <1>3, <1>4, <1>5 DEF TxEngineClk

\* XGMII_RX_ENGINE requests until its last beat is on the bus.
LEMMA Port2Step ==
    ASSUME GrantTypes, Port2, ack2 /\ req2 => ack2', OrfClk(ack2)
    PROVE  req2' \in BOOLEAN /\ tvalid2' \in BOOLEAN /\ Port2'
<1> USE DEF GrantTypes, Port2
<1>1. CASE OrfIdle
    BY <1>1 DEF OrfIdle, FrameSeen
<1>2. CASE OrfAck(ack2)
    BY <1>2 DEF OrfAck
<1>3. CASE OrfTlp1
    BY <1>3 DEF OrfTlp1
<1>4. CASE OrfTlp2
    BY <1>4 DEF OrfTlp2, OrfNext
<1>5. CASE OrfTlp3
    BY <1>5 DEF OrfTlp3, OrfNext
<1> QED
    BY <1>1, <1>2, <1>3, <1>4, <1>5 DEF OrfClk

\* Both ports own the output whenever they show a beat.
LEMMA GrantInvariant == Spec => []GrantInv
<1>1. Init => GrantInv
    BY DEF Init, MuxInit, TxEngineInit, OrfInit, GrantInv, GrantTypes, Port1,
           Port2
<1>2. GrantInv /\ [Next]_vars => GrantInv'
  <2> SUFFICES ASSUME GrantInv, [Next]_vars PROVE GrantInv'
    OBVIOUS
  <2> USE DEF GrantInv
  <2>1. CASE ClkEdge
    <3>1. PICK tready \in BOOLEAN :
            /\ MuxClk(req1, req2)
            /\ TxEngineClk(reqCompl, reqComplWd, reqTag, ack1, Ready1(tready))
            /\ OrfClk(ack2)
      BY <2>1 DEF ClkEdge
    <3>2. /\ ack1' \in BOOLEAN /\ ack2' \in BOOLEAN
          /\ ~(ack1' /\ ack2')
          /\ ack1 /\ req1 => ack1'
          /\ ack2 /\ req2 => ack2'
      BY <3>1, MuxStep
    <3>3. req1' \in BOOLEAN /\ tvalid1' \in BOOLEAN /\ Port1'
      BY <3>1, <3>2, Port1Step
    <3>4. req2' \in BOOLEAN /\ tvalid2' \in BOOLEAN /\ Port2'
      BY <3>1, <3>2, Port2Step
    <3> QED
      BY <3>2, <3>3, <3>4 DEF GrantTypes
  <2>2. CASE UNCHANGED clkVars
    BY <2>2 DEF clkVars, muxVars, txEngineVars, orfVars, GrantTypes, Port1,
                Port2
  <2> QED
    BY <2>1, <2>2 DEF Next, XgmiiEdge, vars
<1> QED
    BY <1>1, <1>2, PTL DEF Spec

\* TX_MUX never has two owners and no beat is shown by a port that is not
\* the owner.
THEOREM GrantsAreSafe == Spec => []GrantSafe
<1>1. GrantInv => GrantSafe
    BY DEF GrantInv, GrantSafe, Port1, Port2
<1> QED
    BY <1>1, GrantInvariant, PTL

-----------------------------------------------------------------------------
(***************************************************************************)
(* The completion handshake.  OneCompletion counts; the invariant says     *)
(* the same in Booleans (at most one stage holds the request, and one does *)
(* when a read waits), that PIO_TX_ENGINE works only for a request it      *)
(* holds, and that PIO_RX_ENGINE remembers which kind of TLP it is in.     *)
(***************************************************************************)
Reads  == {"RD32", "RD64"}
Writes == {"WR32", "WR64"}

ReadWaits == rxState = "WAIT" /\ tlpType \in Reads

StageTypes ==
    /\ reqCompl \in BOOLEAN /\ reqComplQ \in BOOLEAN
    /\ complBusy \in BOOLEAN /\ complDone \in BOOLEAN

\* No two stages at once.
Exclusive ==
    /\ ~(reqCompl /\ reqComplQ) /\ ~(reqCompl /\ complBusy)
    /\ ~(reqCompl /\ complDone) /\ ~(reqComplQ /\ complBusy)
    /\ ~(reqComplQ /\ complDone) /\ ~(complBusy /\ complDone)

Held == reqCompl \/ reqComplQ \/ complBusy \/ complDone

Kinds ==
    /\ rxState \in {"MEM_RD32_DW1DW2", "MEM_RD64_DW1DW2"} => tlpType \in Reads
    /\ rxState \in {"MEM_WR32_DW1DW2", "MEM_WR64_DW1DW2", "MEM_WR64_DW3"}
         => tlpType \in Writes
    /\ rxState = "WAIT" => tlpType \in Reads \union Writes

ComplInv ==
    /\ StageTypes /\ Exclusive
    /\ Held <=> ReadWaits
    /\ txState # "RST" => complBusy
    /\ Kinds

\* The Boolean form says that the stages add up.
LEMMA ComplInvCounts == ComplInv => OneCompletion
<1> SUFFICES ASSUME ComplInv PROVE OneCompletion
    OBVIOUS
<1>1. CASE ReadWaits
    BY <1>1 DEF ComplInv, StageTypes, Exclusive, Held, ReadWaits, Reads,
                OneCompletion, Stage
<1>2. CASE ~ReadWaits
    BY <1>2 DEF ComplInv, StageTypes, Exclusive, Held, ReadWaits, Reads,
                OneCompletion, Stage
<1> QED
    BY <1>1, <1>2

\* PIO_TX_ENGINE passes the request on, from req_compl_q to compl_busy to
\* compl_done, and drops it after that.
LEMMA ComplTxStep ==
    ASSUME ComplInv, NEW wd, NEW tag, NEW ack, NEW tready,
           TxEngineClk(reqCompl, wd, tag, ack, tready)
    PROVE  /\ reqComplQ' = reqCompl
           /\ complBusy' \in BOOLEAN /\ complDone' \in BOOLEAN
           /\ ~(complBusy' /\ complDone')
           /\ complBusy' \/ complDone' <=> complBusy \/ reqComplQ
           /\ txState' # "RST" => complBusy'
<1> USE DEF ComplInv, StageTypes, Exclusive
<1>0. reqComplQ' = reqCompl
    BY DEF TxEngineClk
<1>1. CASE TxRequest(ack, tready)
    BY <1>0, <1>1 DEF TxRequest
<1>2. CASE TxRelease
    BY <1>0, <1>2 DEF TxRelease
<1>3. CASE TxFirst(tag, tready)
    BY <1>0, <1>3 DEF TxFirst
<1>4. CASE TxTemp
    BY <1>0, <1>4 DEF TxTemp
<1>5. CASE TxLast(tag, tready)
    BY <1>0, <1>5 DEF TxLast
<1> QED
    BY <1>1, <1>2, <1>3, <1>4, <1>5 DEF TxEngineClk

\* PIO_RX_ENGINE raises req_compl when a read starts to wait, and leaves
\* WAIT with compl_done.
LEMMA ComplRxStep ==
    ASSUME ComplInv, RxEngineClk(complDone)
    PROVE  /\ reqCompl' \in BOOLEAN
           /\ reqCompl' => ReadWaits' /\ ~ReadWaits
           /\ ~reqCompl' => (ReadWaits' <=> ReadWaits /\ ~complDone)
           /\ Kinds'
<1> USE DEF ComplInv, Kinds, ReadWaits, Reads, Writes
<1>1. CASE RxReset
  <2>1. rxState = "RST" /\ reqCompl' = FALSE
    BY <1>1 DEF RxReset, RxNoHeader, RxReadHeader, RxWriteHeader,
                RxOtherHeader
  <2>2. rxState' # "WAIT" /\ Kinds'
    BY <1>1 DEF RxReset, RxNoHeader, RxReadHeader, RxWriteHeader,
                RxOtherHeader
  <2> QED
    BY <2>1, <2>2
<1>2. CASE RxNoBeat
    BY <1>2 DEF RxNoBeat
<1>3. CASE RxReadAddr
    BY <1>3 DEF RxReadAddr
<1>4. CASE RxWrite32
    BY <1>4 DEF RxWrite32
<1>5. CASE RxWrite64Addr
    BY <1>5 DEF RxWrite64Addr
<1>6. CASE RxWrite64Data
    BY <1>6 DEF RxWrite64Data
<1>7. CASE RxWait(complDone)
    BY <1>7 DEF RxWait, StageTypes
<1> QED
    BY <1>1, <1>2, <1>3, <1>4, <1>5, <1>6, <1>7 DEF RxEngineClk

\* The two engines agree, at every edge of both clocks.
LEMMA ComplInvariant == Spec => []ComplInv
<1>1. Init => ComplInv
    BY DEF Init, TxEngineInit, RxEngineInit, ComplInv, StageTypes, Exclusive,
           Held, ReadWaits, Kinds
<1>2. ComplInv /\ [Next]_vars => ComplInv'
  <2> SUFFICES ASSUME ComplInv, [Next]_vars PROVE ComplInv'
    OBVIOUS
  <2>1. CASE ClkEdge
    <3>1. PICK tready \in BOOLEAN :
            TxEngineClk(reqCompl, reqComplWd, reqTag, ack1, Ready1(tready))
      BY <2>1 DEF ClkEdge
    <3>2. RxEngineClk(complDone)
      BY <2>1 DEF ClkEdge
    <3>3. /\ reqComplQ' = reqCompl
          /\ complBusy' \in BOOLEAN /\ complDone' \in BOOLEAN
          /\ ~(complBusy' /\ complDone')
          /\ complBusy' \/ complDone' <=> complBusy \/ reqComplQ
          /\ txState' # "RST" => complBusy'
      BY <3>1, ComplTxStep
    <3>4. /\ reqCompl' \in BOOLEAN
          /\ reqCompl' => ReadWaits' /\ ~ReadWaits
          /\ ~reqCompl' => (ReadWaits' <=> ReadWaits /\ ~complDone)
          /\ Kinds'
      BY <3>2, ComplRxStep
    <3> QED
      BY <3>3, <3>4 DEF ComplInv, StageTypes, Exclusive, Held
  <2>2. CASE UNCHANGED clkVars
    BY <2>2 DEF clkVars, txEngineVars, rxEngineVars, ComplInv, StageTypes,
                Exclusive, Held, ReadWaits, Kinds
  <2> QED
    BY <2>1, <2>2 DEF Next, XgmiiEdge, vars
<1> QED
    BY <1>1, <1>2, PTL DEF Spec

\* A read that waits has its request in exactly one stage of the handshake,
\* and without one all stages are empty: no completion is lost or repeated.
THEOREM CompletionsNotLost == Spec => []OneCompletion
    BY ComplInvCounts, ComplInvariant, PTL

-----------------------------------------------------------------------------
(***************************************************************************)
(* Turning the card off.  PIO_TO_CTRL sees only the pulses req_compl and   *)
(* compl_done; trn_pending then is set exactly while PIO_TX_ENGINE holds   *)
(* the request, and a beat is shown only while it does.                    *)
(***************************************************************************)
OffInv ==
    /\ trnPending <=> reqComplQ \/ complBusy \/ complDone
    /\ tvalid1 <=> txState = "QW1" \/ complDone
    /\ TurnoffClean

\* PIO_TX_ENGINE shows a beat in QW1 and with the pulse that follows it.
LEMMA ShowStep ==
    ASSUME ComplInv, OffInv, NEW wd, NEW tag, NEW ack, NEW tready,
           TxEngineClk(reqCompl, wd, tag, ack, tready)
    PROVE  /\ tvalid1' <=> txState' = "QW1" \/ complDone'
           /\ complDone' <=> txState = "QW1" /\ tready
<1> USE DEF ComplInv, StageTypes, Exclusive, OffInv
<1>1. CASE TxRequest(ack, tready)
    BY <1>1 DEF TxRequest
<1>2. CASE TxRelease
    BY <1>2 DEF TxRelease
<1>3. CASE TxFirst(tag, tready)
    BY <1>3 DEF TxFirst
<1>4. CASE TxTemp
    BY <1>4 DEF TxTemp
<1>5. CASE TxLast(tag, tready)
    BY <1>5 DEF TxLast
<1> QED
    BY <1>1, <1>2, <1>3, <1>4, <1>5 DEF TxEngineClk

\* PIO_TO_CTRL knows, at every edge of both clocks, what is pending.
LEMMA OffInvariant == Spec => []OffInv
<1>1. Init => OffInv
    BY DEF Init, TxEngineInit, TurnoffInit, OffInv, TurnoffClean
<1>2. ComplInv /\ ComplInv' /\ OffInv /\ [Next]_vars => OffInv'
  <2> SUFFICES ASSUME ComplInv, ComplInv', OffInv, [Next]_vars PROVE OffInv'
    OBVIOUS
  <2>1. CASE ClkEdge
    <3>1. PICK tready \in BOOLEAN :
            TxEngineClk(reqCompl, reqComplWd, reqTag, ack1, Ready1(tready))
      BY <2>1 DEF ClkEdge
    <3>2. /\ trnPending' = (IF ~trnPending /\ reqCompl THEN TRUE
                            ELSE trnPending /\ ~complDone)
          /\ turnoffOk' = (toTurnoff /\ ~trnPending)
      BY <2>1 DEF ClkEdge, TurnoffClk, PendingClk, AgreeClk
    <3>3. /\ reqComplQ' = reqCompl
          /\ complBusy' \/ complDone' <=> complBusy \/ reqComplQ
          /\ txState' # "RST" => complBusy'
      BY <3>1, ComplTxStep
    <3>4. tvalid1' <=> txState' = "QW1" \/ complDone'
      BY <3>1, ShowStep
    <3>5. trnPending' <=> reqComplQ' \/ complBusy' \/ complDone'
      BY <3>2, <3>3 DEF OffInv, ComplInv, Exclusive, StageTypes
    <3>6. TurnoffClean'
      BY <3>2, <3>3, <3>4 DEF OffInv, TurnoffClean
    <3> QED
      BY <3>4, <3>5, <3>6 DEF OffInv
  <2>2. CASE UNCHANGED clkVars
    BY <2>2 DEF clkVars, txEngineVars, turnoffVars, OffInv, TurnoffClean
  <2> QED
    BY <2>1, <2>2 DEF Next, XgmiiEdge, vars
<1> QED
    BY <1>1, <1>2, ComplInvariant, PTL DEF Spec

\* The card never agrees to be turned off while a completion is under way.
THEOREM TurnoffIsClean == Spec => []TurnoffClean
<1>1. OffInv => TurnoffClean
    BY DEF OffInv
<1> QED
    BY <1>1, OffInvariant, PTL

-----------------------------------------------------------------------------
(***************************************************************************)
(* The bus and PIO_RX_ENGINE.  in_packet_q tells the first beat of a TLP   *)
(* from the others (no TLP has a single beat), and in every state but RST  *)
(* the engine knows which beat is on the bus and that it will stay there.  *)
(***************************************************************************)
RxTlps == [type : TlpTypes, dw : Nat, bar : Bars, look : TlpTypes,
           id : 0..(HostIds - 1)]

BusInv ==
    /\ rxTvalid \in BOOLEAN /\ inPacket \in BOOLEAN
    /\ load \in DOMAIN Loads /\ hostId \in 0..(HostIds - 1)
    /\ rxBus \in [tlp : RxTlps, n : Nat \ {0}]
    /\ rxBus.n <= Beats(rxBus.tlp)
    /\ inPacket <=> rxBus.n > 1

\* The engine holds the second beat of a read whose header it noted.
HoldsRead ==
    /\ rxBus.tlp.type \in Reads /\ rxBus.n = 2 /\ ~rxTready
    /\ reqTag = rxBus.tlp.id

\* It is at beat n of a one-dword write.
AtWrite(type, n) ==
    rxBus.tlp.type = type /\ rxBus.tlp.dw = 1 /\ rxBus.n = n

WriteHeld ==
    \/ tlpType = "WR32" /\ AtWrite("WR32", 2)
    \/ tlpType = "WR64" /\ AtWrite("WR64", 3)

Decode ==
    /\ rxTready \in BOOLEAN /\ wrEn \in BOOLEAN /\ rxState \in RxStates
    /\ rxState = "RST" /\ ~inPacket => rxTready
    /\ rxState \in {"MEM_RD32_DW1DW2", "MEM_RD64_DW1DW2"} => HoldsRead
    /\ ReadWaits => HoldsRead /\ reqAddr = Sampled(rxBus)
    /\ rxState = "MEM_WR32_DW1DW2"
         => ~rxTready /\ tlpType = "WR32" /\ AtWrite("WR32", 2)
    /\ rxState = "MEM_WR64_DW1DW2"
         => rxTready /\ tlpType = "WR64" /\ AtWrite("WR64", 2)
    /\ rxState = "MEM_WR64_DW3"
         => /\ ~rxTready /\ tlpType = "WR64" /\ AtWrite("WR64", 3)
            /\ wrAddr = [Sampled(rxBus) EXCEPT !.n = 2]
    /\ rxState = "WAIT" /\ tlpType \in Writes => ~rxTready /\ WriteHeld
    /\ wrEn => /\ rxState = "WAIT" /\ tlpType \in Writes
               /\ wrAddr = [Sampled(rxBus) EXCEPT !.n = 2]
               /\ wrData = Sampled(rxBus)

\* The last beat of a completion carries the tag of the read.
OwnBeat == complDone => beat1.id = reqTag

RxInv == BusInv /\ Decode /\ OwnBeat

\* No TLP has a single beat; how many the served ones have.
LEMMA BeatCounts ==
    ASSUME NEW t \in RxTlps
    PROVE  /\ Beats(t) \in Nat /\ Beats(t) >= 2
           /\ t.type \in Reads => Beats(t) = 2
           /\ t.type = "WR32" /\ t.dw = 1 => Beats(t) = 2
           /\ t.type = "WR64" /\ t.dw = 1 => Beats(t) = 3
<1>1. t.dw \in Nat
    BY DEF RxTlps
<1>2. HeaderDw(t.type) \in 3..4
    BY DEF HeaderDw
<1>3. TlpDw(t) \in Nat /\ TlpDw(t) >= 3
    BY <1>1, <1>2 DEF TlpDw
<1>4. Beats(t) \in Nat /\ Beats(t) >= 2
    BY <1>3 DEF Beats
<1>5. t.type \in Reads => TlpDw(t) \in 3..4
    BY <1>2 DEF TlpDw, HasData, Reads
<1>6. t.type = "WR32" /\ t.dw = 1 => TlpDw(t) = 4
    BY DEF TlpDw, HasData, HeaderDw
<1>7. t.type = "WR64" /\ t.dw = 1 => TlpDw(t) = 5
    BY DEF TlpDw, HasData, HeaderDw
<1>8. 3..4 = {3, 4}
    OBVIOUS
<1> QED
    BY <1>4, <1>5, <1>6, <1>7, <1>8 DEF Beats

\* A TLP the host sends is a TLP.
LEMMA SendsTlps ==
    ASSUME BusInv, NEW t \in HostTlps
    PROVE  Numbered(t, hostId) \in RxTlps
<1>1. t \in [type : TlpTypes, dw : 0..1023, bar : Bars, look : TlpTypes]
    BY HostTlpsAssumption DEF BusInv, HostTlps
<1> QED
    BY <1>1 DEF Numbered, RxTlps, BusInv

\* An edge of clk on the bus: a beat that is not taken stays, one that is
\* taken is followed by the next, or by the first beat of another TLP.
LEMMA BusStep ==
    ASSUME BusInv, rxTready \in BOOLEAN, TrackPacket, HostClk(rxTready)
    PROVE  /\ BusInv'
           /\ inPacket /\ ~(rxTvalid /\ rxTready)
                => rxBus' = rxBus /\ inPacket'
           /\ rxTvalid /\ rxTready /\ ~RxLast(rxBus)
                => rxBus' = [rxBus EXCEPT !.n = @ + 1] /\ inPacket'
<1>1. /\ rxBus.tlp \in RxTlps /\ rxBus.n \in Nat \ {0}
      /\ rxBus = [tlp |-> rxBus.tlp, n |-> rxBus.n]
    BY DEF BusInv
<1>2. Beats(rxBus.tlp) \in Nat /\ Beats(rxBus.tlp) >= 2
    BY <1>1, BeatCounts
<1>3. inPacket => rxBus # EmptyBus
    BY DEF BusInv, EmptyBus
<1>4. NoTlp \in RxTlps /\ hostId \in Nat
    BY HostIdsAssumption DEF NoTlp, RxTlps, TlpTypes, Bars, BusInv
<1>5. Beats(NoTlp) \in Nat /\ Beats(NoTlp) >= 2
    BY <1>4, BeatCounts
<1>6. (hostId + 1) % HostIds \in 0..(HostIds - 1)
    BY <1>4, HostIdsAssumption
<1>7. CASE BusFree(rxTready) /\ (HostIdle \/ HostSend)
  <2>1. load' = load /\ rxTvalid' \in BOOLEAN /\ hostId' \in 0..(HostIds - 1)
    BY <1>6, <1>7 DEF HostIdle, HostSend, BusInv
  <2>2. PICK t \in RxTlps : rxBus' = [tlp |-> t, n |-> 1]
    <3>1. CASE HostIdle
      BY <1>4, <3>1 DEF HostIdle, EmptyBus
    <3>2. CASE HostSend
      BY <3>2, SendsTlps DEF HostSend
    <3> QED
      BY <1>7, <3>1, <3>2
  <2>3. Beats(t) \in Nat /\ Beats(t) >= 2
    BY BeatCounts
  <2>4. ~inPacket'
    BY <1>3, <1>7 DEF BusFree, TrackPacket, BusInv, Sop
  <2>5. rxBus'.tlp = t /\ rxBus'.n = 1
        /\ rxBus' \in [tlp : RxTlps, n : Nat \ {0}]
    BY <2>2
  <2>6. inPacket' \in BOOLEAN /\ load' \in DOMAIN Loads
    BY <2>1, <2>4 DEF TrackPacket, BusInv
  <2>7. BusInv'
    BY <2>1, <2>3, <2>4, <2>5, <2>6 DEF BusInv
  <2> QED
    BY <1>3, <1>7, <2>7 DEF BusFree
<1>8. CASE HostHold(rxTready)
    BY <1>8 DEF HostHold, hostVars, TrackPacket, Sop, BusInv
<1>9. CASE HostAdvance(rxTready)
  <2>1. inPacket'
    BY <1>9 DEF HostAdvance, TrackPacket, Sop, BusInv
  <2>2. rxBus' = [tlp |-> rxBus.tlp, n |-> rxBus.n + 1]
    BY <1>1, <1>9 DEF HostAdvance
  <2>3. rxBus.n + 1 <= Beats(rxBus.tlp)
    BY <1>1, <1>2, <1>9 DEF HostAdvance, RxLast, BusInv
  <2>4. load' = load /\ hostId' = hostId /\ rxTvalid' \in BOOLEAN
    BY <1>9 DEF HostAdvance
  <2>5. BusInv'
    BY <1>1, <2>1, <2>2, <2>3, <2>4 DEF BusInv
  <2> QED
    BY <1>9, <2>1, <2>5 DEF HostAdvance
<1>10. CASE HostResume
  <2>1. /\ ~rxTvalid /\ rxTvalid' \in BOOLEAN
        /\ UNCHANGED <<load, rxBus, hostId>>
    BY <1>10 DEF HostResume
  <2>2. inPacket' = inPacket
    BY <2>1 DEF TrackPacket, Sop
  <2>3. BusInv'
    BY <2>1, <2>2 DEF BusInv
  <2> QED
    BY <2>1, <2>2, <2>3
<1> QED
    BY <1>7, <1>8, <1>9, <1>10 DEF HostClk

\* PIO_RX_ENGINE knows which beat of which TLP it looks at: it takes the
\* header, and holds the beat it works on until it is finished with it.
LEMMA DecodeStep ==
    ASSUME ComplInv, BusInv, BusInv', Decode, RxEngineClk(complDone),
           HostClk(rxTready)
    PROVE  Decode'
<1> DEFINE Stays == rxBus' = rxBus /\ inPacket'
<1> USE DEF RxStates
<1>1. /\ inPacket /\ ~(rxTvalid /\ rxTready) => Stays
      /\ rxTvalid /\ rxTready /\ ~RxLast(rxBus)
           => rxBus' = [rxBus EXCEPT !.n = @ + 1] /\ inPacket'
    BY BusStep DEF Decode, RxEngineClk
<1>2. /\ rxBus.tlp \in RxTlps /\ rxBus.n \in Nat \ {0}
      /\ rxBus \in [tlp : RxTlps, n : Nat \ {0}]
    BY DEF BusInv
<1>3. inPacket <=> rxBus.n > 1
    BY DEF BusInv
<1>4. CASE RxReset
  <2>1. rxState = "RST" /\ wrEn' = FALSE
    BY <1>4 DEF RxReset, RxNoHeader, RxReadHeader, RxWriteHeader,
                RxOtherHeader
  <2>2. CASE RxNoHeader
    BY <2>1, <2>2 DEF RxNoHeader, Decode, ReadWaits
  <2>3. CASE RxOtherHeader
    BY <2>1, <2>3 DEF RxOtherHeader, Decode, ReadWaits
  <2>4. CASE Sop
    <3>1. rxTvalid /\ rxTready /\ rxBus.n = 1
      BY <1>2, <1>3, <2>1, <2>4 DEF Sop, Decode
    <3>2. ~RxLast(rxBus)
      BY <1>2, <3>1, BeatCounts DEF RxLast
    <3>3. rxBus'.tlp = rxBus.tlp /\ rxBus'.n = 2 /\ inPacket'
      BY <1>1, <1>2, <3>1, <3>2
    <3>4. CASE RxReadHeader
      BY <2>1, <3>3, <3>4 DEF RxReadHeader, Decode, ReadWaits, HoldsRead,
                              Reads, Writes
    <3>5. CASE RxWriteHeader
      BY <2>1, <3>3, <3>5 DEF RxWriteHeader, Decode, ReadWaits, AtWrite,
                              Reads, Writes
    <3> QED
      BY <1>4, <2>2, <2>3, <3>4, <3>5 DEF RxReset
  <2> QED
    BY <1>4, <2>2, <2>3, <2>4 DEF RxReset, RxReadHeader, RxWriteHeader
<1>5. CASE RxNoBeat
  <2>1. inPacket
    BY <1>3, <1>5 DEF RxNoBeat, Decode, HoldsRead, AtWrite
  <2> QED
    BY <1>1, <1>5, <2>1 DEF RxNoBeat, Decode, HoldsRead, AtWrite, ReadWaits
<1>6. CASE RxReadAddr
  <2>1. HoldsRead /\ tlpType \in Reads
    BY <1>6 DEF RxReadAddr, Decode, ComplInv, Kinds
  <2>2. Stays
    BY <1>1, <1>3, <2>1 DEF HoldsRead
  <2> QED
    BY <1>6, <2>1, <2>2 DEF RxReadAddr, Decode, HoldsRead, Reads, Writes,
                            Sampled
<1>7. CASE RxWrite32
  <2>1. ~rxTready /\ tlpType = "WR32" /\ AtWrite("WR32", 2)
    BY <1>7 DEF RxWrite32, Decode
  <2>2. Stays
    BY <1>1, <1>3, <2>1 DEF AtWrite
  <2>3. Sampled(rxBus) = [Sampled(rxBus) EXCEPT !.n = 2]
    BY <2>1 DEF Sampled, AtWrite
  <2> QED
    BY <1>7, <2>1, <2>2, <2>3 DEF RxWrite32, Decode, AtWrite, WriteHeld,
                                  ReadWaits, Reads, Writes, Sampled
<1>8. CASE RxWrite64Addr
  <2>1. rxTready /\ tlpType = "WR64" /\ AtWrite("WR64", 2) /\ rxTvalid
    BY <1>8 DEF RxWrite64Addr, Decode
  <2>2. ~RxLast(rxBus)
    BY <1>2, <2>1, BeatCounts DEF RxLast, AtWrite
  <2>3. rxBus'.tlp = rxBus.tlp /\ rxBus'.n = 3 /\ inPacket'
    BY <1>1, <1>2, <2>1, <2>2 DEF AtWrite
  <2>4. wrAddr' = [Sampled(rxBus) EXCEPT !.n = 2]'
    BY <1>8, <2>1, <2>3 DEF RxWrite64Addr, Sampled, AtWrite
  <2> QED
    BY <1>8, <2>1, <2>3, <2>4 DEF RxWrite64Addr, Decode, AtWrite, ReadWaits
<1>9. CASE RxWrite64Data
  <2>1. /\ ~rxTready /\ tlpType = "WR64" /\ AtWrite("WR64", 3)
        /\ wrAddr = [Sampled(rxBus) EXCEPT !.n = 2]
    BY <1>9 DEF RxWrite64Data, Decode
  <2>2. Stays
    BY <1>1, <1>3, <2>1 DEF AtWrite
  <2> QED
    BY <1>9, <2>1, <2>2 DEF RxWrite64Data, Decode, AtWrite, WriteHeld,
                            ReadWaits, Reads, Writes, Sampled
<1>10. CASE RxWait(complDone)
  <2>1. ~rxTready /\ rxBus.n > 1
    BY <1>10 DEF RxWait, Decode, ReadWaits, HoldsRead, WriteHeld, AtWrite,
                 ComplInv, Kinds
  <2>2. Stays
    BY <1>1, <1>3, <2>1
  <2> QED
    BY <1>10, <2>1, <2>2 DEF RxWait, Decode, ReadWaits, HoldsRead, WriteHeld,
                             AtWrite, Writes, Sampled
<1> QED
    BY <1>4, <1>5, <1>6, <1>7, <1>8, <1>9, <1>10 DEF RxEngineClk

\* The completion is built from the tag of the read that waits.
LEMMA OwnBeatStep ==
    ASSUME ComplInv, NEW ack, NEW tready, RxEngineClk(complDone),
           TxEngineClk(reqCompl, reqComplWd, reqTag, ack, tready)
    PROVE  OwnBeat'
<1> SUFFICES ASSUME complDone' PROVE beat1'.id = reqTag'
    BY DEF OwnBeat
<1>1. TxLast(reqTag, tready) /\ beat1' = CplData(reqTag, reqComplWdQ)
    BY DEF TxEngineClk, TxRequest, TxRelease, TxFirst, TxTemp, TxLast
<1>2. ReadWaits
    BY <1>1 DEF TxLast, ComplInv, Held
<1>3. reqTag' = reqTag
    BY <1>2 DEF ReadWaits, RxEngineClk, RxReset, RxNoHeader, RxReadHeader,
                RxWriteHeader, RxOtherHeader, RxNoBeat, RxReadAddr, RxWrite32,
                RxWrite64Addr, RxWrite64Data, RxWait
<1> QED
    BY <1>1, <1>3 DEF CplData

\* The bus, the decoder and the completion agree at every edge.
LEMMA RxInvariant == Spec => []RxInv
<1>1. Init => RxInv
  <2> SUFFICES ASSUME Init PROVE RxInv
    OBVIOUS
  <2>1. NoTlp \in RxTlps
    BY HostIdsAssumption DEF NoTlp, RxTlps, TlpTypes, Bars
  <2>2. Beats(NoTlp) \in Nat /\ Beats(NoTlp) >= 2
    BY <2>1, BeatCounts
  <2>3. /\ load \in DOMAIN Loads /\ rxTvalid = FALSE /\ hostId = 0
        /\ inPacket = FALSE /\ rxBus = [tlp |-> NoTlp, n |-> 1]
    BY DEF Init, HostInit, RxEngineInit, EmptyBus
  <2>4. BusInv
    <3>1. rxBus.tlp = NoTlp /\ rxBus.n = 1
          /\ rxBus \in [tlp : RxTlps, n : Nat \ {0}]
      BY <2>1, <2>3
    <3>2. hostId \in 0..(HostIds - 1)
      BY <2>3, HostIdsAssumption
    <3>3. rxBus.n <= Beats(rxBus.tlp) /\ ~(rxBus.n > 1)
      BY <2>2, <3>1
    <3> QED
      BY <2>3, <3>1, <3>2, <3>3 DEF BusInv
  <2>5. Decode
    BY DEF Init, RxEngineInit, Decode, RxStates, ReadWaits
  <2>6. OwnBeat
    BY DEF Init, TxEngineInit, OwnBeat
  <2> QED
    BY <2>4, <2>5, <2>6 DEF RxInv
<1>2. ComplInv /\ RxInv /\ [Next]_vars => RxInv'
  <2> SUFFICES ASSUME ComplInv, RxInv, [Next]_vars PROVE RxInv'
    OBVIOUS
  <2>1. CASE ClkEdge
    <3>1. PICK tready \in BOOLEAN :
            TxEngineClk(reqCompl, reqComplWd, reqTag, ack1, Ready1(tready))
      BY <2>1 DEF ClkEdge
    <3>2. RxEngineClk(complDone) /\ HostClk(rxTready)
      BY <2>1 DEF ClkEdge
    <3>3. BusInv'
      BY <3>2, BusStep DEF RxInv, Decode, RxEngineClk
    <3>4. Decode'
      BY <3>2, <3>3, DecodeStep DEF RxInv
    <3>5. OwnBeat'
      BY <3>1, <3>2, OwnBeatStep
    <3> QED
      BY <3>3, <3>4, <3>5 DEF RxInv
  <2>2. CASE UNCHANGED clkVars
    <3>1. UNCHANGED <<rxEngineVars, hostVars, txEngineVars>>
      BY <2>2 DEF clkVars
    <3>2. BusInv'
      BY <3>1 DEF RxInv, BusInv, hostVars, rxEngineVars
    <3>3. Decode'
      BY <3>1 DEF RxInv, Decode, hostVars, rxEngineVars, ReadWaits, HoldsRead,
                  AtWrite, WriteHeld, Sampled
    <3>4. OwnBeat'
      BY <3>1 DEF RxInv, OwnBeat, rxEngineVars, txEngineVars
    <3> QED
      BY <3>2, <3>3, <3>4 DEF RxInv
  <2> QED
    BY <2>1, <2>2 DEF Next, XgmiiEdge, vars
<1> QED
    BY <1>1, <1>2, ComplInvariant, PTL DEF Spec

\* PIO_RX_ENGINE takes only first beats for headers, and what it writes to
\* the register file is the one-dword write it still holds on the bus.
THEOREM DecoderInStep == Spec => []RxInStep
<1>1. RxInv => RxInStep
  <2> SUFFICES ASSUME RxInv PROVE RxInStep
    OBVIOUS
  <2>1. rxBus.n \in Nat \ {0} /\ rxBus.tlp \in RxTlps
    BY DEF RxInv, BusInv
  <2>2. rxState = "RST" /\ Sop => rxBus.n = 1 /\ rxTready
    BY <2>1 DEF RxInv, BusInv, Decode, Sop
  <2>3. ASSUME wrEn
        PROVE  /\ HasData(rxBus.tlp.type) /\ rxBus.tlp.dw = 1
               /\ wrAddr = [Sampled(rxBus) EXCEPT !.n = 2]
               /\ wrData = [Sampled(rxBus) EXCEPT !.n = Beats(rxBus.tlp)]
    <3>1. WriteHeld /\ wrAddr = [Sampled(rxBus) EXCEPT !.n = 2]
          /\ wrData = Sampled(rxBus)
      BY <2>3 DEF RxInv, Decode
    <3>2. HasData(rxBus.tlp.type) /\ rxBus.tlp.dw = 1
      BY <3>1 DEF WriteHeld, AtWrite, HasData
    <3>3. rxBus.n = Beats(rxBus.tlp)
      BY <2>1, <3>1, BeatCounts DEF WriteHeld, AtWrite
    <3> QED
      BY <3>1, <3>2, <3>3 DEF Sampled
  <2> QED
    BY <2>2, <2>3 DEF RxInStep
<1> QED
    BY <1>1, RxInvariant, PTL

\* A completion answers the read still on the bus: with its tag, from the
\* address in its second beat.
THEOREM CompletionsOwn == Spec => []CompletionOwn
<1>1. ComplInv /\ RxInv => CompletionOwn
    BY DEF ComplInv, Held, RxInv, Decode, HoldsRead, OwnBeat, CompletionOwn,
           Sampled
<1> QED
    BY <1>1, ComplInvariant, RxInvariant, PTL

-----------------------------------------------------------------------------
(***************************************************************************)
(* Types.  What the network side captures is a word of the wire, whose     *)
(* shape is one of the load; len then stays within its ten bits.           *)
(***************************************************************************)
WireShapes == [data : BOOLEAN, dw : 0..1023, a64 : BOOLEAN, sent : Nat]

\* A captured word that len is computed from has a shape.
Shaped(w) == w.k = "tlp" => w.kind \in WireShapes

WireTypes == wireKind \in WireShapes /\ Shaped(tlp1)

OrfTypes ==
    /\ tlast2 \in BOOLEAN /\ orfState \in OrfStates /\ len \in 0..1023
    /\ prevEnd \in BOOLEAN \X BOOLEAN \X BOOLEAN \X BOOLEAN

XrTypes ==
    /\ frameEnd \in BOOLEAN /\ xrState \in XrStates
    /\ xrCount \in 0..(LastHdr + 1) /\ xrMatch \subseteq HdrFields

TxTypes ==
    /\ tlast1 \in BOOLEAN /\ reqComplWdQ \in BOOLEAN
    /\ txState \in TxStates /\ beat1 \in Beat1s

RxTypes ==
    /\ reqComplWd \in BOOLEAN /\ tlpType \in TlpTypes
    /\ reqTag \in 0..(HostIds - 1)

OffTypes ==
    trnPending \in BOOLEAN /\ toTurnoff \in BOOLEAN /\ turnoffOk \in BOOLEAN

\* The types that the invariants above leave open.
Types ==
    /\ lag \in 0..12
    /\ WireTypes /\ OrfTypes /\ XrTypes /\ TxTypes /\ RxTypes /\ OffTypes

\* PIO_TX_ENGINE builds its beats from the tag of the request.
LEMMA TxTypesStep ==
    ASSUME Types, NEW tready, NEW ack,
           TxEngineClk(reqCompl, reqComplWd, reqTag, ack, tready)
    PROVE  TxTypes'
<1> USE DEF TxStates
<1>1. /\ tlast1 \in BOOLEAN /\ reqComplWdQ \in BOOLEAN
      /\ txState \in TxStates /\ beat1 \in Beat1s
      /\ reqComplWdQ' = reqComplWd /\ reqComplWd \in BOOLEAN
    BY DEF Types, TxTypes, RxTypes, TxEngineClk
<1>2. NoBeat \in Beat1s
    BY HostIdsAssumption DEF NoBeat, Beat1s
<1>3. CplHeader(reqTag) \in Beat1s /\ CplData(reqTag, reqComplWdQ) \in Beat1s
    BY DEF CplHeader, CplData, Beat1s, Types, RxTypes
<1>4. CASE TxRequest(ack, tready)
    BY <1>1, <1>2, <1>4 DEF TxRequest, TxTypes
<1>5. CASE TxRelease
    BY <1>1, <1>2, <1>5 DEF TxRelease, TxTypes
<1>6. CASE TxFirst(reqTag, tready)
    BY <1>1, <1>3, <1>6 DEF TxFirst, TxTypes
<1>7. CASE TxTemp
    BY <1>1, <1>7 DEF TxTemp, TxTypes
<1>8. CASE TxLast(reqTag, tready)
    BY <1>1, <1>3, <1>8 DEF TxLast, TxTypes
<1> QED
    BY <1>4, <1>5, <1>6, <1>7, <1>8 DEF TxEngineClk

\* PIO_RX_ENGINE loads its registers from the header on the bus.
LEMMA RxTypesStep ==
    ASSUME Types, BusInv, NEW cd, RxEngineClk(cd)
    PROVE  RxTypes'
<1>1. rxBus.tlp.id \in 0..(HostIds - 1) /\ rxBus.tlp.type \in TlpTypes
    BY DEF BusInv, RxTlps
<1>2. /\ reqComplWd \in BOOLEAN /\ tlpType \in TlpTypes
      /\ reqTag \in 0..(HostIds - 1)
    BY DEF Types, RxTypes
<1>3. CASE RxReset
    BY <1>1, <1>2, <1>3 DEF RxReset, RxNoHeader, RxReadHeader, RxWriteHeader,
                            RxOtherHeader, RxTypes
<1>4. CASE RxNoBeat \/ RxReadAddr \/ RxWrite32 \/ RxWrite64Addr
           \/ RxWrite64Data \/ RxWait(cd)
    BY <1>2, <1>4 DEF RxNoBeat, RxReadAddr, RxWrite32, RxWrite64Addr,
                      RxWrite64Data, RxWait, RxTypes
<1> QED
    BY <1>3, <1>4 DEF RxEngineClk

\* len keeps its ten bits, whatever the shape of the TLP.
LEMMA OrfTypesStep ==
    ASSUME Types, NEW ack, OrfClk(ack)
    PROVE  OrfTypes'
<1> USE DEF OrfStates
<1>1. /\ tlast2 \in BOOLEAN /\ orfState \in OrfStates /\ len \in 0..1023
      /\ prevEnd \in BOOLEAN \X BOOLEAN \X BOOLEAN \X BOOLEAN
      /\ frameEnd \in BOOLEAN
    BY DEF Types, OrfTypes, XrTypes
<1>2. prevEnd' \in BOOLEAN \X BOOLEAN \X BOOLEAN \X BOOLEAN
    BY <1>1 DEF OrfClk
<1>3. ASSUME NEW kind \in WireShapes PROVE DwLen(kind) \in 0..1023
  <2>1. kind.dw \in Int
    BY <1>3 DEF WireShapes
  <2>2. ((IF kind.data THEN kind.dw ELSE 0) - 1
          + (IF kind.a64 THEN 1 ELSE 0)) \in Int
    BY <2>1
  <2>3. \A i \in Int : i % 1024 \in 0..1023
    OBVIOUS
  <2> QED
    BY <2>2, <2>3 DEF DwLen
<1>4. (len - 2) % 1024 \in 0..1023 /\ OrfLast \in BOOLEAN
    BY <1>1 DEF OrfLast
<1>5. CASE OrfIdle
    BY <1>1, <1>2, <1>5 DEF OrfIdle, OrfTypes
<1>6. CASE OrfAck(ack)
    BY <1>1, <1>2, <1>6 DEF OrfAck, OrfTypes
<1>7. CASE OrfTlp1
  <2>1. len' \in 0..1023
    BY <1>3, <1>7 DEF OrfTlp1, Types, WireTypes, Shaped
  <2> QED
    BY <1>2, <1>7, <2>1 DEF OrfTlp1, OrfTypes
<1>8. CASE OrfTlp2
    BY <1>2, <1>4, <1>8 DEF OrfTlp2, OrfNext, OrfTypes
<1>9. CASE OrfTlp3
    BY <1>2, <1>4, <1>9 DEF OrfTlp3, OrfNext, OrfTypes
<1> QED
    BY <1>5, <1>6, <1>7, <1>8, <1>9 DEF OrfClk

\* The word on the wire has the shape of the frame.
LEMMA WordShaped == WireTypes => Shaped(WireWord)
    BY DEF WireTypes, WireWord, Shaped, IdleWord, StartWord, TermWord, HdrWord,
           TlpWord

\* XGMII_RX_ENGINE captures the word it is given.
LEMMA XrTypesStep ==
    ASSUME Types, NEW w, Shaped(w), XgmiiRxWord(w)
    PROVE  XrTypes' /\ Shaped(tlp1)'
<1> USE DEF XrStates, LastHdr
<1>1. /\ frameEnd \in BOOLEAN /\ xrState \in XrStates
      /\ xrCount \in 0..6 /\ xrMatch \subseteq HdrFields
      /\ Shaped(tlp1)
    BY DEF Types, XrTypes, WireTypes
<1>10. frameEnd' \in BOOLEAN
    BY DEF XgmiiRxWord, XrIdle, XrHead, XrTlp1, XrTlp2, XrTlp3
<1>2. CASE XrIdle(w)
    BY <1>1, <1>10, <1>2 DEF XrIdle, XrTypes, Shaped
<1>3. CASE XrHead(w)
  <2>1. xrCount' \in 0..6
    BY <1>1, <1>3 DEF XrHead
  <2>2. xrMatch' \subseteq HdrFields
    BY <1>1, <1>3 DEF XrHead
  <2> QED
    BY <1>1, <1>10, <1>3, <2>1, <2>2 DEF XrHead, XrTypes, Shaped
<1>4. CASE XrTlp1(w)
    BY <1>1, <1>10, <1>4 DEF XrTlp1, XrTypes, Shaped
<1>5. CASE XrTlp2(w)
    BY <1>1, <1>10, <1>5 DEF XrTlp2, XrTypes, Shaped
<1>6. CASE XrTlp3(w)
    BY <1>1, <1>10, <1>6 DEF XrTlp3, XrTypes, Shaped
<1> QED
    BY <1>2, <1>3, <1>4, <1>5, <1>6 DEF XgmiiRxWord

\* The types are kept by both clocks.
LEMMA TypesInvariant == Spec => []Types
<1>1. Init => Types
  <2> SUFFICES ASSUME Init PROVE Types
    OBVIOUS
  <2>1. NoShape \in WireShapes /\ NoBeat \in Beat1s
    BY HostIdsAssumption DEF NoShape, WireShapes, NoBeat, Beat1s
  <2>2. lag \in 0..12 /\ WireTypes
    BY <2>1 DEF Init, WireTypes, XgmiiRxInit, ZeroWord, Shaped
  <2>3. OrfTypes
    <3>1. prevEnd \in BOOLEAN \X BOOLEAN \X BOOLEAN \X BOOLEAN
      BY DEF Init, OrfInit
    <3>2. tlast2 = FALSE /\ orfState = "IDLE" /\ len = 0
      BY DEF Init, OrfInit
    <3>3. tlast2 \in BOOLEAN
      BY <3>2
    <3>4. orfState \in OrfStates /\ len \in 0..1023
      BY <3>2 DEF OrfStates
    <3> QED
      BY <3>1, <3>3, <3>4 DEF OrfTypes
  <2>4. XrTypes
    <3>1. frameEnd \in BOOLEAN /\ xrMatch \subseteq HdrFields
      BY DEF Init, XgmiiRxInit
    <3> QED
      BY <3>1 DEF Init, XgmiiRxInit, XrTypes, XrStates, LastHdr
  <2>5. TxTypes
    BY <2>1 DEF Init, TxEngineInit, TxTypes, TxStates
  <2>6. RxTypes
    BY HostIdsAssumption DEF Init, RxEngineInit, RxTypes, TlpTypes
  <2>7. OffTypes
    BY DEF Init, TurnoffInit, OffTypes
  <2> QED
    BY <2>2, <2>3, <2>4, <2>5, <2>6, <2>7 DEF Types
<1>2. BusInv /\ Types /\ [Next]_vars => Types'
  <2> SUFFICES ASSUME BusInv, Types, [Next]_vars PROVE Types'
    OBVIOUS
  <2>1. CASE ClkEdge
    <3>1. PICK tready \in BOOLEAN :
            /\ TxEngineClk(reqCompl, reqComplWd, reqTag, ack1, Ready1(tready))
            /\ OrfClk(ack2)
      BY <2>1 DEF ClkEdge
    <3>2. TxTypes'
      BY <3>1, TxTypesStep
    <3>3. OrfTypes'
      BY <3>1, OrfTypesStep
    <3>4. RxTypes'
      BY <2>1, RxTypesStep DEF ClkEdge
    <3>5. OffTypes'
      BY <2>1 DEF ClkEdge, TurnoffClk, PendingClk, AgreeClk, AskClk, OffTypes,
                  Types
    <3>6. XrTypes' /\ WireTypes'
      BY <2>1 DEF ClkEdge, xrVars, wireVars, Types, XrTypes, WireTypes, Shaped
    <3>7. lag' \in 0..12
      BY <2>1 DEF ClkEdge, Types
    <3> QED
      BY <3>2, <3>3, <3>4, <3>5, <3>6, <3>7 DEF Types
  <2>2. CASE XgmiiEdge
    <3>1. Shaped(WireWord) /\ XgmiiRxWord(WireWord)
      BY <2>2, WordShaped DEF XgmiiEdge, Types
    <3>2. XrTypes' /\ Shaped(tlp1)'
      BY <3>1, XrTypesStep
    <3>3. wireKind' \in WireShapes
      <4>1. Shapes \subseteq WireShapes
        BY ShapesAssumption DEF BusInv, Shapes, WireShapes
      <4> QED
        BY <2>2, <4>1 DEF XgmiiEdge, WireQuiet, WireStart, WireNext, Types,
                          WireTypes
    <3>4. OrfTypes' /\ TxTypes' /\ RxTypes' /\ OffTypes'
      BY <2>2 DEF XgmiiEdge, clkVars, orfVars, txEngineVars, rxEngineVars,
                  turnoffVars, Types, OrfTypes, TxTypes, RxTypes, OffTypes
    <3>5. lag' \in 0..12
      BY <2>2 DEF XgmiiEdge, Types
    <3> QED
      BY <3>2, <3>3, <3>4, <3>5 DEF Types, WireTypes
  <2>3. CASE UNCHANGED vars
    BY <2>3 DEF vars, clkVars, xrVars, wireVars, orfVars, txEngineVars,
                rxEngineVars, turnoffVars, Types, OrfTypes, TxTypes, RxTypes,
                OffTypes, XrTypes, WireTypes, Shaped
  <2> QED
    BY <2>1, <2>2, <2>3 DEF Next
<1>3. RxInv => BusInv
    BY DEF RxInv
<1> QED
    BY <1>1, <1>2, <1>3, RxInvariant, PTL DEF Spec

\* Every register keeps its type, len its ten bits among them.
THEOREM TypeCorrect == Spec => []TypeOK
<1>1. GrantInv /\ ComplInv /\ RxInv /\ Types => TypeOK
    BY DEF GrantInv, GrantTypes, ComplInv, StageTypes, RxInv, BusInv, Decode,
           Types, OrfTypes, TxTypes, RxTypes, OffTypes, XrTypes, TypeOK
<1> QED
    BY <1>1, GrantInvariant, ComplInvariant, RxInvariant, TypesInvariant, PTL

-----------------------------------------------------------------------------
(***************************************************************************)
(* Whole TLPs in order.                                                    *)
(*                                                                         *)
(* tlp1, tlp2 and tlp3 are one buffer without a full flag, written by      *)
(* xgmii_clk and read by clk, and tlp_frame_end is a pulse without an      *)
(* answer.  That no frame is lost or mixed with the next one is a matter   *)
(* of time: the heart of the proof is an inequality between the edges of   *)
(* clk that the pending TLP still needs and the edges of xgmii_clk that    *)
(* the next frame still takes to reach the buffer.                         *)
(***************************************************************************)

(***************************************************************************)
(* The recogniser and the wire.  HEAD counts the header words of a frame   *)
(* and remembers which of them were ours; only an IP-NUMA frame brings it  *)
(* to TLP1, at the first word of the TLP, and it is back in IDLE before    *)
(* the next preamble.                                                      *)
(***************************************************************************)
Own == wireBad = Ours

FrameShape ==
    /\ wirePos \in Nat /\ wireIdle \in Nat
    /\ wireBad \in {0, 1, 2, 4, 5}
    /\ wirePos > 0 => /\ wireIdle = 0 /\ wireKind \in WireShapes
                      /\ TwoOrThree(wireKind)
                      /\ wirePos <= FirstTlp + ShapeBeats(wireKind)

\* The header words seen so far.
MatchSoFar ==
    /\ xrCount > 1 => ("rx_type" \in xrMatch <=> wireBad # 1)
    /\ xrCount > 2 => ("rx_protocol" \in xrMatch <=> wireBad # 2)
    /\ xrCount > 4 => ("rx_dport" \in xrMatch <=> wireBad # 4)

HeadInv ==
    \/ wirePos \in 2..7 /\ xrCount = wirePos - 2 /\ MatchSoFar
    \/ wirePos >= 8 /\ ~Own /\ xrCount = 6
    \/ wirePos = 0 /\ xrCount = 6

WireInv ==
    /\ FrameShape
    /\ xrState = "IDLE" => wirePos \in {0, 1} \/ (wirePos = 11 /\ Own)
    /\ xrState = "HEAD" => HeadInv
    /\ xrState = "TLP1" => wirePos = 8 /\ Own
    /\ xrState = "TLP2" => wirePos = 9 /\ Own
    /\ xrState = "TLP3" => wirePos = 10 /\ Own

\* A shape the sender may use has two or three beats.
LEMMA BeatsOfShape ==
    ASSUME NEW kind \in WireShapes, TwoOrThree(kind)
    PROVE  /\ ShapeBeats(kind) \in {2, 3}
           /\ ShapeBeats(kind) = 2 <=> kind.sent \in {3, 4}
           /\ DwLen(kind) = (kind.sent - 4) % 1024
<1>1. kind.sent \in {3, 4, 5, 6}
    BY DEF TwoOrThree
<1>2. /\ ShapeBeats(kind) \in {2, 3}
      /\ ShapeBeats(kind) = 2 <=> kind.sent \in {3, 4}
    BY <1>1 DEF ShapeBeats
<1>3. (IF kind.data THEN kind.dw ELSE 0) - 1 + (IF kind.a64 THEN 1 ELSE 0)
        = kind.sent - 4
  <2>1. /\ kind.sent = 3 + (IF kind.a64 THEN 1 ELSE 0)
                         + (IF kind.data THEN kind.dw ELSE 0)
        /\ kind.dw \in Int
    BY DEF TwoOrThree, WireShapes
  <2> QED
    BY <2>1
<1> QED
    BY <1>2, <1>3 DEF DwLen

\* The frame moves on by a word, or the wire is idle.
LEMMA FrameStep ==
    ASSUME Sender, BusInv, FrameShape, WireQuiet \/ WireStart \/ WireNext
    PROVE  /\ FrameShape'
           /\ wirePos = 0 => \/ wirePos' = 0
                             \/ wirePos' = 1
           /\ wirePos > 0 => wirePos' = 0 \/ wirePos' = wirePos + 1
           /\ wirePos > 0 /\ wirePos' = 0 => wirePos \in {10, 11}
           /\ wirePos > 0 => wireBad' = wireBad
           /\ wirePos' <= 11
<1> USE DEF FrameShape, FirstTlp, FirstHdr, LastHdr
<1>1. CASE WireQuiet
    BY <1>1, MinIdleAssumption DEF WireQuiet
<1>2. CASE WireStart
  <2>1. wireKind' \in Loads[load].shapes /\ load \in DOMAIN Loads
    BY <1>2 DEF WireStart, Shapes, BusInv
  <2>2. wireKind' \in WireShapes /\ TwoOrThree(wireKind')
    BY <2>1, ShapesAssumption DEF Sender, WireShapes
  <2>3. ShapeBeats(wireKind') \in {2, 3}
    BY <2>2, BeatsOfShape
  <2>4. wireBad' \in {0, 1, 2, 4, 5}
    BY <1>2, BadPlacesAssumption DEF WireStart, Ours
  <2> QED
    BY <1>2, <2>2, <2>3, <2>4 DEF WireStart, TwoOrThree, ShapeBeats
<1>3. CASE WireNext
  <2>1. ShapeBeats(wireKind) \in {2, 3}
    BY <1>3, BeatsOfShape DEF WireNext
  <2> QED
    BY <1>3, <2>1 DEF WireNext, TwoOrThree, ShapeBeats
<1> QED
    BY <1>1, <1>2, <1>3

\* What the recogniser is shown.
LEMMA WordKind ==
    ASSUME FrameShape
    PROVE  /\ wirePos = 0 => WireWord.k = "idle"
           /\ wirePos = 1 => WireWord.k = "start"
           /\ wirePos > 1 => WireWord.k \notin {"idle", "start"}
           /\ wirePos \in 2..7 =>
                /\ WireWord.k = "hdr"
                /\ WireWord.ok <=> Own \/ wireBad # wirePos - 2
<1> USE DEF FrameShape, FirstTlp, FirstHdr, LastHdr
<1>1. wirePos = 0 => WireWord.k = "idle"
    BY DEF WireWord, IdleWord
<1>2. wirePos = 1 => WireWord.k = "start"
    BY DEF WireWord, StartWord
<1>3. wirePos \in 2..7 => WireWord = HdrWord(Own \/ wireBad # wirePos - 2)
    BY DEF WireWord, Own
<1>4. wirePos >= 8 => \/ WireWord = TermWord
                      \/ WireWord = TlpWord(wireId, wirePos - FirstTlp + 1,
                                            wireKind)
    BY DEF WireWord
<1>5. wirePos \in 2..7 =>
        /\ WireWord.k = "hdr"
        /\ WireWord.ok <=> Own \/ wireBad # wirePos - 2
  <2>1. \A b \in BOOLEAN : HdrWord(b).k = "hdr" /\ (HdrWord(b).ok <=> b)
    BY DEF HdrWord
  <2> QED
    BY <1>3, <2>1
<1>6. wirePos >= 8 => WireWord.k \in {"term", "tlp"}
    BY <1>4 DEF TermWord, TlpWord
<1> QED
    BY <1>1, <1>2, <1>5, <1>6

\* The recogniser keeps in step with the wire.
LEMMA WireStep ==
    ASSUME Sender, BusInv, Types, WireInv, XgmiiRxWord(WireWord),
           WireQuiet \/ WireStart \/ WireNext
    PROVE  WireInv'
<1>1. FrameShape /\ FrameShape'
      /\ (wirePos = 0 => wirePos' = 0 \/ wirePos' = 1)
      /\ (wirePos > 0 => wirePos' = 0 \/ wirePos' = wirePos + 1)
      /\ (wirePos > 0 /\ wirePos' = 0 => wirePos \in {10, 11})
      /\ (wirePos > 0 => wireBad' = wireBad)
      /\ wirePos' <= 11
    BY FrameStep DEF WireInv
<1>2. /\ wirePos = 0 => WireWord.k = "idle"
      /\ wirePos = 1 => WireWord.k = "start"
      /\ wirePos > 1 => WireWord.k \notin {"idle", "start"}
      /\ wirePos \in 2..7 =>
           /\ WireWord.k = "hdr"
           /\ WireWord.ok <=> Own \/ wireBad # wirePos - 2
    BY <1>1, WordKind
<1>3. wirePos \in Nat /\ wirePos' \in Nat /\ wireBad \in {0, 1, 2, 4, 5}
    BY <1>1 DEF FrameShape
<1>4. CASE XrIdle(WireWord)
  <2>1. /\ wirePos \in {0, 1} \/ (wirePos = 11 /\ Own)
        /\ xrState' = IF WireWord.k = "start" THEN "HEAD" ELSE "IDLE"
        /\ xrCount' = 0
    BY <1>4 DEF XrIdle, WireInv
  <2>2. CASE wirePos = 1
    BY <1>1, <1>2, <2>1, <2>2 DEF WireInv, HeadInv, MatchSoFar
  <2>3. CASE wirePos # 1
    BY <1>1, <1>2, <2>1, <2>3 DEF WireInv
  <2> QED
    BY <2>2, <2>3
<1>5. CASE XrHead(WireWord)
  <2>1. xrState = "HEAD" /\ HeadInv /\ xrMatch \subseteq HdrFields
    BY <1>5 DEF XrHead, WireInv, Types, XrTypes
  <2>2. CASE wirePos = 0
    BY <1>1, <1>2, <1>3, <1>5, <2>1, <2>2
       DEF XrHead, WireInv, HeadInv, LastHdr
  <2>3. CASE wirePos >= 8
    BY <1>1, <1>2, <1>3, <1>5, <2>1, <2>3
       DEF XrHead, WireInv, HeadInv, LastHdr, Own
  <2>4. CASE wirePos \in 2..7
    <3>1. wirePos' = wirePos + 1 /\ wireBad' = wireBad
          /\ xrCount = wirePos - 2 /\ MatchSoFar /\ xrCount' = xrCount + 1
      BY <1>1, <1>5, <2>1, <2>4 DEF HeadInv, XrHead, LastHdr
    <3>2. xrCount \in {0, 1, 2, 3, 4, 5}
      BY <2>4, <3>1
    <3>3. WireWord.k = "hdr" /\ (WireWord.ok <=> Own \/ wireBad # xrCount)
      BY <1>2, <2>4, <3>1
    <3>4. MatchSoFar'
      <4>1. HdrField[xrCount] = (CASE xrCount = 1 -> "rx_type"
                                   [] xrCount = 2 -> "rx_protocol"
                                   [] xrCount = 4 -> "rx_dport"
                                   [] OTHER -> "none")
        BY <3>2 DEF HdrField, LastHdr
      <4>2. CASE xrCount = 1
        <5>1. HdrField[xrCount] = "rx_type"
          BY <4>1, <4>2
        <5>2. WireWord.ok <=> wireBad # 1
          BY <3>3, <4>2 DEF Own, Ours
        <5>3. xrMatch' = IF WireWord.ok THEN xrMatch \union {"rx_type"}
                                       ELSE xrMatch \ {"rx_type"}
          BY <1>5, <3>3, <4>2, <5>1 DEF XrHead, HdrFields, LastHdr
        <5> QED
          BY <3>1, <4>2, <5>2, <5>3 DEF MatchSoFar
      <4>3. CASE xrCount = 2
        <5>1. HdrField[xrCount] = "rx_protocol"
          BY <4>1, <4>3
        <5>2. WireWord.ok <=> wireBad # 2
          BY <3>3, <4>3 DEF Own, Ours
        <5>3. xrMatch' = IF WireWord.ok THEN xrMatch \union {"rx_protocol"}
                                       ELSE xrMatch \ {"rx_protocol"}
          BY <1>5, <3>3, <4>3, <5>1 DEF XrHead, HdrFields, LastHdr
        <5> QED
          BY <3>1, <4>3, <5>2, <5>3 DEF MatchSoFar
      <4>4. CASE xrCount = 4
        <5>1. HdrField[xrCount] = "rx_dport"
          BY <4>1, <4>4
        <5>2. WireWord.ok <=> wireBad # 4
          BY <3>3, <4>4 DEF Own, Ours
        <5>3. xrMatch' = IF WireWord.ok THEN xrMatch \union {"rx_dport"}
                                       ELSE xrMatch \ {"rx_dport"}
          BY <1>5, <3>3, <4>4, <5>1 DEF XrHead, HdrFields, LastHdr
        <5> QED
          BY <3>1, <4>4, <5>2, <5>3 DEF MatchSoFar
      <4>5. CASE xrCount \notin {1, 2, 4}
        <5>1. HdrField[xrCount] = "none" /\ xrMatch' = xrMatch
          BY <1>5, <4>1, <4>5 DEF XrHead, HdrFields
        <5> QED
          BY <3>1, <3>2, <4>5, <5>1 DEF MatchSoFar
      <4> QED
        BY <3>2, <4>2, <4>3, <4>4, <4>5
    <3>5. CASE xrCount = 5
      <4>1. xrMatch = HdrFields <=> wireBad \notin {1, 2, 4}
        <5>1. /\ "rx_type" \in xrMatch <=> wireBad # 1
              /\ "rx_protocol" \in xrMatch <=> wireBad # 2
              /\ "rx_dport" \in xrMatch <=> wireBad # 4
          BY <3>1, <3>5 DEF MatchSoFar
        <5>2. xrMatch = HdrFields <=> /\ "rx_type" \in xrMatch
                                      /\ "rx_protocol" \in xrMatch
                                      /\ "rx_dport" \in xrMatch
          BY <2>1 DEF HdrFields
        <5> QED
          BY <5>1, <5>2
      <4>2. WireWord.ok <=> wireBad # 5
        BY <3>3, <3>5 DEF Own, Ours
      <4>3. xrState' = IF Own THEN "TLP1" ELSE "HEAD"
        BY <1>3, <1>5, <3>3, <3>5, <4>1, <4>2 DEF XrHead, LastHdr, Own, Ours
      <4> QED
        BY <1>1, <1>3, <3>1, <3>5, <4>3 DEF WireInv, HeadInv, Own
    <3>6. CASE xrCount # 5
      <4>1. xrState' = "HEAD"
        BY <1>5, <3>3, <3>6 DEF XrHead, LastHdr
      <4> QED
        BY <1>1, <1>3, <3>1, <3>2, <3>4, <3>6, <4>1 DEF WireInv, HeadInv
    <3> QED
      BY <3>5, <3>6
  <2> QED
    BY <1>3, <2>1, <2>2, <2>3, <2>4 DEF HeadInv
<1>6. CASE XrTlp1(WireWord)
    BY <1>1, <1>3, <1>6 DEF XrTlp1, WireInv, Own
<1>7. CASE XrTlp2(WireWord)
    BY <1>1, <1>3, <1>7 DEF XrTlp2, WireInv, Own
<1>8. CASE XrTlp3(WireWord)
    BY <1>1, <1>3, <1>8 DEF XrTlp3, WireInv, Own
<1> QED
    BY <1>4, <1>5, <1>6, <1>7, <1>8 DEF XgmiiRxWord

\* Only IP-NUMA frames are recognised, and each of them is.
LEMMA WireInvariant == ASSUME Sender PROVE Spec => []WireInv
<1>1. Init => WireInv
    BY DEF Init, XgmiiRxInit, WireInv, FrameShape, Ours
<1>2. BusInv /\ Types /\ WireInv /\ [Next]_vars => WireInv'
  <2> SUFFICES ASSUME BusInv, Types, WireInv, [Next]_vars PROVE WireInv'
    OBVIOUS
  <2>1. CASE XgmiiEdge
    BY <2>1, WireStep DEF XgmiiEdge
  <2>2. CASE UNCHANGED <<xrVars, wireVars>>
    BY <2>2 DEF xrVars, wireVars, WireInv, FrameShape, HeadInv, MatchSoFar,
                Own, TwoOrThree, ShapeBeats
  <2> QED
    BY <2>1, <2>2 DEF Next, ClkEdge, vars
<1>3. RxInv => BusInv
    BY DEF RxInv
<1> QED
    BY <1>1, <1>2, <1>3, RxInvariant, TypesInvariant, PTL DEF Spec

-----------------------------------------------------------------------------
(***************************************************************************)
(* How long PIO_TX_ENGINE keeps the bus from port 2.                       *)
(***************************************************************************)
\* A grant once seen is kept, and req1 is dropped right after compl_done.
Port1Inv ==
    /\ txState = "QW1_FIRST" => ack1
    /\ ack1 /\ ~req1 => ~complBusy
    /\ req1 /\ txState = "RST" /\ ~complBusy => complDone

\* Edges of clk until req1 is low, while port 2 does not have the bus.
ToRelease ==
    IF ~req1 THEN 0
    ELSE IF txState = "QW1_FIRST" THEN 4
    ELSE IF txState = "QW1_TEMP" THEN 3
    ELSE IF txState = "QW1" THEN 2
    ELSE IF ~complBusy THEN 1
    ELSE IF ack1 THEN 5 ELSE 6

\* The load of a behaviour does not change.
LEMMA LoadStays == [Next]_vars => load' = load
    BY DEF Next, ClkEdge, XgmiiEdge, HostClk, HostIdle, HostSend, HostHold,
           HostAdvance, HostResume, hostVars, clkVars, vars

\* On a core that is always ready every clock edge takes the beat shown.
LEMMA ReadyEdge ==
    ASSUME ~Throttle, ClkEdge
    PROVE  /\ MuxClk(req1, req2)
           /\ TxEngineClk(reqCompl, reqComplWd, reqTag, ack1, Ready1(TRUE))
           /\ OrfClk(ack2)
           /\ CoreTake(TRUE)
           /\ RxEngineClk(complDone)
           /\ lag <= 7 /\ lag' = lag + 5
           /\ UNCHANGED <<xrVars, wireVars>>
    BY DEF ClkEdge

\* PIO_TX_ENGINE never finds the grant gone.
LEMMA Port1InvStep ==
    ASSUME GrantInv, ComplInv, Port1Inv, MuxClk(req1, req2),
           TxEngineClk(reqCompl, reqComplWd, reqTag, ack1, Ready1(TRUE))
    PROVE  Port1Inv'
<1>1. /\ ack1 /\ req1 => ack1'
      /\ ack1' => req1
    BY MuxStep DEF GrantInv, GrantTypes, MuxClk
<1> USE DEF Ready1, Port1Inv, GrantInv, Port1, GrantTypes, ComplInv,
            StageTypes, Exclusive
<1>2. CASE TxRequest(ack1, Ready1(TRUE))
    BY <1>1, <1>2 DEF TxRequest
<1>3. CASE TxRelease
    BY <1>1, <1>3 DEF TxRelease
<1>4. CASE TxFirst(reqTag, Ready1(TRUE))
    BY <1>1, <1>4 DEF TxFirst
<1>5. CASE TxTemp
    BY <1>1, <1>5 DEF TxTemp
<1>6. CASE TxLast(reqTag, Ready1(TRUE))
    BY <1>1, <1>6 DEF TxLast
<1> QED
    BY <1>2, <1>3, <1>4, <1>5, <1>6 DEF TxEngineClk

\* While port 2 waits for the bus, port 1 comes closer to its release.
LEMMA ReleaseStep ==
    ASSUME GrantInv, ComplInv, Types, Port1Inv, ~ack2, MuxClk(req1, req2),
           TxEngineClk(reqCompl, reqComplWd, reqTag, ack1, Ready1(TRUE))
    PROVE  /\ ToRelease' \in 0..6
           /\ req1 => ToRelease' <= ToRelease - 1
<1>0. ToRelease' \in 0..6
    BY DEF ToRelease
<1> SUFFICES ASSUME req1 PROVE ToRelease' <= ToRelease - 1
    BY <1>0
<1>1. ack1' /\ txState \in TxStates
    BY DEF MuxClk, GrantInv, GrantTypes, Types, TxTypes
<1> USE DEF Ready1, Port1Inv, GrantInv, Port1, GrantTypes, ComplInv,
            StageTypes, Exclusive, ToRelease, TxStates
<1>2. CASE TxRequest(ack1, Ready1(TRUE))
    BY <1>1, <1>2 DEF TxRequest
<1>3. CASE TxRelease
    BY <1>1, <1>3 DEF TxRelease
<1>4. CASE TxFirst(reqTag, Ready1(TRUE))
    BY <1>1, <1>4 DEF TxFirst
<1>5. CASE TxTemp
    BY <1>1, <1>5 DEF TxTemp
<1>6. CASE TxLast(reqTag, Ready1(TRUE))
    BY <1>1, <1>6 DEF TxLast
<1> QED
    BY <1>2, <1>3, <1>4, <1>5, <1>6 DEF TxEngineClk

\* On such a core port 1 keeps what it was granted.
LEMMA Port1Invariant == Spec => [](~Throttle => Port1Inv)
<1>1. Init => Port1Inv
    BY DEF Init, TxEngineInit, MuxInit, Port1Inv
<1>2. /\ GrantInv /\ ComplInv /\ (~Throttle => Port1Inv) /\ [Next]_vars
      => (~Throttle => Port1Inv)'
  <2> SUFFICES ASSUME GrantInv, ComplInv, ~Throttle, Port1Inv, [Next]_vars
               PROVE  Port1Inv'
    BY LoadStays DEF Throttle
  <2>1. CASE ClkEdge
    BY <2>1, ReadyEdge, Port1InvStep
  <2>2. CASE UNCHANGED clkVars
    BY <2>2 DEF clkVars, txEngineVars, muxVars, Port1Inv
  <2> QED
    BY <2>1, <2>2 DEF Next, XgmiiEdge, vars
<1> QED
    BY <1>1, <1>2, GrantInvariant, ComplInvariant, PTL DEF Spec

-----------------------------------------------------------------------------
(***************************************************************************)
(* The way of a network TLP.  It is pending from the end of its frame to   *)
(* its last beat: first in the shift register, then in the machine of the  *)
(* clk domain, at last alone on the bus.                                   *)
(***************************************************************************)
InPipe == frameEnd \/ prevEnd[1] \/ prevEnd[2] \/ prevEnd[3] \/ prevEnd[4]

Pending == InPipe \/ orfState # "IDLE" \/ tvalid2

\* The pulse is seen by one or two edges of clk.
PipeInv ==
    /\ InPipe => orfState = "IDLE" /\ ~tvalid2
    /\ orfState \in {"ACK", "TLP1"} => ~tvalid2
    /\ frameEnd => /\ xrState = "IDLE"
                   /\ ~prevEnd[1] => lag <= 4
                   /\ prevEnd[1] => lag >= 5
                   /\ prevEnd[2] => prevEnd[1] /\ lag >= 10
                   /\ ~prevEnd[3] /\ ~prevEnd[4]
    /\ prevEnd[1] => ~prevEnd[3] /\ ~prevEnd[4]
    /\ prevEnd[2] => ~prevEnd[4]

\* Edges of clk until FrameSeen has been acted upon.
ToSeen ==
    IF frameEnd THEN IF prevEnd[2] THEN 4 ELSE IF prevEnd[1] THEN 5 ELSE 6
    ELSE IF prevEnd[1] THEN 4
    ELSE IF prevEnd[2] THEN 3
    ELSE IF prevEnd[3] THEN 2 ELSE 1

\* Edges of clk until tlp1 has been read, negative afterwards.
Need ==
    IF InPipe THEN ToSeen + 9
    ELSE IF orfState = "ACK" THEN IF ack2 THEN 2 ELSE ToRelease + 3
    ELSE IF orfState = "TLP1" THEN 1
    ELSE IF orfState = "TLP2" THEN 0
    ELSE IF orfState = "TLP3" THEN -1 ELSE -2

\* Edges of xgmii_clk until the next frame is written to tlp1, at least.
Left ==
    IF wirePos = 0 THEN IF wireIdle = 0 THEN 10 ELSE 9
    ELSE IF Own /\ wirePos <= 10 THEN 9 - wirePos
    ELSE 10

\* An edge of clk takes five units of time, one of xgmii_clk eight.
InTime == Pending => 5 * Need + lag <= 8 * Left + 4

\* The shift register, bit by bit.
LEMMA PipeShift ==
    ASSUME OrfTypes, NEW ack, OrfClk(ack)
    PROVE  /\ prevEnd'[1] <=> frameEnd
           /\ prevEnd'[2] <=> prevEnd[1]
           /\ prevEnd'[3] <=> prevEnd[2]
           /\ prevEnd'[4] <=> prevEnd[3]
    BY DEF OrfClk

\* FrameSeen looks at all four bits.
LEMMA SeenBits ==
    ASSUME OrfTypes
    PROVE  FrameSeen <=> ~prevEnd[1] /\ ~prevEnd[2] /\ ~prevEnd[3] /\ prevEnd[4]
<1>1. PICK a \in BOOLEAN, b \in BOOLEAN, c \in BOOLEAN, d \in BOOLEAN :
        prevEnd = <<a, b, c, d>>
    BY DEF OrfTypes
<1>2. prevEnd[1] = a /\ prevEnd[2] = b /\ prevEnd[3] = c /\ prevEnd[4] = d
    BY <1>1
<1>3. FrameSeen <=> ~a /\ ~b /\ ~c /\ d
    BY <1>1 DEF FrameSeen
<1> QED
    BY <1>2, <1>3

\* The machine of the clk domain, in brief.
LEMMA OrfMoves ==
    ASSUME OrfTypes, GrantTypes, NEW ack \in BOOLEAN, OrfClk(ack)
    PROVE  /\ orfState = "IDLE" => /\ orfState' = IF FrameSeen THEN "ACK"
                                                               ELSE "IDLE"
                                   /\ ~tvalid2'
           /\ orfState = "ACK" => /\ orfState' = IF ack THEN "TLP1" ELSE "ACK"
                                  /\ tvalid2' = tvalid2
           /\ orfState = "TLP1" => orfState' = "TLP2" /\ tvalid2'
           /\ orfState = "TLP2" => orfState' \in {"TLP3", "IDLE"} /\ tvalid2'
           /\ orfState = "TLP3" => orfState' = "IDLE" /\ tvalid2'
           /\ orfState \in OrfStates
    BY DEF OrfTypes, OrfClk, OrfIdle, OrfAck, OrfTlp1, OrfTlp2, OrfTlp3,
           OrfNext

\* The phase after an edge of clk.
ClkPhase == lag <= 7 /\ lag' = lag + 5

\* An edge of clk brings the pending TLP closer to being read.
LEMMA NeedStep ==
    ASSUME GrantInv, ComplInv, Types, Port1Inv, PipeInv, MuxClk(req1, req2),
           TxEngineClk(reqCompl, reqComplWd, reqTag, ack1, Ready1(TRUE)),
           OrfClk(ack2), ClkPhase, UNCHANGED xrVars
    PROVE  /\ PipeInv'
           /\ Pending' => Pending /\ Need' <= Need - 1
<1>1. /\ prevEnd'[1] <=> frameEnd
      /\ prevEnd'[2] <=> prevEnd[1]
      /\ prevEnd'[3] <=> prevEnd[2]
      /\ prevEnd'[4] <=> prevEnd[3]
      /\ FrameSeen <=> ~prevEnd[1] /\ ~prevEnd[2] /\ ~prevEnd[3] /\ prevEnd[4]
    BY PipeShift, SeenBits DEF Types
<1>2. frameEnd' = frameEnd /\ xrState' = xrState /\ lag \in 0..12
    BY DEF xrVars, Types
<1>3. /\ orfState = "IDLE" => /\ orfState' = IF FrameSeen THEN "ACK"
                                                          ELSE "IDLE"
                              /\ ~tvalid2'
      /\ orfState = "ACK" => /\ orfState' = IF ack2 THEN "TLP1" ELSE "ACK"
                             /\ tvalid2' = tvalid2
      /\ orfState = "TLP1" => orfState' = "TLP2" /\ tvalid2'
      /\ orfState = "TLP2" => orfState' \in {"TLP3", "IDLE"} /\ tvalid2'
      /\ orfState = "TLP3" => orfState' = "IDLE" /\ tvalid2'
      /\ orfState \in OrfStates
    BY OrfMoves DEF GrantInv, GrantTypes, Types
<1>4. ToRelease' \in 0..6 /\ ToRelease \in 0..6
    BY DEF ToRelease
<1>5. CASE InPipe /\ ~FrameSeen
  <2>1. /\ orfState = "IDLE" /\ ~tvalid2 /\ orfState' = "IDLE" /\ ~tvalid2'
    BY <1>3, <1>5 DEF PipeInv
  <2>2. InPipe'
    BY <1>1, <1>2, <1>5 DEF InPipe
  <2>3. PipeInv'
    BY <1>1, <1>2, <2>1 DEF PipeInv, ClkPhase
  <2>4. ToSeen' <= ToSeen - 1
    BY <1>1, <1>2, <1>5 DEF PipeInv, ToSeen, InPipe, ClkPhase
  <2>5. ToSeen \in Int /\ ToSeen' \in Int
    BY DEF ToSeen
  <2>6. Need = ToSeen + 9 /\ Need' = ToSeen' + 9
    BY <1>5, <2>2 DEF Need
  <2>7. \A a, b \in Int : a <= b - 1 => a + 9 <= (b + 9) - 1
    OBVIOUS
  <2>8. Need' <= Need - 1
    BY <2>4, <2>5, <2>6, <2>7, Zenon
  <2> QED
    BY <1>5, <2>3, <2>8 DEF Pending
<1>6. CASE InPipe /\ FrameSeen
  <2>1. /\ orfState = "IDLE" /\ ~tvalid2 /\ orfState' = "ACK" /\ ~tvalid2'
    BY <1>3, <1>6 DEF PipeInv
  <2>2. ~frameEnd /\ ToSeen = 1
    BY <1>1, <1>6 DEF PipeInv, ToSeen
  <2>3. ~InPipe' /\ ~frameEnd' /\ ~prevEnd'[1] /\ ~prevEnd'[2]
    BY <1>1, <1>2, <1>6, <2>2 DEF InPipe
  <2>4. PipeInv'
    BY <2>1, <2>3 DEF PipeInv
  <2>5. Need' <= Need - 1
    BY <1>6, <2>1, <2>2, <2>3 DEF Need, ToRelease
  <2> QED
    BY <1>6, <2>4, <2>5 DEF Pending
<1>7. CASE ~InPipe
  <2>1. ~InPipe' /\ ~frameEnd' /\ ~prevEnd'[1] /\ ~prevEnd'[2] /\ ~FrameSeen
    BY <1>1, <1>2, <1>7 DEF InPipe
  <2>2. PipeInv'
    BY <1>3, <2>1 DEF PipeInv, OrfStates
  <2>3. CASE orfState = "ACK"
    <3>1. req2
      BY <2>3 DEF GrantInv, Port2
    <3>2. CASE ack2
      BY <1>3, <1>7, <2>1, <2>2, <2>3, <3>2 DEF Need, Pending
    <3>3. CASE ~ack2 /\ req1
      <4>1. ToRelease' <= ToRelease - 1
        BY <3>3, ReleaseStep
      <4>2. ~ack2' /\ orfState' = "ACK"
        BY <1>3, <2>3, <3>3 DEF MuxClk
      <4>3. Need = ToRelease + 3 /\ Need' = ToRelease' + 3
        BY <1>7, <2>1, <2>3, <3>3, <4>2 DEF Need
      <4>4. \A a, b \in 0..6 : a <= b - 1 => a + 3 <= (b + 3) - 1
        OBVIOUS
      <4>5. Need' <= Need - 1
        BY <1>4, <4>1, <4>3, <4>4, Zenon
      <4> QED
        BY <2>2, <2>3, <4>5 DEF Pending
    <3>4. CASE ~ack2 /\ ~req1
      <4>1. ack2' /\ orfState' = "ACK" /\ ToRelease = 0
        BY <1>3, <2>3, <3>1, <3>4
           DEF MuxClk, GrantInv, GrantTypes, ToRelease
      <4> QED
        BY <1>7, <2>1, <2>2, <2>3, <3>4, <4>1 DEF Need, Pending
    <3> QED
      BY <3>2, <3>3, <3>4 DEF GrantInv, GrantTypes
  <2>4. CASE orfState \in {"TLP1", "TLP2", "TLP3"}
    BY <1>3, <1>7, <2>1, <2>2, <2>4 DEF Need, Pending
  <2>5. CASE orfState = "IDLE"
    BY <1>3, <1>7, <2>1, <2>2, <2>5 DEF Pending
  <2> QED
    BY <1>3, <2>3, <2>4, <2>5 DEF OrfStates
<1> QED
    BY <1>5, <1>6, <1>7

\* An edge of xgmii_clk brings the next frame closer by at most one word.
LEMMA LeftStep ==
    ASSUME Sender, BusInv, FrameShape, WireQuiet \/ WireStart \/ WireNext
    PROVE  /\ Left \in Int /\ Left' \in Int
           /\ Left' >= Left - 1
           /\ wirePos = 10 => Left' = 10
<1>1. /\ FrameShape'
      /\ wirePos = 0 => wirePos' = 0 \/ wirePos' = 1
      /\ wirePos > 0 => wirePos' = 0 \/ wirePos' = wirePos + 1
      /\ wirePos > 0 /\ wirePos' = 0 => wirePos \in {10, 11}
      /\ wirePos > 0 => wireBad' = wireBad
    BY FrameStep
<1>2. Left \in Int /\ Left' \in Int
    BY <1>1 DEF Left, FrameShape
<1>3. CASE WireQuiet
    BY <1>2, <1>3, MinIdleAssumption DEF WireQuiet, Left, FrameShape, Sender
<1>4. CASE WireStart
    BY <1>2, <1>4, MinIdleAssumption DEF WireStart, Left, FrameShape, Sender
<1>5. CASE WireNext
    BY <1>1, <1>2, <1>5 DEF WireNext, Left, FrameShape, Own
<1> QED
    BY <1>3, <1>4, <1>5

\* When the recogniser has reached the TLP of a frame, the TLP before it is
\* read word by word ahead of it.
LEMMA AheadOfWire ==
    ASSUME Types, WireInv, InTime, Pending, lag >= 8
    PROVE  /\ xrState = "TLP1" => orfState \in {"TLP2", "TLP3", "IDLE"}
           /\ xrState = "TLP2" => orfState \in {"TLP3", "IDLE"}
           /\ xrState \in {"TLP1", "TLP2"} => ~InPipe
           /\ xrState # "TLP3"
<1>1. /\ lag \in Int /\ 5 * Need + lag <= 8 * Left + 4
      /\ orfState \in OrfStates
    BY DEF InTime, Types, OrfTypes
<1>2. /\ xrState = "TLP1" => Left = 1
      /\ xrState = "TLP2" => Left = 0
      /\ xrState = "TLP3" => Left = -1
    BY DEF WireInv, Left
<1>3. ToRelease \in 0..6 /\ ToSeen \in 1..6
    BY DEF ToRelease, ToSeen
<1>4. Need \in Int /\ Need >= -2
    BY <1>3 DEF Need
<1>5. /\ xrState = "TLP1" => Need <= 0
      /\ xrState = "TLP2" => Need <= -1
      /\ xrState # "TLP3"
    BY <1>1, <1>2, <1>4
<1> QED
    BY <1>1, <1>3, <1>5 DEF Need, OrfStates

\* The timing survives an edge of xgmii_clk.
LEMMA InTimeXgmii ==
    ASSUME Sender, BusInv, Types, WireInv, PipeInv, InTime, XgmiiEdge
    PROVE  PipeInv' /\ InTime'
<1>1. /\ lag >= 8 /\ lag' = lag - 8 /\ XgmiiRxWord(WireWord)
      /\ WireQuiet \/ WireStart \/ WireNext
    BY DEF XgmiiEdge
<1>2. /\ Left \in Int /\ Left' \in Int
      /\ Left' >= Left - 1
      /\ wirePos = 10 => Left' = 10
    BY <1>1, LeftStep DEF WireInv
<1>3. /\ prevEnd' = prevEnd /\ orfState' = orfState /\ tvalid2' = tvalid2
      /\ ack2' = ack2 /\ ToRelease' = ToRelease
    BY DEF XgmiiEdge, clkVars, orfVars, muxVars, txEngineVars, ToRelease
<1>4. lag \in 0..12
    BY DEF Types
<1>5. CASE xrState = "TLP3"
  <2>1. ~Pending
    BY <1>1, <1>5, AheadOfWire
  <2>2. frameEnd' = TRUE /\ xrState' = "IDLE"
    BY <1>1, <1>5 DEF XgmiiRxWord, XrIdle, XrHead, XrTlp1, XrTlp2, XrTlp3
  <2>3. Need' = 15 /\ Left' = 10
    BY <1>2, <1>3, <1>5, <2>1, <2>2
       DEF WireInv, Pending, InPipe, Need, ToSeen
  <2>4. InTime'
    BY <1>1, <1>4, <2>3 DEF InTime
  <2>5. PipeInv'
    BY <1>1, <1>3, <1>4, <2>1, <2>2 DEF PipeInv, Pending, InPipe
  <2> QED
    BY <2>4, <2>5
<1>6. CASE xrState # "TLP3"
  <2>1. frameEnd' = FALSE
    BY <1>1, <1>6 DEF XgmiiRxWord, XrIdle, XrHead, XrTlp1, XrTlp2, XrTlp3
  <2>2. frameEnd => prevEnd[1]
    BY <1>1, <1>4 DEF PipeInv
  <2>3. InPipe' <=> InPipe
    BY <1>3, <2>1, <2>2 DEF InPipe
  <2>4. PipeInv'
    BY <1>3, <2>1, <2>3 DEF PipeInv
  <2>5. Pending' <=> Pending
    BY <1>3, <2>3 DEF Pending
  <2>6. Need \in Int /\ Need' \in Int
    BY DEF Need, ToSeen, ToRelease
  <2>7. Need' <= Need
    <3>1. CASE InPipe
      BY <1>3, <2>1, <2>2, <2>3, <3>1 DEF Need, ToSeen
    <3>2. CASE ~InPipe
      <4>1. Need' = Need
        BY <1>3, <2>3, <3>2 DEF Need
      <4> QED
        BY <2>6, <4>1
    <3> QED
      BY <3>1, <3>2
  <2>8. ASSUME Pending PROVE 5 * Need' + lag' <= 8 * Left' + 4
    <3>1. 5 * Need + lag <= 8 * Left + 4
      BY <2>8 DEF InTime
    <3>2. lag \in Int /\ lag' \in Int
      BY <1>1, <1>4
    <3>3. \A n, n1, p, p1, l, l1 \in Int :
            /\ 5 * n + p <= 8 * l + 4
            /\ n1 <= n /\ p1 = p - 8 /\ l1 >= l - 1
            => 5 * n1 + p1 <= 8 * l1 + 4
      OBVIOUS
    <3> QED
      BY <1>1, <1>2, <2>6, <2>7, <3>1, <3>2, <3>3, Zenon
  <2> QED
    BY <2>4, <2>5, <2>8 DEF InTime
<1> QED
    BY <1>5, <1>6

TimeInv == ~Throttle => Port1Inv /\ PipeInv /\ InTime

\* Every TLP is read in time.
LEMMA TimeInvariant == ASSUME Sender PROVE Spec => []TimeInv
<1>1. Init => PipeInv /\ InTime
  <2> SUFFICES ASSUME Init PROVE PipeInv /\ InTime
    OBVIOUS
  <2>1. /\ orfState = "IDLE" /\ ~tvalid2 /\ ~frameEnd
        /\ ~prevEnd[1] /\ ~prevEnd[2] /\ ~prevEnd[3] /\ ~prevEnd[4]
    BY DEF Init, OrfInit, XgmiiRxInit
  <2> QED
    BY <2>1 DEF PipeInv, InTime, Pending, InPipe
<1>2. /\ GrantInv /\ ComplInv /\ BusInv /\ Types /\ WireInv
      /\ (~Throttle => Port1Inv) /\ (~Throttle => PipeInv /\ InTime)
      /\ [Next]_vars
      => (~Throttle => PipeInv /\ InTime)'
  <2> SUFFICES ASSUME GrantInv, ComplInv, BusInv, Types, WireInv, ~Throttle,
                      Port1Inv, PipeInv, InTime, [Next]_vars
               PROVE  PipeInv' /\ InTime'
    BY LoadStays DEF Throttle
  <2>1. CASE ClkEdge
    <3>1. /\ MuxClk(req1, req2)
          /\ TxEngineClk(reqCompl, reqComplWd, reqTag, ack1, Ready1(TRUE))
          /\ OrfClk(ack2)
          /\ lag <= 7 /\ lag' = lag + 5
          /\ UNCHANGED <<xrVars, wireVars>>
      BY <2>1, ReadyEdge
    <3>2. PipeInv' /\ (Pending' => Pending /\ Need' <= Need - 1)
      BY <3>1, NeedStep DEF ClkPhase
    <3>3. Left' = Left /\ Left \in Int /\ lag \in Int
      BY <3>1 DEF wireVars, Left, Own, WireInv, FrameShape, Types
    <3>4. Need \in Int /\ Need' \in Int
      BY DEF Need, ToSeen, ToRelease
    <3>5. ASSUME Pending' PROVE 5 * Need' + lag' <= 8 * Left' + 4
      <4>1. 5 * Need + lag <= 8 * Left + 4 /\ Need' <= Need - 1
        BY <3>2, <3>5 DEF InTime
      <4>2. \A n, n1, p, l \in Int :
              /\ 5 * n + p <= 8 * l + 4
              /\ n1 <= n - 1
              => 5 * n1 + (p + 5) <= 8 * l + 4
        OBVIOUS
      <4> QED
        BY <3>1, <3>3, <3>4, <4>1, <4>2, Zenon
    <3> QED
      BY <3>2, <3>5 DEF InTime
  <2>2. CASE XgmiiEdge
    BY <2>2, InTimeXgmii
  <2>3. CASE UNCHANGED vars
    BY <2>3 DEF vars, clkVars, xrVars, wireVars, orfVars, muxVars,
                txEngineVars, PipeInv, InTime, Pending, InPipe, Need, ToSeen,
                ToRelease, Left, Own
  <2> QED
    BY <2>1, <2>2, <2>3 DEF Next
<1>3. RxInv => BusInv
    BY DEF RxInv
<1>4. (~Throttle => Port1Inv) /\ (~Throttle => PipeInv /\ InTime) => TimeInv
    BY DEF TimeInv
<1> QED
    BY <1>1, <1>2, <1>3, <1>4, GrantInvariant, ComplInvariant, RxInvariant,
       TypesInvariant, WireInvariant, Port1Invariant, PTL DEF Spec

-----------------------------------------------------------------------------
(***************************************************************************)
(* Contents.                                                               *)
(***************************************************************************)
\* What PIO_TX_ENGINE shows.
CplInv ==
    /\ reqComplWd = TRUE /\ reqComplWdQ = TRUE
    /\ txState \in {"QW1_TEMP", "QW1"}
         => beat1 = CplHeader(reqTag) /\ ~tlast1
    /\ complDone => beat1 = CplData(reqTag, TRUE) /\ tlast1

\* The tag stays while a read waits.
LEMMA TagStays ==
    ASSUME ReadWaits, NEW cd, RxEngineClk(cd)
    PROVE  reqTag' = reqTag
    BY DEF ReadWaits, RxEngineClk, RxReset, RxNoHeader, RxReadHeader,
           RxWriteHeader, RxOtherHeader, RxNoBeat, RxReadAddr, RxWrite32,
           RxWrite64Addr, RxWrite64Data, RxWait

\* PIO_TX_ENGINE shows the header and then the data of the read that waits.
LEMMA CplStep ==
    ASSUME ComplInv, CplInv, NEW ack, NEW tready, RxEngineClk(complDone),
           TxEngineClk(reqCompl, reqComplWd, reqTag, ack, tready)
    PROVE  CplInv'
<1>1. reqComplWd' = TRUE /\ reqComplWdQ' = TRUE
  <2>1. reqComplWd' = TRUE
    BY DEF CplInv, RxEngineClk, RxReset, RxNoBeat, RxReadAddr, RxWrite32,
           RxWrite64Addr, RxWrite64Data, RxWait
  <2> QED
    BY <2>1 DEF CplInv, TxEngineClk
<1>2. complBusy => reqTag' = reqTag
    BY TagStays DEF ComplInv, Held
<1> USE DEF CplInv, ComplInv, StageTypes, Exclusive
<1>3. CASE TxRequest(ack, tready)
    BY <1>1, <1>3 DEF TxRequest
<1>4. CASE TxRelease
    BY <1>1, <1>4 DEF TxRelease
<1>5. CASE TxFirst(reqTag, tready)
    BY <1>1, <1>2, <1>5 DEF TxFirst
<1>6. CASE TxTemp
    BY <1>1, <1>2, <1>6 DEF TxTemp
<1>7. CASE TxLast(reqTag, tready)
    BY <1>1, <1>2, <1>7 DEF TxLast
<1> QED
    BY <1>3, <1>4, <1>5, <1>6, <1>7 DEF TxEngineClk

\* The beats of port 1 are those of the read, however the core throttles.
LEMMA CplInvariant == Spec => []CplInv
<1>1. Init => CplInv
    BY DEF Init, TxEngineInit, RxEngineInit, CplInv
<1>2. ComplInv /\ CplInv /\ [Next]_vars => CplInv'
  <2> SUFFICES ASSUME ComplInv, CplInv, [Next]_vars PROVE CplInv'
    OBVIOUS
  <2>1. CASE ClkEdge
    <3>1. PICK tready \in BOOLEAN :
            TxEngineClk(reqCompl, reqComplWd, reqTag, ack1, Ready1(tready))
      BY <2>1 DEF ClkEdge
    <3> QED
      BY <2>1, <3>1, CplStep DEF ClkEdge
  <2>2. CASE UNCHANGED clkVars
    BY <2>2 DEF clkVars, txEngineVars, rxEngineVars, CplInv
  <2> QED
    BY <2>1, <2>2 DEF Next, XgmiiEdge, vars
<1> QED
    BY <1>1, <1>2, ComplInvariant, PTL DEF Spec

\* The pending TLP: its words are in the buffer until it is read.
Unread == InPipe \/ orfState \in {"ACK", "TLP1"}

PendId   == IF Unread THEN tlp1.id ELSE beat2.id
PendKind == IF Unread THEN tlp1.kind ELSE beat2.kind

NetBeat(id, n, kind) ==
    [src |-> "tx2", id |-> id, n |-> n, kind |-> kind,
     keep |-> IF n = ShapeBeats(kind) /\ kind.sent % 2 = 1
                THEN "0f" ELSE "ff"]

WordsInv ==
    /\ Pending => PendKind \in WireShapes /\ TwoOrThree(PendKind)
    /\ Unread => tlp1 = TlpWord(PendId, 1, PendKind)
    /\ Unread \/ orfState = "TLP2" => tlp2 = TlpWord(PendId, 2, PendKind)
    /\ Unread \/ orfState \in {"TLP2", "TLP3"}
         => (ShapeBeats(PendKind) = 3 => tlp3 = TlpWord(PendId, 3, PendKind))

\* The words of the frame that is arriving.
ArriveInv ==
    /\ xrState \in {"TLP2", "TLP3"} => tlp1 = TlpWord(wireId, 1, wireKind)
    /\ xrState = "TLP3" => tlp2 = TlpWord(wireId, 2, wireKind)

\* What port 2 shows, and what the core already has of it.
ShowInv ==
    /\ orfState = "TLP2" =>
         /\ tvalid2 /\ ~tlast2 /\ len = DwLen(PendKind)
         /\ beat2 = NetBeat(PendId, 1, PendKind)
         /\ out = <<>>
    /\ orfState = "TLP3" =>
         /\ tvalid2 /\ ~tlast2 /\ len = (DwLen(PendKind) - 2) % 1024
         /\ ShapeBeats(PendKind) = 3
         /\ beat2 = NetBeat(PendId, 2, PendKind)
         /\ out = <<NetBeat(PendId, 1, PendKind)>>
    /\ orfState = "IDLE" /\ tvalid2 =>
         /\ tlast2
         /\ beat2 = NetBeat(PendId, ShapeBeats(PendKind), PendKind)
         /\ out = IF ShapeBeats(PendKind) = 2
                    THEN <<NetBeat(PendId, 1, PendKind)>>
                    ELSE <<NetBeat(PendId, 1, PendKind),
                           NetBeat(PendId, 2, PendKind)>>
    /\ complDone => out = <<CplHeader(reqTag)>>
    /\ ~complDone /\ orfState # "TLP3" /\ ~tvalid2 => out = <<>>

\* done is nothing, a completion or the TLP of a frame.
DoneInv ==
    \/ done = <<>>
    \/ \E tag \in 0..(HostIds - 1) :
         done = <<CplHeader(tag), CplData(tag, TRUE)>>
    \/ /\ done # <<>> /\ done[1].src = "tx2"
       /\ done = FrameTlp(done[1].id, done[1].kind)

\* Short sequences.
LEMMA Appends ==
    ASSUME NEW a, NEW b, NEW c
    PROVE  /\ Append(<<>>, a) = <<a>> /\ Len(<<>>) = 0
           /\ Append(<<a>>, b) = <<a, b>> /\ Len(<<a>>) = 1
           /\ Append(<<a, b>>, c) = <<a, b, c>> /\ Len(<<a, b>>) = 2
<1> DEFINE S == {a, b, c}
<1>1. Append(<<>>, a) = <<a>> /\ Len(<<>>) = 0
    OBVIOUS
<1>2. Len(<<a>>) = 1 /\ Len(<<a, b>>) = 2
    OBVIOUS
<1>3. Append(<<a>>, b) = <<a, b>>
  <2>1. Append(<<a>>, b) \in Seq(S) /\ <<a, b>> \in Seq(S)
    OBVIOUS
  <2>2. /\ Len(Append(<<a>>, b)) = 2 /\ Len(<<a, b>>) = 2
        /\ Append(<<a>>, b)[1] = a /\ Append(<<a>>, b)[2] = b
    BY <2>1
  <2>3. \A s, t \in Seq(S) :
          /\ Len(s) = 2 /\ Len(t) = 2 /\ s[1] = t[1] /\ s[2] = t[2]
          => s = t
    OBVIOUS
  <2> QED
    BY <2>1, <2>2, <2>3
<1>4. Append(<<a, b>>, c) = <<a, b, c>>
  <2>1. Append(<<a, b>>, c) \in Seq(S) /\ <<a, b, c>> \in Seq(S)
    OBVIOUS
  <2>2. /\ Len(Append(<<a, b>>, c)) = 3 /\ Len(<<a, b, c>>) = 3
        /\ Append(<<a, b>>, c)[1] = a /\ Append(<<a, b>>, c)[2] = b
        /\ Append(<<a, b>>, c)[3] = c
    BY <2>1
  <2>3. \A s, t \in Seq(S) :
          /\ Len(s) = 3 /\ Len(t) = 3
          /\ s[1] = t[1] /\ s[2] = t[2] /\ s[3] = t[3]
          => s = t
    OBVIOUS
  <2> QED
    BY <2>1, <2>2, <2>3
<1> QED
    BY <1>1, <1>2, <1>3, <1>4

\* The TLP of a frame, beat by beat.
LEMMA FrameTlpBeats ==
    ASSUME NEW id, NEW kind \in WireShapes, TwoOrThree(kind)
    PROVE  /\ FrameTlp(id, kind)[1] = NetBeat(id, 1, kind)
           /\ FrameTlp(id, kind) # <<>>
           /\ ShapeBeats(kind) = 2
                => FrameTlp(id, kind)
                     = <<NetBeat(id, 1, kind), NetBeat(id, 2, kind)>>
           /\ ShapeBeats(kind) = 3
                => FrameTlp(id, kind)
                     = <<NetBeat(id, 1, kind), NetBeat(id, 2, kind),
                         NetBeat(id, 3, kind)>>
<1>1. ShapeBeats(kind) \in {2, 3}
    BY BeatsOfShape
<1>2. FrameTlp(id, kind)
        = [n \in 1..ShapeBeats(kind) |-> NetBeat(id, n, kind)]
    BY DEF FrameTlp, NetBeat
<1>3. ShapeBeats(kind) = 2
        => FrameTlp(id, kind) = <<NetBeat(id, 1, kind), NetBeat(id, 2, kind)>>
    BY <1>2
<1>4. ShapeBeats(kind) = 3
        => FrameTlp(id, kind) = <<NetBeat(id, 1, kind), NetBeat(id, 2, kind),
                                  NetBeat(id, 3, kind)>>
    BY <1>2
<1> QED
    BY <1>1, <1>3, <1>4

\* What len says in TLP2, and in TLP3.
LEMMA Lens ==
    ASSUME NEW kind \in WireShapes, TwoOrThree(kind)
    PROVE  /\ DwLen(kind) \in {0, 1023} <=> ShapeBeats(kind) = 2
           /\ DwLen(kind) = 1023 <=> kind.sent = 3
           /\ ShapeBeats(kind) = 3 =>
                /\ (DwLen(kind) - 2) % 1024 \in {0, 1023}
                /\ (DwLen(kind) - 2) % 1024 = 1023 <=> kind.sent = 5
<1>1. /\ DwLen(kind) = (kind.sent - 4) % 1024
      /\ ShapeBeats(kind) \in {2, 3}
      /\ ShapeBeats(kind) = 2 <=> kind.sent \in {3, 4}
    BY BeatsOfShape
<1>2. kind.sent \in {3, 4, 5, 6}
    BY DEF TwoOrThree
<1>3. \A i \in 0..1023 : i % 1024 = i
    OBVIOUS
<1>4. \A i \in (0 - 1024)..(0 - 1) : i % 1024 = i + 1024
    OBVIOUS
<1>5. CASE kind.sent = 3
    BY <1>1, <1>4, <1>5
<1>6. CASE kind.sent = 4
    BY <1>1, <1>3, <1>6
<1>7. CASE kind.sent = 5
    BY <1>1, <1>3, <1>4, <1>7
<1>8. CASE kind.sent = 6
    BY <1>1, <1>3, <1>8
<1> QED
    BY <1>2, <1>5, <1>6, <1>7, <1>8

\* ORF_TLP1 drives the first word of a frame and takes len from it.
LEMMA ShowFirst ==
    ASSUME NEW id, NEW kind \in WireShapes, TwoOrThree(kind),
           tlp1 = TlpWord(id, 1, kind), OrfTlp1
    PROVE  /\ orfState' = "TLP2" /\ tvalid2' /\ ~tlast2'
           /\ len' = DwLen(kind)
           /\ beat2' = NetBeat(id, 1, kind)
<1>1. ShapeBeats(kind) \in {2, 3}
    BY BeatsOfShape
<1>2. beat2' = OrfBeat(TlpWord(id, 1, kind), "ff")
    BY DEF OrfTlp1
<1>3. OrfBeat(TlpWord(id, 1, kind), "ff") = NetBeat(id, 1, kind)
    BY <1>1 DEF OrfBeat, TlpWord, NetBeat
<1> QED
    BY <1>2, <1>3 DEF OrfTlp1, TlpWord

\* ORF_TLP2 drives the second word; it is the last one when len says so.
LEMMA ShowSecond ==
    ASSUME NEW id, NEW kind \in WireShapes, TwoOrThree(kind),
           tlp2 = TlpWord(id, 2, kind), len = DwLen(kind), OrfTlp2
    PROVE  /\ tvalid2' /\ len' = (DwLen(kind) - 2) % 1024
           /\ beat2' = NetBeat(id, 2, kind)
           /\ ShapeBeats(kind) = 2 => orfState' = "IDLE" /\ tlast2'
           /\ ShapeBeats(kind) = 3 => orfState' = "TLP3" /\ ~tlast2'
<1>1. /\ DwLen(kind) \in {0, 1023} <=> ShapeBeats(kind) = 2
      /\ DwLen(kind) = 1023 <=> kind.sent = 3
    BY Lens
<1>2. /\ ShapeBeats(kind) \in {2, 3} /\ kind.sent \in {3, 4, 5, 6}
      /\ ShapeBeats(kind) = 2 <=> kind.sent \in {3, 4}
    BY BeatsOfShape DEF TwoOrThree
<1>3. beat2' = OrfBeat(TlpWord(id, 2, kind), IF len = 1023 THEN "0f" ELSE "ff")
    BY DEF OrfTlp2, OrfNext
<1>4. (IF len = 1023 THEN "0f" ELSE "ff")
        = IF 2 = ShapeBeats(kind) /\ kind.sent % 2 = 1 THEN "0f" ELSE "ff"
    BY <1>1, <1>2
<1>5. \A keep : OrfBeat(TlpWord(id, 2, kind), keep)
        = [src |-> "tx2", id |-> id, n |-> 2, kind |-> kind, keep |-> keep]
    BY DEF OrfBeat, TlpWord
<1>6. beat2' = NetBeat(id, 2, kind)
    BY <1>3, <1>4, <1>5 DEF NetBeat
<1>7. /\ tvalid2' /\ len' = (len - 2) % 1024
      /\ tlast2' = OrfLast /\ orfState' = IF OrfLast THEN "IDLE" ELSE "TLP3"
    BY DEF OrfTlp2, OrfNext
<1>8. OrfLast <=> ShapeBeats(kind) = 2
    BY <1>1 DEF OrfLast
<1> QED
    BY <1>2, <1>6, <1>7, <1>8

\* ORF_TLP3 drives the third word of a frame that has one.
LEMMA ShowThird ==
    ASSUME NEW id, NEW kind \in WireShapes, TwoOrThree(kind),
           ShapeBeats(kind) = 3, tlp3 = TlpWord(id, 3, kind),
           len = (DwLen(kind) - 2) % 1024, OrfTlp3
    PROVE  /\ orfState' = "IDLE" /\ tvalid2' /\ tlast2'
           /\ beat2' = NetBeat(id, 3, kind)
<1>1. len \in {0, 1023} /\ (len = 1023 <=> kind.sent = 5)
    BY Lens
<1>2. kind.sent \in {5, 6}
    BY BeatsOfShape DEF TwoOrThree
<1>3. beat2' = OrfBeat(TlpWord(id, 3, kind), IF len = 1023 THEN "0f" ELSE "ff")
    BY DEF OrfTlp3, OrfNext
<1>4. (IF len = 1023 THEN "0f" ELSE "ff")
        = IF 3 = ShapeBeats(kind) /\ kind.sent % 2 = 1 THEN "0f" ELSE "ff"
    BY <1>1, <1>2
<1>5. \A keep : OrfBeat(TlpWord(id, 3, kind), keep)
        = [src |-> "tx2", id |-> id, n |-> 3, kind |-> kind, keep |-> keep]
    BY DEF OrfBeat, TlpWord
<1>6. beat2' = NetBeat(id, 3, kind)
    BY <1>3, <1>4, <1>5 DEF NetBeat
<1>7. tvalid2' /\ tlast2' = OrfLast /\ orfState' = "IDLE"
    BY DEF OrfTlp3, OrfNext
<1>8. OrfLast
    BY <1>1 DEF OrfLast
<1> QED
    BY <1>6, <1>7, <1>8

\* A core that is always ready takes a beat of port 2 ...
LEMMA TakeNet ==
    ASSUME GrantInv, tvalid2, CoreTake(TRUE), Len(out) < OutMax
    PROVE  /\ tlast2 => out' = <<>> /\ done' = Append(out, beat2)
           /\ ~tlast2 => out' = Append(out, beat2) /\ done' = <<>>
<1>1. ack2
    BY DEF GrantInv, Port2
<1> QED
    BY <1>1 DEF CoreTake, MuxOut

\* ... or one of port 1 ...
LEMMA TakeCpl ==
    ASSUME GrantInv, tvalid1, CoreTake(TRUE), Len(out) < OutMax
    PROVE  /\ tlast1 => out' = <<>> /\ done' = Append(out, beat1)
           /\ ~tlast1 => out' = Append(out, beat1) /\ done' = <<>>
<1>1. ~ack2
    BY DEF GrantInv, Port1
<1> QED
    BY <1>1 DEF CoreTake, MuxOut

\* ... or nothing, when none is shown.
LEMMA TakeNone ==
    ASSUME ~tvalid1, ~tvalid2, CoreTake(TRUE)
    PROVE  out' = out /\ done' = <<>>
    BY DEF CoreTake, MuxOut

\* Port 1: the core gets a header, and with the data a whole completion.
LEMMA CplTaken ==
    ASSUME GrantInv, ComplInv, OffInv, Types, CplInv, ShowInv, Port1Inv,
           ~tvalid2, CoreTake(TRUE), RxEngineClk(complDone),
           TxEngineClk(reqCompl, reqComplWd, reqTag, ack1, Ready1(TRUE))
    PROVE  /\ complDone' => out' = <<CplHeader(reqTag')>>
           /\ ~complDone' => out' = <<>>
           /\ done' = <<>> \/ (\E tag \in 0..(HostIds - 1) :
                                 done' = <<CplHeader(tag), CplData(tag, TRUE)>>)
<1>1. /\ complDone' <=> txState = "QW1"
      /\ tvalid1 <=> txState = "QW1" \/ complDone
  <2>1. complDone' <=> txState = "QW1"
    BY DEF TxEngineClk, TxRequest, TxRelease, TxFirst, TxTemp, TxLast,
           GrantInv, Port1, Ready1
  <2> QED
    BY <2>1 DEF OffInv
<1>2. orfState # "TLP3"
    BY DEF ShowInv
<1>3. CASE complDone
  <2>1. txState = "RST" /\ tvalid1 /\ tlast1 /\ beat1 = CplData(reqTag, TRUE)
    BY <1>1, <1>3 DEF ComplInv, Exclusive, CplInv
  <2>2. out = <<CplHeader(reqTag)>>
    BY <1>3 DEF ShowInv
  <2>3. Len(out) < OutMax /\ Append(out, beat1) = <<CplHeader(reqTag), beat1>>
    <3>1. /\ Len(<<CplHeader(reqTag)>>) = 1
          /\ Append(<<CplHeader(reqTag)>>, beat1) = <<CplHeader(reqTag), beat1>>
      BY Appends, Zenon
    <3> QED
      BY <2>2, <3>1 DEF OutMax
  <2>4. out' = <<>> /\ done' = <<CplHeader(reqTag), CplData(reqTag, TRUE)>>
    BY <2>1, <2>3, TakeCpl
  <2>5. reqTag \in 0..(HostIds - 1)
    BY DEF Types, RxTypes
  <2> QED
    BY <1>1, <2>1, <2>4, <2>5
<1>4. CASE ~complDone /\ txState = "QW1"
  <2>1. tvalid1 /\ ~tlast1 /\ beat1 = CplHeader(reqTag) /\ complBusy
    BY <1>1, <1>4 DEF ComplInv, CplInv
  <2>2. complDone'
    BY <1>1, <1>4
  <2>3. reqTag' = reqTag
    BY <2>1, TagStays DEF ComplInv, Held
  <2>4. out = <<>>
    BY <1>2, <1>4 DEF ShowInv
  <2>5. Len(out) < OutMax /\ Append(out, beat1) = <<beat1>>
    BY <2>4, Appends DEF OutMax
  <2>6. out' = <<CplHeader(reqTag)>> /\ done' = <<>>
    BY <2>1, <2>5, TakeCpl
  <2> QED
    BY <2>2, <2>3, <2>6
<1>5. CASE ~complDone /\ txState # "QW1"
  <2>1. ~tvalid1 /\ ~complDone'
    BY <1>1, <1>5
  <2>2. out = <<>>
    BY <1>2, <1>5 DEF ShowInv
  <2> QED
    BY <2>1, <2>2, TakeNone
<1> QED
    BY <1>3, <1>4, <1>5

\* The pending TLP stays in the buffer up to TLP1.
LEMMA Phases ==
    ASSUME GrantInv, Types, PipeInv, OrfClk(ack2), UNCHANGED xrVars
    PROVE  /\ Unread /\ orfState # "TLP1" =>
                /\ Unread' /\ ~tvalid2'
                /\ orfState' \notin {"TLP2", "TLP3"}
           /\ ~Pending => ~Pending' /\ ~tvalid2' /\ orfState' = "IDLE"
           /\ ~InPipe => ~InPipe'
           /\ orfState = "IDLE" => ~tvalid2' /\ orfState' \in {"IDLE", "ACK"}
           /\ orfState \in OrfStates
<1>1. /\ prevEnd'[1] <=> frameEnd
      /\ prevEnd'[2] <=> prevEnd[1]
      /\ prevEnd'[3] <=> prevEnd[2]
      /\ prevEnd'[4] <=> prevEnd[3]
      /\ FrameSeen <=> ~prevEnd[1] /\ ~prevEnd[2] /\ ~prevEnd[3] /\ prevEnd[4]
      /\ frameEnd' = frameEnd
    BY PipeShift, SeenBits DEF Types, xrVars
<1>2. /\ orfState = "IDLE" => /\ orfState' = IF FrameSeen THEN "ACK"
                                                          ELSE "IDLE"
                              /\ ~tvalid2'
      /\ orfState = "ACK" => /\ orfState' = IF ack2 THEN "TLP1" ELSE "ACK"
                             /\ tvalid2' = tvalid2
      /\ orfState \in OrfStates
    BY OrfMoves DEF GrantInv, GrantTypes, Types
<1>3. ~InPipe => ~InPipe' /\ ~FrameSeen
    BY <1>1 DEF InPipe
<1>4. InPipe /\ ~FrameSeen => InPipe'
    BY <1>1 DEF InPipe
<1> QED
    BY <1>2, <1>3, <1>4 DEF PipeInv, Unread, Pending

\* While port 2 has the bus no completion is shown or finished.
LEMMA NoCompletion ==
    ASSUME GrantInv, OffInv, ack2,
           TxEngineClk(reqCompl, reqComplWd, reqTag, ack1, Ready1(TRUE))
    PROVE  ~complDone /\ ~complDone'
<1>1. ~tvalid1 /\ txState # "QW1"
    BY DEF GrantInv, Port1
<1>2. ~complDone
    BY <1>1 DEF OffInv
<1> QED
    BY <1>1, <1>2 DEF TxEngineClk, TxRequest, TxRelease, TxFirst, TxTemp,
                      TxLast

\* A TLP was finished at this edge, or none of port 2 was.
NetDone ==
    /\ Pending /\ ~Pending'
    /\ done' = FrameTlp(PendId, PendKind)
    /\ done' # <<>>
    /\ done'[1].src = "tx2" /\ done'[1].id = PendId

NoNetDone ==
    /\ Pending' <=> Pending
    /\ Pending' => PendId' = PendId
    /\ done' # <<>> => done'[1].src = "tx1"

\* An edge of clk before port 2 shows anything.
LEMMA ContentWaits ==
    ASSUME GrantInv, ComplInv, OffInv, Types, Port1Inv, PipeInv, CplInv,
           WordsInv, ShowInv, OrfClk(ack2), CoreTake(TRUE), UNCHANGED xrVars,
           TxEngineClk(reqCompl, reqComplWd, reqTag, ack1, Ready1(TRUE)),
           RxEngineClk(complDone), ~tvalid2
    PROVE  WordsInv' /\ ShowInv' /\ DoneInv' /\ NoNetDone
<1>1. /\ complDone' => out' = <<CplHeader(reqTag')>>
      /\ ~complDone' => out' = <<>>
      /\ done' = <<>> \/ (\E tag \in 0..(HostIds - 1) :
                            done' = <<CplHeader(tag), CplData(tag, TRUE)>>)
    BY CplTaken
<1>2. DoneInv' /\ (done' # <<>> => done'[1].src = "tx1")
  <2>1. \A tag : <<CplHeader(tag), CplData(tag, TRUE)>>[1].src = "tx1"
    BY DEF CplHeader
  <2> QED
    BY <1>1, <2>1 DEF DoneInv
<1>3. /\ Unread /\ orfState # "TLP1" =>
           /\ Unread' /\ ~tvalid2'
           /\ orfState' \notin {"TLP2", "TLP3"}
      /\ ~Pending => ~Pending' /\ ~tvalid2' /\ orfState' = "IDLE"
      /\ ~InPipe => ~InPipe'
      /\ orfState \in OrfStates
    BY Phases
<1>4. tlp1' = tlp1 /\ tlp2' = tlp2 /\ tlp3' = tlp3
    BY DEF xrVars
<1>5. CASE ~Pending
  <2>1. ~Unread'
    BY <1>3, <1>5 DEF Pending, Unread
  <2> QED
    BY <1>1, <1>2, <1>3, <1>5, <2>1 DEF WordsInv, ShowInv, NoNetDone
<1>6. CASE Unread /\ orfState # "TLP1"
  <2>1. Pending /\ Pending' /\ Unread'
    BY <1>3, <1>6 DEF Pending, Unread
  <2>2. PendId' = PendId /\ PendKind' = PendKind
    BY <1>4, <1>6, <2>1 DEF PendId, PendKind
  <2>3. WordsInv'
    BY <1>3, <1>4, <1>6, <2>1, <2>2 DEF WordsInv
  <2>4. ShowInv'
    BY <1>1, <1>3, <1>6 DEF ShowInv
  <2> QED
    BY <1>2, <2>1, <2>2, <2>3, <2>4 DEF NoNetDone
<1>7. CASE orfState = "TLP1"
  <2>1. /\ Pending /\ Unread /\ PendId = tlp1.id /\ PendKind = tlp1.kind
        /\ PendKind \in WireShapes /\ TwoOrThree(PendKind)
        /\ tlp1 = TlpWord(PendId, 1, PendKind)
        /\ tlp2 = TlpWord(PendId, 2, PendKind)
        /\ ShapeBeats(PendKind) = 3 => tlp3 = TlpWord(PendId, 3, PendKind)
    BY <1>7 DEF Pending, Unread, PendId, PendKind, WordsInv
  <2>2. OrfTlp1
    BY <1>7 DEF OrfClk, OrfIdle, OrfAck, OrfTlp2, OrfTlp3
  <2>3. /\ orfState' = "TLP2" /\ tvalid2' /\ ~tlast2'
        /\ len' = DwLen(PendKind)
        /\ beat2' = NetBeat(PendId, 1, PendKind)
    BY <2>1, <2>2, ShowFirst
  <2>4. ~InPipe' /\ ~Unread' /\ Pending'
    BY <1>3, <1>7, <2>3 DEF PipeInv, Unread, Pending
  <2>5. PendId' = PendId /\ PendKind' = PendKind
    BY <2>3, <2>4 DEF PendId, PendKind, NetBeat
  <2>6. out' = <<>>
    BY <1>1, <1>7, NoCompletion DEF GrantInv, Port2
  <2>7. WordsInv'
    BY <1>4, <2>1, <2>3, <2>4, <2>5 DEF WordsInv
  <2>8. ShowInv'
    <3>1. ~complDone'
      BY <1>7, NoCompletion DEF GrantInv, Port2
    <3> QED
      BY <2>3, <2>5, <2>6, <3>1 DEF ShowInv
  <2> QED
    BY <1>2, <2>1, <2>4, <2>5, <2>7, <2>8 DEF NoNetDone
<1> QED
    BY <1>3, <1>5, <1>6, <1>7 DEF Pending, Unread, OrfStates, ShowInv

\* An edge of clk that takes a beat of port 2.
LEMMA ContentShows ==
    ASSUME GrantInv, ComplInv, OffInv, Types, PipeInv, WordsInv, ShowInv,
           OrfClk(ack2), CoreTake(TRUE), UNCHANGED xrVars,
           TxEngineClk(reqCompl, reqComplWd, reqTag, ack1, Ready1(TRUE)),
           tvalid2
    PROVE  WordsInv' /\ ShowInv' /\ DoneInv' /\ (NetDone \/ NoNetDone)
<1>1. ~complDone /\ ~complDone'
    BY NoCompletion DEF GrantInv, Port2
<1>2. /\ ~InPipe /\ ~InPipe' /\ ~Unread /\ Pending
      /\ orfState \in {"IDLE", "TLP2", "TLP3"}
      /\ orfState = "IDLE" => ~tvalid2' /\ orfState' \in {"IDLE", "ACK"}
    BY Phases DEF PipeInv, Unread, Pending, OrfStates
<1>3. tlp1' = tlp1 /\ tlp2' = tlp2 /\ tlp3' = tlp3
    BY DEF xrVars
<1>4. PendKind \in WireShapes /\ TwoOrThree(PendKind)
    BY <1>2 DEF WordsInv
<1>5. ShapeBeats(PendKind) \in {2, 3}
    BY <1>4, BeatsOfShape
<1> DEFINE B(n) == NetBeat(PendId, n, PendKind)
<1>6. /\ Append(<<>>, B(1)) = <<B(1)>> /\ Len(<<>>) = 0
      /\ Append(<<B(1)>>, B(2)) = <<B(1), B(2)>> /\ Len(<<B(1)>>) = 1
      /\ Append(<<B(1), B(2)>>, B(3)) = <<B(1), B(2), B(3)>>
      /\ Len(<<B(1), B(2)>>) = 2
    BY Appends, Zenon
<1>7. \A n : B(n).id = PendId /\ B(n).kind = PendKind /\ B(n).src = "tx2"
    BY DEF NetBeat
<1>8. ~Unread' /\ beat2' \in {B(2), B(3)}
        => PendId' = PendId /\ PendKind' = PendKind
    BY <1>7 DEF PendId, PendKind
<1> HIDE DEF B
<1>9. CASE orfState = "TLP2"
  <2>1. /\ ~tlast2 /\ len = DwLen(PendKind) /\ beat2 = B(1) /\ out = <<>>
        /\ tlp2 = TlpWord(PendId, 2, PendKind)
        /\ ShapeBeats(PendKind) = 3 => tlp3 = TlpWord(PendId, 3, PendKind)
    BY <1>9 DEF ShowInv, WordsInv, B
  <2>2. OrfTlp2
    BY <1>9 DEF OrfClk, OrfIdle, OrfAck, OrfTlp1, OrfTlp3
  <2>3. /\ tvalid2' /\ len' = (DwLen(PendKind) - 2) % 1024
        /\ beat2' = B(2)
        /\ ShapeBeats(PendKind) = 2 => orfState' = "IDLE" /\ tlast2'
        /\ ShapeBeats(PendKind) = 3 => orfState' = "TLP3" /\ ~tlast2'
    BY <1>4, <2>1, <2>2, ShowSecond DEF B
  <2>4. out' = <<B(1)>> /\ done' = <<>>
    <3>1. Len(out) < OutMax
      BY <1>6, <2>1 DEF OutMax
    <3>2. Append(out, beat2) = <<B(1)>>
      BY <1>6, <2>1, Zenon
    <3> QED
      BY <2>1, <3>1, <3>2, TakeNet, Zenon
  <2>5. ~Unread' /\ Pending' /\ PendId' = PendId /\ PendKind' = PendKind
    BY <1>2, <1>5, <1>8, <2>3 DEF Unread, Pending
  <2>6. WordsInv'
    BY <1>3, <1>4, <1>5, <2>1, <2>3, <2>5 DEF WordsInv
  <2>7. ShowInv'
    <3>1. CASE ShapeBeats(PendKind) = 2
      BY <1>1, <2>3, <2>4, <2>5, <3>1 DEF ShowInv, B
    <3>2. CASE ShapeBeats(PendKind) = 3
      BY <1>1, <2>3, <2>4, <2>5, <3>2 DEF ShowInv, B
    <3> QED
      BY <1>5, <3>1, <3>2
  <2> QED
    BY <1>2, <2>4, <2>5, <2>6, <2>7 DEF DoneInv, NoNetDone
<1>10. CASE orfState = "TLP3"
  <2>1. /\ ~tlast2 /\ len = (DwLen(PendKind) - 2) % 1024
        /\ ShapeBeats(PendKind) = 3 /\ beat2 = B(2) /\ out = <<B(1)>>
        /\ tlp3 = TlpWord(PendId, 3, PendKind)
    BY <1>10 DEF ShowInv, WordsInv, B
  <2>2. OrfTlp3
    BY <1>10 DEF OrfClk, OrfIdle, OrfAck, OrfTlp1, OrfTlp2
  <2>3. orfState' = "IDLE" /\ tvalid2' /\ tlast2' /\ beat2' = B(3)
    BY <1>4, <2>1, <2>2, ShowThird DEF B
  <2>4. out' = <<B(1), B(2)>> /\ done' = <<>>
    <3>1. Len(out) < OutMax
      BY <1>6, <2>1 DEF OutMax
    <3>2. Append(out, beat2) = <<B(1), B(2)>>
      BY <1>6, <2>1, Zenon
    <3> QED
      BY <2>1, <3>1, <3>2, TakeNet, Zenon
  <2>5. ~Unread' /\ Pending' /\ PendId' = PendId /\ PendKind' = PendKind
    BY <1>2, <1>8, <2>3 DEF Unread, Pending
  <2>6. WordsInv'
    BY <1>4, <2>3, <2>5 DEF WordsInv
  <2>7. ShowInv'
    BY <1>1, <2>1, <2>3, <2>4, <2>5 DEF ShowInv, B
  <2> QED
    BY <1>2, <2>4, <2>5, <2>6, <2>7 DEF DoneInv, NoNetDone
<1>11. CASE orfState = "IDLE"
  <2>1. /\ tlast2 /\ beat2 = B(ShapeBeats(PendKind))
        /\ ShapeBeats(PendKind) = 2 => out = <<B(1)>>
        /\ ShapeBeats(PendKind) = 3 => out = <<B(1), B(2)>>
    BY <1>11 DEF ShowInv, B
  <2>2. /\ FrameTlp(PendId, PendKind)[1] = B(1)
        /\ FrameTlp(PendId, PendKind) # <<>>
        /\ ShapeBeats(PendKind) = 2
             => FrameTlp(PendId, PendKind) = <<B(1), B(2)>>
        /\ ShapeBeats(PendKind) = 3
             => FrameTlp(PendId, PendKind) = <<B(1), B(2), B(3)>>
    BY <1>4, FrameTlpBeats DEF B
  <2>3. out' = <<>> /\ done' = FrameTlp(PendId, PendKind)
    <3>1. CASE ShapeBeats(PendKind) = 2
      <4>1. Len(out) < OutMax
        BY <1>6, <2>1, <3>1 DEF OutMax
      <4>2. Append(out, beat2) = <<B(1), B(2)>>
        BY <1>6, <2>1, <3>1, Zenon
      <4> QED
        BY <2>1, <2>2, <3>1, <4>1, <4>2, TakeNet, Zenon
    <3>2. CASE ShapeBeats(PendKind) = 3
      <4>1. out = <<B(1), B(2)>> /\ beat2 = B(3)
        BY <2>1, <3>2
      <4>2. Len(out) = 2
        BY <1>6, <4>1, Zenon
      <4>3. Len(out) < OutMax
        BY <4>2 DEF OutMax
      <4>4. Append(out, beat2) = <<B(1), B(2), B(3)>>
        BY <1>6, <4>1, Zenon
      <4> QED
        BY <2>1, <2>2, <3>2, <4>3, <4>4, TakeNet, Zenon
    <3> QED
      BY <1>5, <3>1, <3>2
  <2>4. /\ done' # <<>> /\ done'[1].src = "tx2"
        /\ done'[1].id = PendId /\ done'[1].kind = PendKind
    BY <1>7, <2>2, <2>3
  <2>5. /\ ~tvalid2' /\ orfState' = "IDLE"
    BY <1>2, <1>11, SeenBits DEF OrfClk, OrfIdle, OrfAck, OrfTlp1, OrfTlp2,
                                 OrfTlp3, InPipe, Types
  <2>6. ~Pending' /\ ~Unread'
    BY <1>2, <2>5 DEF Pending, Unread
  <2>7. DoneInv'
    BY <2>3, <2>4 DEF DoneInv
  <2>8. WordsInv' /\ ShowInv'
    BY <1>1, <2>3, <2>5, <2>6 DEF WordsInv, ShowInv
  <2> QED
    BY <1>2, <2>3, <2>4, <2>6, <2>7, <2>8 DEF NetDone
<1> QED
    BY <1>2, <1>9, <1>10, <1>11

\* The words the recogniser captures.
LEMMA CapturedWord ==
    ASSUME WireInv
    PROVE  /\ xrState = "TLP1" => WireWord = TlpWord(wireId, 1, wireKind)
           /\ xrState = "TLP2" => WireWord = TlpWord(wireId, 2, wireKind)
           /\ xrState = "TLP3" /\ ShapeBeats(wireKind) = 3
                => WireWord = TlpWord(wireId, 3, wireKind)
           /\ xrState \in {"TLP1", "TLP2", "TLP3"}
                => /\ wirePos \in 8..10 /\ Own
                   /\ wireKind \in WireShapes /\ TwoOrThree(wireKind)
<1>1. xrState \in {"TLP1", "TLP2", "TLP3"}
        => /\ wirePos \in 8..10 /\ Own
           /\ wireKind \in WireShapes /\ TwoOrThree(wireKind)
    BY DEF WireInv, FrameShape
<1>2. xrState \in {"TLP1", "TLP2", "TLP3"} => ShapeBeats(wireKind) \in {2, 3}
    BY <1>1, BeatsOfShape
<1>3. /\ xrState = "TLP1" => wirePos = 8
      /\ xrState = "TLP2" => wirePos = 9
      /\ xrState = "TLP3" => wirePos = 10
    BY DEF WireInv
<1>4. xrState = "TLP1" => WireWord = TlpWord(wireId, 1, wireKind)
    BY <1>2, <1>3 DEF WireWord, FirstTlp, FirstHdr, LastHdr
<1>5. xrState = "TLP2" => WireWord = TlpWord(wireId, 2, wireKind)
    BY <1>2, <1>3 DEF WireWord, FirstTlp, FirstHdr, LastHdr
<1>6. xrState = "TLP3" /\ ShapeBeats(wireKind) = 3
        => WireWord = TlpWord(wireId, 3, wireKind)
    BY <1>3 DEF WireWord, FirstTlp, FirstHdr, LastHdr
<1> QED
    BY <1>1, <1>4, <1>5, <1>6

\* A frame ended at this edge of xgmii_clk, or none did.
FrameOver ==
    /\ xrState = "TLP3" /\ ~Pending
    /\ Pending' /\ PendId' = wireId

NoFrameOver ==
    /\ xrState # "TLP3"
    /\ Pending' <=> Pending
    /\ Pending => PendId' = PendId

\* The next frame does not touch the words of the pending TLP.
LEMMA ContentXgmii ==
    ASSUME Types, WireInv, PipeInv, PipeInv', InTime, WordsInv, ArriveInv,
           ShowInv, XgmiiEdge
    PROVE  WordsInv' /\ ArriveInv' /\ ShowInv' /\ (FrameOver \/ NoFrameOver)
<1>1. /\ lag >= 8 /\ XgmiiRxWord(WireWord)
      /\ WireQuiet \/ WireStart \/ WireNext
    BY DEF XgmiiEdge
<1>2. /\ prevEnd' = prevEnd /\ orfState' = orfState /\ tvalid2' = tvalid2
      /\ beat2' = beat2 /\ tlast2' = tlast2 /\ len' = len /\ out' = out
      /\ complDone' = complDone /\ reqTag' = reqTag
    BY DEF XgmiiEdge, clkVars, orfVars, coreVars, txEngineVars, rxEngineVars
<1>3. xrState \in {"TLP1", "TLP2", "TLP3"}
        => wireId' = wireId /\ wireKind' = wireKind
    BY <1>1, CapturedWord DEF WireQuiet, WireStart, WireNext
<1>4. xrState # "TLP3" => (InPipe' <=> InPipe) /\ frameEnd' = FALSE
  <2>1. frameEnd => prevEnd[1]
    BY <1>1 DEF PipeInv, Types
  <2>2. xrState # "TLP3" => frameEnd' = FALSE
    BY <1>1 DEF XgmiiRxWord, XrIdle, XrHead, XrTlp1, XrTlp2, XrTlp3
  <2> QED
    BY <1>2, <2>1, <2>2 DEF InPipe
<1>5. ~Unread /\ ~Unread' => PendId' = PendId /\ PendKind' = PendKind
    BY <1>2 DEF PendId, PendKind
<1>6. ShowInv'
  <2>1. /\ orfState \in {"TLP2", "TLP3"} => ~Unread /\ ~Unread'
        /\ tvalid2 => ~Unread /\ ~Unread'
    BY <1>2 DEF Unread, PipeInv
  <2> QED
    BY <1>2, <1>5, <2>1 DEF ShowInv
<1>7. CASE xrState \in {"IDLE", "HEAD"}
  <2>1. /\ tlp1' = tlp1 /\ tlp2' = tlp2 /\ tlp3' = tlp3
        /\ xrState' \notin {"TLP2", "TLP3"}
    BY <1>1, <1>7 DEF XgmiiRxWord, XrIdle, XrHead, XrTlp1, XrTlp2, XrTlp3
  <2>2. (Unread' <=> Unread) /\ (Pending' <=> Pending)
    BY <1>2, <1>4, <1>7 DEF Unread, Pending
  <2>3. PendId' = PendId /\ PendKind' = PendKind
    BY <1>2, <2>1, <2>2 DEF PendId, PendKind
  <2>4. WordsInv' /\ ArriveInv'
    BY <1>2, <2>1, <2>2, <2>3 DEF WordsInv, ArriveInv
  <2> QED
    BY <1>6, <1>7, <2>2, <2>3, <2>4 DEF NoFrameOver
<1>8. CASE xrState \in {"TLP1", "TLP2"}
  <2>1. /\ ~Unread /\ ~Unread'
        /\ xrState = "TLP2" => orfState # "TLP2"
        /\ Pending' <=> Pending
    <3>1. ~Unread /\ ~InPipe /\ (xrState = "TLP2" => orfState # "TLP2")
      BY <1>1, <1>8, AheadOfWire DEF Pending, Unread
    <3> QED
      BY <1>2, <1>4, <1>8, <3>1 DEF Unread, Pending
  <2>2. /\ tlp3' = tlp3
        /\ xrState = "TLP1" => /\ tlp1' = WireWord /\ tlp2' = tlp2
                               /\ xrState' = "TLP2"
        /\ xrState = "TLP2" => /\ tlp1' = tlp1 /\ tlp2' = WireWord
                               /\ xrState' = "TLP3"
    BY <1>1, <1>8 DEF XgmiiRxWord, XrIdle, XrHead, XrTlp1, XrTlp2, XrTlp3
  <2>3. WordsInv'
    BY <1>2, <1>5, <1>8, <2>1, <2>2 DEF WordsInv
  <2>4. ArriveInv'
    BY <1>3, <1>8, <2>2, CapturedWord DEF ArriveInv
  <2> QED
    BY <1>5, <1>6, <1>8, <2>1, <2>3, <2>4 DEF NoFrameOver
<1>9. CASE xrState = "TLP3"
  <2>1. ~Pending
    BY <1>1, <1>9, AheadOfWire
  <2>2. /\ frameEnd' = TRUE /\ xrState' = "IDLE"
        /\ tlp1' = tlp1 /\ tlp2' = tlp2 /\ tlp3' = WireWord
    BY <1>1, <1>9 DEF XgmiiRxWord, XrIdle, XrHead, XrTlp1, XrTlp2, XrTlp3
  <2>3. Pending' /\ Unread'
    BY <2>2 DEF Pending, Unread, InPipe
  <2>4. /\ tlp1 = TlpWord(wireId, 1, wireKind)
        /\ tlp2 = TlpWord(wireId, 2, wireKind)
    BY <1>9 DEF ArriveInv
  <2>5. PendId' = wireId /\ PendKind' = wireKind
    BY <2>2, <2>3, <2>4 DEF PendId, PendKind, TlpWord
  <2>6. WordsInv'
    BY <1>2, <1>9, <2>2, <2>3, <2>4, <2>5, CapturedWord DEF WordsInv
  <2>7. ArriveInv'
    BY <2>2 DEF ArriveInv
  <2> QED
    BY <1>6, <1>9, <2>1, <2>3, <2>5, <2>6, <2>7 DEF FrameOver
<1> QED
    BY <1>7, <1>8, <1>9 DEF Types, XrTypes, XrStates

Content == WordsInv /\ ArriveInv /\ ShowInv /\ DoneInv

\* What the proofs above have shown of every state.
Base ==
    /\ GrantInv /\ ComplInv /\ OffInv /\ BusInv /\ Types
    /\ WireInv /\ CplInv /\ TimeInv

\* Types and the invariants the order argument starts from hold always.
LEMMA BaseInvariant == ASSUME Sender PROVE Spec => []Base
<1>1. RxInv => BusInv
    BY DEF RxInv
<1>2. /\ GrantInv /\ ComplInv /\ OffInv /\ BusInv /\ Types
      /\ WireInv /\ CplInv /\ TimeInv
      => Base
    BY DEF Base
<1> QED
    BY <1>1, <1>2, GrantInvariant, ComplInvariant, OffInvariant, RxInvariant,
       TypesInvariant, WireInvariant, CplInvariant, TimeInvariant, PTL

\* An edge of clk on a core that is ready.
LEMMA ContentClk ==
    ASSUME Base, ~Throttle, Content, ClkEdge
    PROVE  Content' /\ (NetDone \/ NoNetDone)
<1>1. /\ TxEngineClk(reqCompl, reqComplWd, reqTag, ack1, Ready1(TRUE))
      /\ OrfClk(ack2) /\ CoreTake(TRUE) /\ RxEngineClk(complDone)
      /\ UNCHANGED xrVars /\ UNCHANGED wireVars
    BY ReadyEdge
<1>2. /\ GrantInv /\ ComplInv /\ OffInv /\ Types /\ CplInv
      /\ Port1Inv /\ PipeInv /\ WordsInv /\ ArriveInv /\ ShowInv
      /\ tvalid2 \in BOOLEAN
    BY DEF Base, TimeInv, Content, GrantInv, GrantTypes
<1>3. ArriveInv'
    BY <1>1, <1>2 DEF ArriveInv, xrVars, wireVars
<1>4. CASE tvalid2
    BY <1>1, <1>2, <1>3, <1>4, ContentShows DEF Content
<1>5. CASE ~tvalid2
    BY <1>1, <1>2, <1>3, <1>5, ContentWaits DEF Content
<1> QED
    BY <1>4, <1>5

\* An edge of xgmii_clk.
LEMMA ContentWire ==
    ASSUME Base, Base', ~Throttle, ~Throttle', Content, XgmiiEdge
    PROVE  Content' /\ (FrameOver \/ NoFrameOver)
<1>1. PipeInv /\ PipeInv' /\ InTime /\ Types /\ WireInv
    BY DEF Base, TimeInv
<1>2. DoneInv'
    BY DEF XgmiiEdge, clkVars, coreVars, Content, DoneInv
<1> QED
    BY <1>1, <1>2, ContentXgmii DEF Content

\* On a core that takes every beat at once contents are kept.
LEMMA ContentInvariant ==
    ASSUME Sender PROVE Spec => [](~Throttle => Content)
<1>1. Init => Content
  <2> SUFFICES ASSUME Init PROVE Content
    OBVIOUS
  <2>1. /\ orfState = "IDLE" /\ ~tvalid2 /\ ~frameEnd /\ xrState = "IDLE"
        /\ ~prevEnd[1] /\ ~prevEnd[2] /\ ~prevEnd[3] /\ ~prevEnd[4]
        /\ ~complDone /\ out = <<>> /\ done = <<>>
    BY DEF Init, OrfInit, XgmiiRxInit, TxEngineInit
  <2>2. ~Pending /\ ~Unread
    BY <2>1 DEF Pending, Unread, InPipe
  <2> QED
    BY <2>1, <2>2 DEF Content, WordsInv, ArriveInv, ShowInv, DoneInv
<1>2. Base /\ Base' /\ (~Throttle => Content) /\ [Next]_vars
        => (~Throttle => Content)'
  <2> SUFFICES ASSUME Base, Base', ~Throttle, ~Throttle', Content, [Next]_vars
               PROVE  Content'
    BY LoadStays DEF Throttle
  <2>1. CASE ClkEdge
    BY <2>1, ContentClk
  <2>2. CASE XgmiiEdge
    BY <2>2, ContentWire
  <2>3. CASE UNCHANGED vars
    <3>1. /\ UNCHANGED <<xrState, tlp1, tlp2, tlp3, wireId, wireKind>>
          /\ UNCHANGED <<orfState, tvalid2, tlast2, beat2, len>>
          /\ UNCHANGED <<complDone, reqTag, out, done>>
          /\ UNCHANGED <<frameEnd, prevEnd>>
      BY <2>3 DEF vars, clkVars, xrVars, wireVars, orfVars, txEngineVars,
                  rxEngineVars, coreVars
    <3>2. /\ (Pending' <=> Pending) /\ (Unread' <=> Unread)
          /\ PendId' = PendId /\ PendKind' = PendKind
      BY <3>1 DEF Pending, Unread, InPipe, PendId, PendKind
    <3>3. WordsInv' /\ ArriveInv' /\ DoneInv'
      BY <3>1, <3>2 DEF Content, WordsInv, ArriveInv, DoneInv
    <3>4. ShowInv'
      BY <3>1, <3>2 DEF Content, ShowInv
    <3> QED
      BY <3>3, <3>4 DEF Content
  <2> QED
    BY <2>1, <2>2, <2>3 DEF Next
<1> QED
    BY <1>1, <1>2, BaseInvariant, PTL DEF Spec

(***************************************************************************)
(* Every TLP handed to a core that takes each beat at once is whole: a     *)
(* completion of one read, or all beats of one frame in order with the     *)
(* right strobes.  No frame overwrites tlp1, tlp2 or tlp3 before they are  *)
(* read, whatever the completions do on port 1 meanwhile.                  *)
(***************************************************************************)
THEOREM TlpsAreWhole == ASSUME Sender PROVE Spec => []TlpIntact
<1>1. (~Throttle => Content) => TlpIntact
  <2> SUFFICES ASSUME DoneInv, done # <<>>
               PROVE  IF done[1].src = "tx1"
                        THEN done = <<CplHeader(done[1].id),
                                      CplData(done[1].id, TRUE)>>
                        ELSE done = FrameTlp(done[1].id, done[1].kind)
    BY DEF TlpIntact, Content
  <2>1. ASSUME NEW tag, done = <<CplHeader(tag), CplData(tag, TRUE)>>
        PROVE  done[1].src = "tx1" /\ done[1].id = tag
    BY <2>1 DEF CplHeader
  <2> QED
    BY <2>1 DEF DoneInv
<1> QED
    BY <1>1, ContentInvariant, PTL

-----------------------------------------------------------------------------
(***************************************************************************)
(* Order.                                                                  *)
(***************************************************************************)
Succ(i) == (i + 1) % FrameIds

\* The last network TLP that has reached the core.
LastId == IF done # <<>> /\ done[1].src = "tx2" THEN done[1].id ELSE served

\* The last one whose frame is over, pending or not.
HeadId == IF Pending THEN Succ(LastId) ELSE LastId

Coming == Own /\ wirePos \in 1..10

OrderInv ==
    /\ Pending => PendId = Succ(LastId)
    /\ wireId = IF Coming THEN Succ(HeadId) ELSE HeadId
    /\ InOrder

\* The order of two frames in flight.
LEMMA OrderClk ==
    ASSUME Base, ~Throttle, Content, OrderInv, ClkEdge
    PROVE  OrderInv'
<1>1. CoreTake(TRUE) /\ UNCHANGED wireVars
    BY ReadyEdge
<1>2. served' = LastId
    BY <1>1 DEF CoreTake, LastId
<1>3. wireId' = wireId /\ (Coming' <=> Coming)
    BY <1>1 DEF wireVars, Coming, Own
<1>4. CASE NetDone
  <2>1. LastId' = PendId /\ PendId = Succ(LastId) /\ ~Pending' /\ Pending
    BY <1>4 DEF NetDone, LastId, OrderInv
  <2>2. HeadId' = HeadId
    BY <2>1 DEF HeadId
  <2>3. InOrder'
    BY <1>2, <1>4, <2>1 DEF NetDone, InOrder, Succ
  <2> QED
    BY <1>3, <2>1, <2>2, <2>3 DEF OrderInv
<1>5. CASE NoNetDone
  <2>1. LastId' = LastId /\ InOrder'
    BY <1>2, <1>5 DEF NoNetDone, LastId, InOrder
  <2>2. HeadId' = HeadId
    BY <1>5, <2>1 DEF HeadId, NoNetDone, Succ
  <2> QED
    BY <1>3, <1>5, <2>1, <2>2 DEF OrderInv, NoNetDone, Succ
<1> QED
    BY <1>4, <1>5, ContentClk

\* A new frame queues up behind the pending one.
LEMMA OrderWire ==
    ASSUME Base, Base', ~Throttle, ~Throttle', Content, OrderInv, XgmiiEdge
    PROVE  OrderInv'
<1>1. LastId' = LastId /\ InOrder'
    BY DEF XgmiiEdge, clkVars, coreVars, LastId, OrderInv, InOrder
<1>2. WireQuiet \/ WireStart \/ WireNext
    BY DEF XgmiiEdge
<1>3. wirePos \in Nat
    BY DEF Base, WireInv, FrameShape
<1>4. wirePos > 0 => ShapeBeats(wireKind) \in {2, 3}
    BY BeatsOfShape DEF Base, WireInv, FrameShape
<1>5. CASE FrameOver
  <2>1. wirePos = 10 /\ Own /\ Coming /\ ~Pending
    BY <1>5 DEF FrameOver, Base, WireInv, Coming
  <2>2. wireId' = wireId /\ ~Coming'
    BY <1>2, <1>4, <2>1 DEF WireQuiet, WireStart, WireNext, Coming, Own
  <2>3. wireId = Succ(LastId)
    BY <2>1 DEF OrderInv, HeadId
  <2>4. HeadId' = Succ(LastId)
    BY <1>1, <1>5 DEF FrameOver, HeadId, Succ
  <2> QED
    BY <1>1, <1>5, <2>2, <2>3, <2>4 DEF OrderInv, FrameOver, Succ
<1>6. CASE NoFrameOver
  <2>1. HeadId' = HeadId
    BY <1>1, <1>6 DEF HeadId, NoFrameOver, Succ
  <2>2. Pending' => PendId' = Succ(LastId)'
    BY <1>1, <1>6 DEF NoFrameOver, OrderInv, Succ
  <2>3. wireId' = IF Coming' THEN Succ(HeadId') ELSE HeadId'
    <3>1. CASE WireQuiet
      BY <2>1, <3>1 DEF WireQuiet, OrderInv, Coming
    <3>2. CASE WireStart
      <4>1. ~Coming /\ wireId = HeadId
        BY <3>2 DEF WireStart, OrderInv, Coming
      <4>2. /\ Coming' <=> wireBad' = Ours
            /\ wireId' = IF wireBad' = Ours THEN Succ(wireId) ELSE wireId
        BY <3>2 DEF WireStart, Coming, Own, Succ
      <4> QED
        BY <2>1, <4>1, <4>2
    <3>3. CASE WireNext
      <4>1. ~(Own /\ wirePos = 10)
        BY <1>6 DEF NoFrameOver, Base, WireInv, HeadInv, Types, XrTypes,
                    XrStates
      <4>2. Coming' <=> Coming
        BY <1>3, <1>4, <3>3, <4>1
           DEF WireNext, Coming, Own, FirstTlp, FirstHdr, LastHdr
      <4> QED
        BY <2>1, <3>3, <4>2 DEF WireNext, OrderInv
    <3> QED
      BY <1>2, <3>1, <3>2, <3>3
  <2> QED
    BY <1>1, <2>2, <2>3 DEF OrderInv
<1> QED
    BY <1>5, <1>6, ContentWire

\* Frames and TLPs are numbered alike.
LEMMA OrderInvariant ==
    ASSUME Sender PROVE Spec => [](~Throttle => OrderInv)
<1>1. Init => OrderInv
  <2> SUFFICES ASSUME Init PROVE OrderInv
    OBVIOUS
  <2>1. /\ orfState = "IDLE" /\ ~tvalid2 /\ ~frameEnd /\ wirePos = 0
        /\ ~prevEnd[1] /\ ~prevEnd[2] /\ ~prevEnd[3] /\ ~prevEnd[4]
        /\ done = <<>> /\ served = 0 /\ wireId = 0
    BY DEF Init, OrfInit, XgmiiRxInit
  <2>2. ~Pending /\ ~Coming /\ LastId = 0
    BY <2>1 DEF Pending, InPipe, Coming, LastId
  <2> QED
    BY <2>1, <2>2 DEF OrderInv, HeadId, InOrder
<1>2. /\ Base /\ Base' /\ (~Throttle => Content) /\ (~Throttle => OrderInv)
      /\ [Next]_vars
      => (~Throttle => OrderInv)'
  <2> SUFFICES ASSUME Base, Base', ~Throttle, ~Throttle', Content, OrderInv,
                      [Next]_vars
               PROVE  OrderInv'
    BY LoadStays DEF Throttle
  <2>1. CASE ClkEdge
    BY <2>1, OrderClk
  <2>2. CASE XgmiiEdge
    BY <2>2, OrderWire
  <2>3. CASE UNCHANGED vars
    BY <2>3 DEF vars, clkVars, xrVars, wireVars, orfVars, coreVars, OrderInv,
                HeadId, LastId, Coming, Own, InOrder, Succ, Pending, Unread,
                InPipe, PendId
  <2> QED
    BY <2>1, <2>2, <2>3 DEF Next
<1> QED
    BY <1>1, <1>2, BaseInvariant, ContentInvariant, PTL DEF Spec

(***************************************************************************)
(* On a core that throttles the network is silent: nothing is ever         *)
(* pending, and what the core receives comes from port 1.                  *)
(***************************************************************************)
Silent ==
    /\ wirePos = 0 /\ xrState = "IDLE" /\ ~Pending
    /\ out \in Seq(Beat1s) /\ done \in Seq(Beat1s)

\* A load with a slow core never has a frame for port 2.
LEMMA SilentInvariant ==
    ASSUME Sender, CoreReady PROVE Spec => [](Throttle => Silent)
<1>1. Init => Silent
  <2> SUFFICES ASSUME Init PROVE Silent
    OBVIOUS
  <2>1. /\ orfState = "IDLE" /\ ~tvalid2 /\ ~frameEnd /\ wirePos = 0
        /\ ~prevEnd[1] /\ ~prevEnd[2] /\ ~prevEnd[3] /\ ~prevEnd[4]
        /\ xrState = "IDLE" /\ out = <<>> /\ done = <<>>
    BY DEF Init, OrfInit, XgmiiRxInit
  <2> QED
    BY <2>1 DEF Silent, Pending, InPipe
<1>2. Base /\ (Throttle => Silent) /\ [Next]_vars => (Throttle => Silent)'
  <2> SUFFICES ASSUME Base, Throttle, Silent, [Next]_vars PROVE Silent'
    BY LoadStays DEF Throttle
  <2>1. CASE ClkEdge
    <3>1. PICK tready \in BOOLEAN :
            OrfClk(ack2) /\ CoreTake(tready) /\ UNCHANGED <<xrVars, wireVars>>
      BY <2>1 DEF ClkEdge
    <3>2. wirePos' = 0 /\ xrState' = "IDLE"
      BY <3>1 DEF Silent, xrVars, wireVars
    <3>3. ~Pending'
      <4>1. /\ prevEnd'[1] <=> frameEnd
            /\ prevEnd'[2] <=> prevEnd[1]
            /\ prevEnd'[3] <=> prevEnd[2]
            /\ prevEnd'[4] <=> prevEnd[3]
            /\ FrameSeen <=> /\ ~prevEnd[1] /\ ~prevEnd[2] /\ ~prevEnd[3]
                             /\ prevEnd[4]
            /\ frameEnd' = frameEnd
        BY <3>1, PipeShift, SeenBits DEF Base, Types, xrVars
      <4>2. orfState = "IDLE" /\ ~FrameSeen /\ ~InPipe'
        BY <4>1 DEF Silent, Pending, InPipe
      <4>3. orfState' = "IDLE" /\ ~tvalid2'
        BY <3>1, <4>2 DEF OrfClk, OrfIdle, OrfAck, OrfTlp1, OrfTlp2, OrfTlp3
      <4> QED
        BY <4>2, <4>3 DEF Pending
    <3>4. out' \in Seq(Beat1s) /\ done' \in Seq(Beat1s)
      <4>1. beat1 \in Beat1s /\ out \in Seq(Beat1s) /\ ~tvalid2
        BY DEF Base, Types, TxTypes, Silent, Pending
      <4>2. Append(out, beat1) \in Seq(Beat1s) /\ <<>> \in Seq(Beat1s)
        BY <4>1
      <4>3. CASE ack2
        BY <3>1, <4>1, <4>2, <4>3 DEF CoreTake, MuxOut
      <4>4. CASE ~ack2
        BY <3>1, <4>1, <4>2, <4>4 DEF CoreTake, MuxOut
      <4> QED
        BY <4>3, <4>4
    <3> QED
      BY <3>2, <3>3, <3>4 DEF Silent
  <2>2. CASE XgmiiEdge
    <3>1. wirePos = 0 /\ WireWord.k = "idle"
      BY WordKind DEF Base, WireInv, Silent
    <3>2. Shapes = {}
      BY DEF CoreReady, Throttle, Shapes, Base, BusInv
    <3>3. wirePos' = 0
      BY <2>2, <3>1, <3>2 DEF XgmiiEdge, WireQuiet, WireStart, WireNext
    <3>4. xrState' = "IDLE" /\ frameEnd' = FALSE
      BY <2>2, <3>1 DEF Silent, XgmiiEdge, XgmiiRxWord, XrIdle, XrHead,
                        XrTlp1, XrTlp2, XrTlp3
    <3>5. /\ prevEnd' = prevEnd /\ orfState' = orfState /\ tvalid2' = tvalid2
          /\ out' = out /\ done' = done
      BY <2>2 DEF XgmiiEdge, clkVars, orfVars, coreVars
    <3>6. ~Pending'
      BY <3>4, <3>5 DEF Silent, Pending, InPipe
    <3> QED
      BY <3>3, <3>4, <3>5, <3>6 DEF Silent
  <2>3. CASE UNCHANGED vars
    BY <2>3 DEF vars, clkVars, xrVars, wireVars, orfVars, coreVars, Silent,
                Pending, InPipe
  <2> QED
    BY <2>1, <2>2, <2>3 DEF Next
<1> QED
    BY <1>1, <1>2, BaseInvariant, PTL DEF Spec

(***************************************************************************)
(* Network TLPs reach the host in the order of their frames, each once:    *)
(* although tlp_frame_end is not acknowledged and nothing tells the        *)
(* recogniser that the buffer is still in use, no frame is lost or sent    *)
(* twice.                                                                  *)
(***************************************************************************)
THEOREM FramesInOrder == ASSUME Sender, CoreReady PROVE Spec => []InOrder
<1>1. (~Throttle => OrderInv) /\ (Throttle => Silent) => InOrder
  <2>1. ASSUME Silent PROVE InOrder
    <3>1. ASSUME NEW s \in Seq(Beat1s), s # <<>> PROVE s[1].src # "tx2"
      <4>1. Len(s) \in Nat /\ Len(s) # 0
        BY <3>1, EmptySeq
      <4>2. s[1] \in Beat1s
        BY <3>1, <4>1
      <4> QED
        BY <4>2 DEF Beat1s
    <3> QED
      BY <2>1, <3>1 DEF Silent, InOrder
  <2> QED
    BY <2>1 DEF OrderInv
<1> QED
    BY <1>1, OrderInvariant, SilentInvariant, PTL

=============================================================================
