----------------------------- MODULE ServerPath ------------------------------
(***************************************************************************)
(* Everything that leads to the host's PCIe link on the KC705, wired as in *)
(* boards/kc705/rtl/pcie/PIO_EP.v: TLPs from the network (XGMII_RX_ENGINE) *)
(* and completions of local reads (PIO_RX_ENGINE, PIO_TX_ENGINE) share the *)
(* core's transmit stream through TX_MUX.  PIO.v adds PIO_TO_CTRL.         *)
(*                                                                         *)
(* Two clocks drive it: clk (250 MHz) and xgmii_clk (156.25 MHz).  Eight   *)
(* edges of clk take the time of five edges of xgmii_clk; lag measures how *)
(* far clk is ahead, in units of a fortieth of that time, and the order of *)
(* edges is that of two exact clocks with an arbitrary initial phase.      *)
(***************************************************************************)
EXTENDS TxMux, PioTxEngine, PioRxEngine, PioToCtrl, XgmiiRxEngine, Sequences

CONSTANTS
    FrameIds,   \* how many frames are told apart
    BadPlaces,  \* places where a frame of someone else differs from ours
    MinIdle     \* idle words between two frames, at least

ASSUME FrameIdsAssumption == FrameIds \in Nat \ {0}
ASSUME BadPlacesAssumption == BadPlaces \subseteq {1, 2, 4, 5}
ASSUME MinIdleAssumption == MinIdle \in Nat \ {0}
ASSUME ShapesAssumption ==
    \A l \in DOMAIN Loads :
      /\ Loads[l].turnoff \in BOOLEAN
      /\ Loads[l].shapes
           \subseteq [data : BOOLEAN, dw : 0..1023, a64 : BOOLEAN, sent : Nat]

VARIABLES
    wirePos,    \* word of the current frame on the wire, 0 between frames
    wireKind,   \* shape of its TLP
    wireBad,    \* header word in which it differs from an IP-NUMA frame
    wireIdle,   \* idle words since the last frame, up to MinIdle
    wireId,     \* identity of the last IP-NUMA frame
    lag,        \* phase of the two clocks
    out,        \* beats of the TLP the PCIe core is receiving
    done,       \* the TLP completed at the last clk edge, or <<>>
    served      \* identity of the last network TLP completed before

wireVars == <<wirePos, wireKind, wireBad, wireIdle, wireId>>
coreVars == <<out, done, served>>
clkVars  == <<muxVars, txEngineVars, rxEngineVars, hostVars, orfVars,
              turnoffVars, coreVars>>
vars     == <<clkVars, xrVars, wireVars, lag>>

-----------------------------------------------------------------------------
(***************************************************************************)
(* The wire: frames of a preamble, six header words, the TLP and the FCS,  *)
(* at least MinIdle idle words apart.                                      *)
(***************************************************************************)
Ours == 0

\* Shapes of the TLPs that arrive from the network under this load.
Shapes == Loads[load].shapes

ShapeBeats(kind) == (kind.sent + 1) \div 2

FirstHdr == 2
FirstTlp == FirstHdr + LastHdr + 1

WireWord ==
    IF wirePos = 0 THEN IdleWord
    ELSE IF wirePos = 1 THEN StartWord
    ELSE IF wirePos < FirstTlp
           THEN HdrWord(wireBad = Ours \/ wireBad # wirePos - FirstHdr)
    ELSE IF wirePos < FirstTlp + ShapeBeats(wireKind)
           THEN TlpWord(wireId, wirePos - FirstTlp + 1, wireKind)
    ELSE TermWord

WireQuiet ==
    /\ wirePos = 0
    /\ wireIdle' = IF wireIdle < MinIdle THEN wireIdle + 1 ELSE wireIdle
    /\ UNCHANGED <<wirePos, wireKind, wireBad, wireId>>

WireStart ==
    /\ wirePos = 0 /\ wireIdle + 1 >= MinIdle
    /\ wireIdle' = 0
    /\ wirePos' = 1
    /\ wireKind' \in Shapes
    /\ wireBad' \in {Ours} \union BadPlaces
    /\ wireId' = IF wireBad' = Ours THEN (wireId + 1) % FrameIds ELSE wireId

WireNext ==
    /\ wirePos > 0
    /\ wirePos' = IF wirePos = FirstTlp + ShapeBeats(wireKind)
                    THEN 0 ELSE wirePos + 1
    /\ UNCHANGED <<wireKind, wireBad, wireIdle, wireId>>

-----------------------------------------------------------------------------
(***************************************************************************)
(* The PCIe core takes the beat on the transmit stream when both sides are *)
(* ready.  Of a TLP whose end was lost the first OutMax beats are kept.    *)
(***************************************************************************)
OutMax == 4

CoreTake(tready) ==
    LET taken == tready /\ MuxOut(tvalid1, tvalid2)
        last  == MuxOut(tlast1, tlast2)
        beat  == MuxOut(beat1, beat2)
        tlp   == IF Len(out) < OutMax THEN Append(out, beat) ELSE out
    IN  /\ out'  = IF ~taken THEN out ELSE IF last THEN <<>> ELSE tlp
        /\ done' = IF taken /\ last THEN tlp ELSE <<>>
        /\ served' = IF done # <<>> /\ done[1].src = "tx2"
                       THEN done[1].id ELSE served

-----------------------------------------------------------------------------
Init ==
    /\ MuxInit /\ TxEngineInit /\ RxEngineInit /\ HostInit
    /\ XgmiiRxInit /\ OrfInit /\ TurnoffInit
    /\ wirePos = 0 /\ wireKind = NoShape /\ wireBad = Ours
    /\ wireIdle = 0 /\ wireId = 0
    /\ lag \in 0..12
    /\ out = <<>> /\ done = <<>> /\ served = 0

ClkEdge ==
    /\ lag <= 7
    /\ lag' = lag + 5
    /\ \E tready \in (IF Throttle THEN BOOLEAN ELSE {TRUE}) :
         /\ MuxClk(req1, req2)
         /\ TxEngineClk(reqCompl, reqComplWd, reqTag, ack1, Ready1(tready))
         /\ OrfClk(ack2)
         /\ CoreTake(tready)
    /\ RxEngineClk(complDone)
    /\ HostClk(rxTready)
    /\ TurnoffClk(reqCompl, complDone, Loads[load].turnoff)
    /\ UNCHANGED <<xrVars, wireVars>>

XgmiiEdge ==
    /\ lag >= 8
    /\ lag' = lag - 8
    /\ XgmiiRxWord(WireWord)
    /\ WireQuiet \/ WireStart \/ WireNext
    /\ UNCHANGED clkVars

Next == ClkEdge \/ XgmiiEdge

\* Both clocks keep running.
Spec == Init /\ [][Next]_vars /\ WF_vars(ClkEdge) /\ WF_vars(XgmiiEdge)

-----------------------------------------------------------------------------
(***************************************************************************)
(* Properties.                                                             *)
(***************************************************************************)
Beat1s == [src : {"none", "tx1"}, id : 0..(HostIds - 1), n : 0..2,
           keep : {"ff", "0f"}]

\* Types of the registers of TX_MUX, PIO_TX_ENGINE, PIO_RX_ENGINE and
\* XGMII_RX_ENGINE.
TypeOK ==
    /\ {ack1, ack2, req1, tvalid1, tlast1, reqComplQ, reqComplWdQ, complBusy,
        complDone, reqCompl, reqComplWd, rxTready, inPacket, wrEn, rxTvalid,
        req2, tvalid2, tlast2, frameEnd, trnPending, toTurnoff, turnoffOk}
         \subseteq BOOLEAN
    /\ txState \in TxStates /\ rxState \in RxStates
    /\ xrState \in XrStates /\ orfState \in OrfStates
    /\ tlpType \in TlpTypes
    /\ beat1 \in Beat1s
    /\ reqTag \in 0..(HostIds - 1) /\ hostId \in 0..(HostIds - 1)
    /\ xrCount \in 0..(LastHdr + 1) /\ xrMatch \subseteq HdrFields
    /\ prevEnd \in BOOLEAN \X BOOLEAN \X BOOLEAN \X BOOLEAN
    /\ len \in 0..1023
    /\ lag \in 0..12

(***************************************************************************)
(* TX_MUX never grants both ports, and a port drives tvalid only while it  *)
(* owns the output, however the core throttles: a beat shown by the other  *)
(* port would be lost.                                                     *)
(***************************************************************************)
GrantSafe ==
    /\ ~(ack1 /\ ack2)
    /\ tvalid1 => ack1
    /\ tvalid2 => ack2

(***************************************************************************)
(* The handshake between PIO_RX_ENGINE and PIO_TX_ENGINE never loses or    *)
(* repeats a completion: a read that waits has its request in exactly one  *)
(* of the four stages, and outside WAIT all of them are empty.             *)
(***************************************************************************)
Stage(b) == IF b THEN 1 ELSE 0
OneCompletion ==
    Stage(reqCompl) + Stage(reqComplQ) + Stage(complBusy) + Stage(complDone)
      = Stage(rxState = "WAIT" /\ tlpType \in {"RD32", "RD64"})

(***************************************************************************)
(* What the proofs of TlpIntact and InOrder ask of the constants, and the  *)
(* instances have.  The sender leaves at least two idle words between      *)
(* frames, and its TLPs are of two or three beats and as long as their     *)
(* header says (XGMII_RX_ENGINE has room for three and never looks at the  *)
(* end of the frame).  Frames arrive only while the core takes every beat. *)
(***************************************************************************)
TwoOrThree(kind) ==
    /\ kind.sent \in 3..6
    /\ kind.sent = 3 + (IF kind.a64 THEN 1 ELSE 0)
                     + (IF kind.data THEN kind.dw ELSE 0)

Sender ==
    /\ MinIdle >= 2
    /\ \A l \in DOMAIN Loads : \A kind \in Loads[l].shapes : TwoOrThree(kind)

CoreReady == \A l \in DOMAIN Loads :
               Loads[l].throttle => Loads[l].shapes = {}

(***************************************************************************)
(* Every TLP the core receives is whole: a completion is the header and    *)
(* the data of one request, a network TLP is the beats of one frame, in    *)
(* order and all of them, the strobes of the last one telling how many     *)
(* dwords the sender put there.  Only for a core that takes every beat at  *)
(* once: PIO_TX_ENGINE shows its last beat, and XGMII_RX_ENGINE every      *)
(* beat, for one cycle, whether it is taken or not.                        *)
(***************************************************************************)
FrameTlp(id, kind) ==
    [n \in 1..ShapeBeats(kind) |->
       [src |-> "tx2", id |-> id, n |-> n, kind |-> kind,
        keep |-> IF n = ShapeBeats(kind) /\ kind.sent % 2 = 1
                   THEN "0f" ELSE "ff"]]

TlpIntact ==
    done # <<>> /\ ~Throttle =>
      IF done[1].src = "tx1"
        THEN done = <<CplHeader(done[1].id), CplData(done[1].id, TRUE)>>
        ELSE done = FrameTlp(done[1].id, done[1].kind)

(***************************************************************************)
(* Network TLPs reach the host in the order of their frames, each once:    *)
(* none is lost between the clock domains, none is sent twice.             *)
(***************************************************************************)
InOrder ==
    done # <<>> /\ done[1].src = "tx2" => done[1].id = (served + 1) % FrameIds

(***************************************************************************)
(* A completion answers the read that PIO_RX_ENGINE still holds on the     *)
(* bus, with the address taken from that read's second beat.               *)
(***************************************************************************)
CompletionOwn ==
    complDone => /\ reqTag = rxBus.tlp.id
                 /\ reqAddr = Sampled(rxBus) /\ reqAddr.n = 2
                 /\ beat1.id = reqTag

(***************************************************************************)
(* PIO_RX_ENGINE keeps in step with the bus: what it takes for a header is *)
(* the first beat of a TLP, and a write to the register file is that of    *)
(* the one-dword write still held on the bus, address from its second beat *)
(* and data from its last.                                                 *)
(***************************************************************************)
RxInStep ==
    /\ rxState = "RST" /\ Sop => rxBus.n = 1 /\ rxTready
    /\ wrEn => /\ HasData(rxBus.tlp.type) /\ rxBus.tlp.dw = 1
               /\ wrAddr = [Sampled(rxBus) EXCEPT !.n = 2]
               /\ wrData = [Sampled(rxBus) EXCEPT !.n = Beats(rxBus.tlp)]

(***************************************************************************)
(* The card does not agree to be turned off while PIO_TX_ENGINE is busy    *)
(* with a completion or shows a beat of one, although PIO_TO_CTRL sees     *)
(* only the pulses at the two ends.  (A read requested in the very cycle   *)
(* in which it agrees may still be waiting at the input of the engine.)    *)
(***************************************************************************)
TurnoffClean == turnoffOk => ~complBusy /\ ~complDone /\ ~tvalid1

\* Every read is answered, even while frames keep arriving for port 2.
ReadAnswered == reqCompl ~> complDone

\* The card agrees to be turned off in the end, even while the host reads.
TurnoffAgreed == toTurnoff ~> turnoffOk

\* Every IP-NUMA frame is handed to the host.
FrameServed ==
    \A i \in 0..(FrameIds - 1) :
      (frameEnd /\ wireId = i) ~> (done # <<>> /\ done[1].src = "tx2"
                                   /\ done[1].id = i)

=============================================================================
