---------------------------- MODULE XgmiiRxEngine ----------------------------
(***************************************************************************)
(* The network-to-PCIe engine, built without ORF                           *)
(* (boards/kc705/rtl/pcie/XGMII_RX_ENGINE.v).  In the xgmii_clk domain it  *)
(* recognises IP-NUMA frames and copies the three words after the magic    *)
(* code to tlp1, tlp2, tlp3.  tlp_frame_end crosses into the clk domain    *)
(* through a four-bit shift register, and a second machine then sends the  *)
(* TLP on port 2 of TX_MUX.  It does not look at tready.                   *)
(*                                                                         *)
(* A received word is a record whose field k tells its kind:               *)
(*   idle   eight idle characters (rxc = ff)                               *)
(*   start  the preamble, fb in lane 0                                     *)
(*   hdr    a header word; ok: the field checked at this place matches     *)
(*   tlp    beat n of the TLP of shape kind in frame id                    *)
(*   term   FCS and terminate character                                    *)
(* A TLP's shape is [data, dw, a64, sent]: has data, length field, 64-bit  *)
(* address (bits 30, 9-0 and 29 of its first dword), and the number of its *)
(* dwords, which the engine does not look at.                              *)
(***************************************************************************)
EXTENDS Integers

VARIABLES
    xrState,        \* rx_state
    xrCount,        \* rx_count / 8, up to LastHdr + 1
    xrMatch,        \* which of rx_type, rx_protocol, rx_dport hold our values
    frameEnd,       \* tlp_frame_end
    tlp1, tlp2, tlp3,
    prevEnd,        \* prev_xgmii_end, <<bit 3, bit 2, bit 1, bit 0>>
    orfState,       \* orf_state
    len,            \* len
    req2,           \* s_axis_tx_req
    tvalid2,        \* s_axis_tx_tvalid
    tlast2,         \* s_axis_tx_tlast
    beat2           \* s_axis_tx_tdata and s_axis_tx_tkeep

xrVars  == <<xrState, xrCount, xrMatch, frameEnd, tlp1, tlp2, tlp3>>
orfVars == <<prevEnd, orfState, len, req2, tvalid2, tlast2, beat2>>

XrStates  == {"IDLE", "HEAD", "TLP1", "TLP2", "TLP3"}
OrfStates == {"IDLE", "ACK", "TLP1", "TLP2", "TLP3"}

\* rx_count of the word with the magic code: 16'h28
LastHdr == 5

\* The header words whose contents are remembered, by rx_count / 8.
HdrField == [c \in 0..LastHdr |->
               CASE c = 1 -> "rx_type" [] c = 2 -> "rx_protocol"
                 [] c = 4 -> "rx_dport" [] OTHER -> "none"]
HdrFields == {"rx_type", "rx_protocol", "rx_dport"}

IdleWord  == [k |-> "idle"]
StartWord == [k |-> "start"]
TermWord  == [k |-> "term"]
HdrWord(ok) == [k |-> "hdr", ok |-> ok]
TlpWord(id, n, kind) == [k |-> "tlp", id |-> id, n |-> n, kind |-> kind]
ZeroWord == [k |-> "zero"]

XgmiiRxInit ==
    /\ xrState = "IDLE" /\ xrCount = 0 /\ xrMatch = {}
    /\ frameEnd = FALSE
    /\ tlp1 = ZeroWord /\ tlp2 = ZeroWord /\ tlp3 = ZeroWord

XrIdle(w) ==
    /\ xrState = "IDLE"
    /\ xrCount' = 0
    /\ xrState' = IF w.k = "start" THEN "HEAD" ELSE "IDLE"
    /\ frameEnd' = FALSE
    /\ UNCHANGED <<xrMatch, tlp1, tlp2, tlp3>>

\* Past LastHdr nothing is compared any more: the frame is someone else's
\* and is skipped up to the next idle word.
XrHead(w) ==
    /\ xrState = "HEAD"
    /\ xrCount' = IF xrCount <= LastHdr THEN xrCount + 1 ELSE xrCount
    /\ xrMatch' = IF xrCount <= LastHdr /\ HdrField[xrCount] \in HdrFields
                    THEN IF w.k = "hdr" /\ w.ok
                           THEN xrMatch \union {HdrField[xrCount]}
                           ELSE xrMatch \ {HdrField[xrCount]}
                    ELSE xrMatch
    /\ xrState' = IF xrCount = LastHdr /\ xrMatch = HdrFields
                     /\ w.k = "hdr" /\ w.ok THEN "TLP1"
                  ELSE IF w.k = "idle" THEN "IDLE" ELSE "HEAD"
    /\ frameEnd' = FALSE
    /\ UNCHANGED <<tlp1, tlp2, tlp3>>

XrTlp1(w) ==
    /\ xrState = "TLP1"
    /\ tlp1' = w
    /\ xrState' = "TLP2"
    /\ frameEnd' = FALSE
    /\ UNCHANGED <<xrCount, xrMatch, tlp2, tlp3>>

XrTlp2(w) ==
    /\ xrState = "TLP2"
    /\ tlp2' = w
    /\ xrState' = "TLP3"
    /\ frameEnd' = FALSE
    /\ UNCHANGED <<xrCount, xrMatch, tlp1, tlp3>>

XrTlp3(w) ==
    /\ xrState = "TLP3"
    /\ tlp3' = w
    /\ xrState' = "IDLE"
    /\ frameEnd' = TRUE
    /\ UNCHANGED <<xrCount, xrMatch, tlp1, tlp2>>

\* One edge of xgmii_clk with word w on the wire.
XgmiiRxWord(w) == XrIdle(w) \/ XrHead(w) \/ XrTlp1(w) \/ XrTlp2(w) \/ XrTlp3(w)

-----------------------------------------------------------------------------
(***************************************************************************)
(* The clk domain.                                                         *)
(***************************************************************************)

NoShape == [data |-> FALSE, dw |-> 0, a64 |-> FALSE, sent |-> 0]
NoBeat2 == [src |-> "none", id |-> 0, n |-> 0, keep |-> "ff", kind |-> NoShape]

OrfInit ==
    /\ prevEnd = <<FALSE, FALSE, FALSE, FALSE>>
    /\ orfState = "IDLE" /\ len = 0
    /\ req2 = FALSE /\ tvalid2 = FALSE /\ tlast2 = FALSE /\ beat2 = NoBeat2

\* Faulty: only a pulse of one clk cycle is recognised.
FrameSeenNarrow == prevEnd = <<FALSE, FALSE, TRUE, FALSE>>

FrameSeen == prevEnd = <<FALSE, FALSE, FALSE, TRUE>>

\* Faulty: the fourth header dword of a 64-bit address is forgotten.
DwLen32(kind) == ((IF kind.data THEN kind.dw ELSE 0) - 1) % 1024

\* Dwords after the first four, minus one, in ten bits: 1023 means that the
\* TLP ended with the third dword.
DwLen(kind) == ((IF kind.data THEN kind.dw ELSE 0) - 1
                  + (IF kind.a64 THEN 1 ELSE 0)) % 1024

\* What is driven from a captured word.  Only words of frames are captured.
OrfBeat(w, keep) ==
    IF w.k = "tlp"
      THEN [src |-> "tx2", id |-> w.id, n |-> w.n, keep |-> keep,
            kind |-> w.kind]
      ELSE [NoBeat2 EXCEPT !.src = "tx2", !.keep = keep]

OrfIdle ==
    /\ orfState = "IDLE"
    /\ tvalid2' = FALSE /\ tlast2' = FALSE
    /\ req2' = FrameSeen
    /\ orfState' = IF FrameSeen THEN "ACK" ELSE "IDLE"
    /\ UNCHANGED <<len, beat2>>

OrfAck(ack) ==
    /\ orfState = "ACK"
    /\ req2' = TRUE
    /\ orfState' = IF ack THEN "TLP1" ELSE "ACK"
    /\ UNCHANGED <<len, tvalid2, tlast2, beat2>>

OrfTlp1 ==
    /\ orfState = "TLP1"
    /\ len' = IF tlp1.k = "tlp" THEN DwLen(tlp1.kind) ELSE 0
    /\ req2' = TRUE /\ tvalid2' = TRUE /\ tlast2' = FALSE
    /\ beat2' = OrfBeat(tlp1, "ff")
    /\ orfState' = "TLP2"

\* TLP2 and TLP3 drive their word and end the TLP when len says so; a TLP
\* that does not end with TLP3 is left without tlast.
OrfLast == len \in {0, 1023}

\* Faulty: len is wider than the ten bits of a length field.
OrfNextWide(w, next) ==
    /\ len' = len - 2
    /\ req2' = TRUE /\ tvalid2' = TRUE
    /\ beat2' = OrfBeat(w, IF len = 1023 THEN "0f" ELSE "ff")
    /\ tlast2' = OrfLast
    /\ orfState' = IF OrfLast THEN "IDLE" ELSE next

\* Faulty: tlast is not driven.
OrfNextNoLast(w, next) ==
    /\ len' = (len - 2) % 1024
    /\ req2' = TRUE /\ tvalid2' = TRUE
    /\ beat2' = OrfBeat(w, IF len = 1023 THEN "0f" ELSE "ff")
    /\ tlast2' = FALSE
    /\ orfState' = IF OrfLast THEN "IDLE" ELSE next

OrfNext(w, next) ==
    /\ len' = (len - 2) % 1024
    /\ req2' = TRUE /\ tvalid2' = TRUE
    /\ beat2' = OrfBeat(w, IF len = 1023 THEN "0f" ELSE "ff")
    /\ tlast2' = OrfLast
    /\ orfState' = IF OrfLast THEN "IDLE" ELSE next

OrfTlp2 == orfState = "TLP2" /\ OrfNext(tlp2, "TLP3")
OrfTlp3 == orfState = "TLP3" /\ OrfNext(tlp3, "IDLE")

OrfClk(ack) ==
    /\ prevEnd' = <<frameEnd, prevEnd[1], prevEnd[2], prevEnd[3]>>
    /\ OrfIdle \/ OrfAck(ack) \/ OrfTlp1 \/ OrfTlp2 \/ OrfTlp3

=============================================================================
