------------------------------ MODULE Ecp3Path -------------------------------
(***************************************************************************)
(* The command packets of the ecp3_test programs on their way to memory:   *)
(* Ethernet frames reach the server core byte by byte, those of several    *)
(* programs mixed with each other and with the frames of others; some are  *)
(* lost.  The core passes on each byte at once, while the master sequencer *)
(* makes writes of what has come through the FIFO.                         *)
(***************************************************************************)
EXTENDS Ecp3Client, Ecp3Server

CONSTANTS
    Clients,        \* the programs, as [prog, test, addr, data]
    Pairs,          \* which of them run at the same time
    Trailers,       \* what may stand in the frame check sequence
    MinGap,         \* clocks between two frames, at least
    MaxPackets      \* packets a program sends (it may loop for ever)

\* An address that does not fit into its command is cut off by the program.
Fits(c) == c.addr[1] = 0 /\ (c.prog = "a32" => c.addr[2] = 0)

ASSUME ClientsAssumption ==
    \A c \in Clients :
      /\ c.prog \in Programs /\ c.test \in BOOLEAN /\ c.data \in Nat
      /\ c.addr \in [1..6 -> Byte] /\ Fits(c) /\ c.addr[6] % 4 = 0
ASSUME PairsAssumption == Pairs \subseteq SUBSET Clients
ASSUME TrailersAssumption == Trailers \subseteq [1..4 -> Byte]
ASSUME MaxPacketsAssumption == MaxPackets \in Nat
ASSUME MinGapAssumption == MinGap \in Nat \ {0}

VARIABLES
    sent,       \* running client -> packets it has sent
    wire,       \* the bytes of the frame that are still to come
    gap,        \* clocks since the last byte, up to MinGap; 0 in a frame
    meant       \* the writes meant by their senders and not yet done

vars == <<serverVars, masterVars, sent, wire, gap, meant>>

-----------------------------------------------------------------------------
\* The header of a frame; the bytes that are not compared are 0 here.
HeaderBytes ==
    [n \in 1..42 |-> IF n - 1 \in Fields THEN Wanted[n - 1] ELSE 0]

\* Ethernet pads the frame to 60 bytes and appends the check sequence, which
\* the core receives as well.
Padding(len) == [n \in 1..(IF len < 60 THEN 60 - len ELSE 0) |-> 0]

Frame(packet, trailer) ==
    HeaderBytes \o packet \o Padding(42 + Len(packet)) \o trailer

(***************************************************************************)
(* What the user of a program asked for: the dwords land at the address,   *)
(* in the processor's byte order, all bytes enabled.                       *)
(***************************************************************************)
Write(addr, data) == [be |-> 255, addr |-> addr, data |-> data]

LittleEndian(d) == [i \in 1..4 |-> (d \div 256^(i - 1)) % 256]

Meant(c, n) ==
    IF c.test THEN <<Write(<<0, 0>> \o FirstAddr(c.prog), Pattern(n)),
                     Write(<<0, 0>> \o SecondAddr(c.prog), Pattern(n + 1))>>
    ELSE <<Write(c.addr, LittleEndian(Count(c, n)))>>

Init ==
    /\ ServerInit /\ MasterInit
    /\ \E pair \in Pairs : sent = [c \in pair |-> 0]
    /\ wire = <<>> /\ gap = MinGap /\ meant = <<>>

\* One edge of pcie_clk outside the server core.
Clock ==
    /\ MasterClk(wrEn, din)
    /\ meant' = IF TxEnd /\ meant # <<>> THEN Tail(meant) ELSE meant
    /\ UNCHANGED sent

\* A frame comes as early as Ethernet allows, or when all is done.
MayBegin == gap > 0 /\ (gap = MinGap \/ MasterIdle)

Begin(frame, writes) ==
    /\ MayBegin
    /\ wire' = frame /\ gap' = 0
    /\ meant' = meant \o writes
    /\ UNCHANGED <<serverVars, masterVars>>

MaySend(c) == sent[c] < MaxPackets /\ Goes(c, sent[c] + 1)

SendTo(c) ==
    /\ MaySend(c)
    /\ \E t \in Trailers :
         Begin(Frame(Packet(c, sent[c] + 1), t), Meant(c, sent[c] + 1))
    /\ sent' = [sent EXCEPT ![c] = @ + 1]

Lose(c) ==
    /\ MayBegin /\ MaySend(c)
    /\ sent' = [sent EXCEPT ![c] = @ + 1]
    /\ UNCHANGED <<serverVars, masterVars, wire, gap, meant>>

\* Something else of the same shape, which differs in one byte.
Foreign(c) ==
    /\ \E f \in Fields \union {LastField}, t \in Trailers :
         Begin([Frame(Packet(c, 1), t) EXCEPT ![f + 1] = 255 - @], <<>>)
    /\ UNCHANGED sent

NextByte ==
    /\ wire # <<>>
    /\ ServerByte(Head(wire))
    /\ wire' = Tail(wire)
    /\ Clock
    /\ UNCHANGED gap

\* Between frames, first with the entries for the gap, then without any.
Gap ==
    /\ wire = <<>>
    /\ ServerGap
    /\ gap' = IF gap < MinGap THEN gap + 1 ELSE gap
    /\ Clock
    /\ UNCHANGED wire

Next ==
    \/ \E c \in DOMAIN sent : SendTo(c) \/ Lose(c) \/ Foreign(c)
    \/ NextByte
    \/ Gap

Spec == Init /\ [][Next]_vars

-----------------------------------------------------------------------------
(***************************************************************************)
(* Properties.                                                             *)
(***************************************************************************)

\* What a register of some bits holds: the numbers below a power of 2.
Below(n) == 0..(n - 1)

\* Types of the registers of the server core and the two sequencers.
TypeOK ==
    /\ counter \in Below(4096) /\ hdr \in [Fields -> Byte]
    /\ srvStatus \in SrvStates /\ srv64 \in BOOLEAN
    /\ blen \in Below(128) /\ prev \in Byte /\ din \in Word /\ wrEn \in BOOLEAN
    /\ mstDout \in Word /\ mstRdEn \in BOOLEAN
    /\ mst.status \in MstStates /\ mst.length \in Below(2048)
    /\ {mst.wait, mst.valid, mst.done, tx.ready} \subseteq BOOLEAN
    /\ tx.step \in 1..Len(TxSteps)

(***************************************************************************)
(* The board does the writes the senders meant, in their order, at the     *)
(* addresses and with the lengths they meant, and no other; a frame that   *)
(* is none of ours causes none.  The data are those of the sender too,     *)
(* unless the link takes the words faster than the frame brings them: ten  *)
(* words are safe, and one more for each clock tx_rdy was waited for.      *)
(***************************************************************************)
InTime(w) == Len(w.data) \div 2 <= 10 + tlp.delay

WritesAsMeant ==
    /\ TxEnd => /\ meant # <<>>
                /\ tlp.addr = Head(meant).addr /\ tlp.be = Head(meant).be
                /\ 4 * tlp.dw = Len(Head(meant).data)
                /\ Len(tlp.data) = Len(Head(meant).data)
                /\ InTime(Head(meant)) => tlp.data = Head(meant).data
    /\ gap > 1 /\ MasterIdle => meant = <<>>

(***************************************************************************)
(* At the end of a frame, when only the byte counter is reset, the server  *)
(* core is back in IDLE: otherwise the header of the next frame would be   *)
(* taken for commands.                                                     *)
(***************************************************************************)
FramesApart == gap > 0 => srvStatus = "IDLE"

=============================================================================
