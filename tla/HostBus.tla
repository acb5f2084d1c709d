------------------------------- MODULE HostBus -------------------------------
(***************************************************************************)
(* The receive stream of the PCIe core (the m_axis_rx signals), which is   *)
(* not in this repository: the core presents the TLPs beat by beat, holds  *)
(* a beat until m_axis_rx_tready takes it, and flags the BAR that was hit  *)
(* on every beat.  All engines of the clk domain look at this one bus.     *)
(*                                                                         *)
(* A TLP is [type, dw, bar, look, id]: dw is the length field of its       *)
(* header; look is the type that bits 30-24 of its later beats spell,      *)
(* which depends on the address and data they carry; id stands for its     *)
(* tag and contents and cycles through 0..HostIds-1.                       *)
(*                                                                         *)
(* What the host and the core do is described by a load, of which there    *)
(* may be several; a behaviour runs under one of them.                     *)
(***************************************************************************)
EXTENDS Integers

CONSTANTS
    Loads,      \* the loads, numbered, as records of what is defined below
    HostIds     \* how many identities are told apart

ASSUME HostIdsAssumption == HostIds \in Nat \ {0}
ASSUME LoadsAssumption ==
    \A l \in DOMAIN Loads : {Loads[l].bubbles, Loads[l].throttle}
                              \subseteq BOOLEAN

VARIABLES
    load,       \* the load of this behaviour
    rxTvalid,   \* m_axis_rx_tvalid
    rxBus,      \* m_axis_rx_tdata/tkeep/tlast/tuser: beat n of a TLP
    hostId      \* identity of the next TLP

hostVars == <<load, rxTvalid, rxBus, hostId>>

\* The TLPs the host may send, as [type, dw, bar, look] records.
HostTlps == Loads[load].tlps

\* The core may pause in the middle of a TLP.
Bubbles == Loads[load].bubbles

\* The core may lower s_axis_tx_tready.
Throttle == Loads[load].throttle

TlpTypes == {"RD32", "WR32", "RD64", "WR64", "CPL", "MSG"}
Bars     == {"BAR0", "BAR2", "EROM", "none"}

\* The length field has ten bits.
ASSUME HostTlpsAssumption ==
    \A l \in DOMAIN Loads :
      Loads[l].tlps
        \subseteq [type : TlpTypes, dw : 0..1023, bar : Bars, look : TlpTypes]

\* Headers with a 64-bit address, and messages, have four dwords.
HeaderDw(type) == IF type \in {"RD64", "WR64", "MSG"} THEN 4 ELSE 3
HasData(type)  == type \in {"WR32", "WR64", "CPL"}

TlpDw(tlp) == HeaderDw(tlp.type) + (IF HasData(tlp.type) THEN tlp.dw ELSE 0)
Beats(tlp) == (TlpDw(tlp) + 1) \div 2

\* m_axis_rx_tlast
RxLast(b) == b.n = Beats(b.tlp)

NoTlp == [type |-> "MSG", dw |-> 0, bar |-> "none", look |-> "MSG", id |-> 0]
EmptyBus == [tlp |-> NoTlp, n |-> 1]

Numbered(t, i) == [type |-> t.type, dw |-> t.dw, bar |-> t.bar,
                   look |-> t.look, id |-> i]

\* Bits 30-24 of the beat on the bus.
LooksLike(b) == IF b.n = 1 THEN b.tlp.type ELSE b.tlp.look

HostInit ==
    /\ load \in DOMAIN Loads
    /\ rxTvalid = FALSE
    /\ rxBus = EmptyBus
    /\ hostId = 0

\* No TLP, or the last beat of one, leaves the bus free for the next.
HostIdle ==
    /\ rxTvalid' = FALSE
    /\ rxBus' = EmptyBus
    /\ UNCHANGED <<load, hostId>>

HostSend ==
    /\ \E t \in HostTlps : rxBus' = [tlp |-> Numbered(t, hostId), n |-> 1]
    /\ rxTvalid' = TRUE
    /\ hostId' = (hostId + 1) % HostIds
    /\ UNCHANGED load

BusFree(tready) ==
    \/ ~rxTvalid /\ rxBus = EmptyBus
    \/ rxTvalid /\ tready /\ RxLast(rxBus)

HostHold(tready) ==
    /\ rxTvalid /\ ~tready
    /\ UNCHANGED hostVars

HostAdvance(tready) ==
    /\ rxTvalid /\ tready /\ ~RxLast(rxBus)
    /\ rxBus' = [rxBus EXCEPT !.n = @ + 1]
    /\ rxTvalid' \in (IF Bubbles THEN BOOLEAN ELSE {TRUE})
    /\ UNCHANGED <<load, hostId>>

HostResume ==
    /\ ~rxTvalid /\ rxBus # EmptyBus
    /\ rxTvalid' \in BOOLEAN
    /\ UNCHANGED <<load, rxBus, hostId>>

HostClk(tready) ==
    \/ BusFree(tready) /\ (HostIdle \/ HostSend)
    \/ HostHold(tready)
    \/ HostAdvance(tready)
    \/ HostResume

=============================================================================
