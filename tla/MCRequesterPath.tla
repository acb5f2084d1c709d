--------------------------- MODULE MCRequesterPath ---------------------------
(***************************************************************************)
(* Small instances of RequesterPath.                                       *)
(***************************************************************************)
EXTENDS RequesterPath

Tlp(type, dw, bar, look) ==
    [type |-> type, dw |-> dw, bar |-> bar, look |-> look]

\* One-dword writes through BAR2 below 4 GB, completions of remote reads,
\* and the register accesses of the driver.
PingPongTlps == {Tlp("WR32", 1, "BAR2", "RD32"), Tlp("CPL", 1, "none", "MSG"),
                 Tlp("WR32", 1, "BAR0", "MSG"), Tlp("RD32", 1, "BAR0", "MSG")}

\* A one-dword write through BAR2 above 4 GB: four header dwords.
Write64 == {Tlp("WR64", 1, "BAR2", "MSG")}

\* The host's TLPs of one kind of program, and whether the core throttles.
Load(tlps, throttle) ==
    <<[tlps |-> tlps, bubbles |-> FALSE, throttle |-> throttle]>>
PingPongLoad == Load(PingPongTlps, TRUE)
Write64Load  == Load(Write64, FALSE)

\* What the theorem FramesAreTlps asks of the constants, of one instance.
ASSUME PingPongQualifies ==
    TwoBeats(PingPongLoad) /\ RoomForBacklog /\ HostIds >= 2

=============================================================================
