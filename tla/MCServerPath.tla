---------------------------- MODULE MCServerPath -----------------------------
(***************************************************************************)
(* Small instances of ServerPath.                                          *)
(***************************************************************************)
EXTENDS ServerPath, IpnumaClient

\* The TLPs of the eight modes of software/kc705_test/ipnuma_client.c.
ClientShapes == {Shape(mode) : mode \in Modes}

\* One TLP of two beats.
OneShape == {Shape(0)}

\* Register reads, as the driver issues them.
BarReads == {[type |-> "RD32", dw |-> 1, bar |-> "BAR0", look |-> "MSG"]}

\* Every kind of request the card decodes, and TLPs it has to pass over.
AllRequests == BarReads \union
    {[type |-> "RD64", dw |-> 2, bar |-> "BAR2", look |-> "MSG"],
     [type |-> "WR32", dw |-> 1, bar |-> "BAR0", look |-> "MSG"],
     [type |-> "WR64", dw |-> 1, bar |-> "BAR2", look |-> "MSG"],
     [type |-> "WR32", dw |-> 3, bar |-> "BAR2", look |-> "MSG"],
     [type |-> "CPL",  dw |-> 1, bar |-> "none", look |-> "MSG"]}

Load(tlps, pauses, turnoff, shapes) ==
    [tlps |-> tlps, bubbles |-> pauses, throttle |-> pauses,
     turnoff |-> turnoff, shapes |-> shapes]

\* Frames of every mode while the host reads registers, on a core that takes
\* every beat at once (XGMII_RX_ENGINE does not look at tready).  While the
\* network is silent, on a core that pauses in both directions: every kind
\* of request of the host, and reads while the card is turned off.
NetworkOrHost == <<Load(BarReads, FALSE, FALSE, ClientShapes),
                   Load(AllRequests, TRUE, FALSE, {}),
                   Load(BarReads, TRUE, TRUE, {})>>

\* Register reads against frames of one kind, and against requests to turn
\* the card off.
ReadsAndFrames == <<Load(BarReads, FALSE, FALSE, OneShape),
                    Load(BarReads, FALSE, TRUE, {})>>

\* The hypotheses of the theorems TlpsAreWhole and FramesInOrder hold of both
\* instances.
ASSUME InstancesQualify == Sender /\ CoreReady

=============================================================================
