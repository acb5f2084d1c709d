--------------------------- MODULE MCIpnumaDriver ----------------------------
(***************************************************************************)
(* Small instances of IpnumaDriver.                                        *)
(***************************************************************************)
EXTENDS IpnumaDriver, TLC

CONSTANTS u1, u2

TwoUsers == {u1, u2}

Symmetry == Permutations(TwoUsers)

\* Machines on which everything works, on which the calls fail that err_out
\* unwinds, on which all calls but those for the interrupt and the device node
\* fail, and on which any call fails.
SomeMachines ==
    {m \in MachineKinds :
       m.failures \in {{}, Unwound, Resources \ {"irq", "misc"}, Resources}}

=============================================================================
