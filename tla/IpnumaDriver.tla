---------------------------- MODULE IpnumaDriver -----------------------------
(***************************************************************************)
(* The life of the kernel module of software/driver/ipnuma.c: what         *)
(* ipnuma_init_one acquires from the kernel, in which order and with which *)
(* unwinding, what ipnuma_remove_one gives back, and the processes that    *)
(* use /dev/ipnuma/0 meanwhile.  There is one board.  A step of a probe or *)
(* of a removal is one call of the kernel; processes run between them.     *)
(*                                                                         *)
(* held counts, per kind of resource, the acquisitions not given back; the *)
(* kernel's side of each call is taken from how the driver uses it.        *)
(***************************************************************************)
EXTENDS Integers, Sequences

CONSTANTS
    Users,          \* processes that use the device
    Machines,       \* the machines the driver may run on
    MaxHeld         \* probing stops when a count has come this far

Resources == {"enable", "regions", "mmio0", "mmio1", "dma", "irq", "misc"}
Pointers  == {"mmio0", "mmio1", "dma"}

(***************************************************************************)
(* What is true of a machine: the calls of ipnuma_init_one that may fail,  *)
(* whether the board may be unbound through sysfs while it is in use, and  *)
(* whether another driver uses the same interrupt line.                    *)
(***************************************************************************)
MachineKinds == [failures : SUBSET Resources, unbind : BOOLEAN,
                 sharedLine : BOOLEAN]

ASSUME MachinesAssumption == Machines \subseteq MachineKinds
ASSUME MaxHeldAssumption == MaxHeld \in Nat \ {0}

VARIABLES
    machine,    \* where the driver runs
    loaded,     \* the module: "no", "live" or "going"
    call,       \* the driver function the kernel runs, or "none"
    step,       \* its next step
    bound,      \* the last probe returned 0 and no removal followed
    held,       \* resource -> acquisitions not given back
    ptr,        \* mmio0_ptr, mmio1_ptr, dma_virt_ptr: TRUE when not NULL
    irqDepth,   \* disable_irq calls in force on the line
    user        \* process -> "closed", "open", "ioctl" or "mmio"

vars == <<machine, loaded, call, step, bound, held, ptr, irqDepth, user>>

\* The calls of ipnuma_init_one and of ipnuma_remove_one, in order.
ProbeSteps  == <<"enable", "regions", "mmio0", "mmio1", "dma", "irq", "misc">>
\* Faulty: free_irq is missing.
RemoveStepsNoFreeIrq == <<"irq_off", "mmio0", "mmio1", "dma", "regions",
                          "enable", "misc">>

RemoveSteps == <<"irq_off", "irq", "mmio0", "mmio1", "dma", "regions",
                 "enable", "misc">>

Init ==
    /\ machine \in Machines
    /\ loaded = "no" /\ call = "none" /\ step = 1 /\ bound = FALSE
    /\ held = [r \in Resources |-> 0]
    /\ ptr = [p \in Pointers |-> FALSE]
    /\ irqDepth = 0
    /\ user = [u \in Users |-> "closed"]

Get(r) == held' = [held EXCEPT ![r] = @ + 1]
Put(r) == held' = [held EXCEPT ![r] = @ - 1]

-----------------------------------------------------------------------------
(***************************************************************************)
(* ipnuma_init_one.                                                        *)
(***************************************************************************)
StartProbe ==
    /\ call' = "probe" /\ step' = 1
    /\ ptr' = [p \in Pointers |-> FALSE]
    /\ \A r \in Resources : held[r] < MaxHeld /\ -held[r] < MaxHeld
    /\ irqDepth < MaxHeld

\* ipnuma_init: pci_register_driver probes the board.
ModuleInit ==
    /\ machine \in Machines
    /\ loaded = "no"
    /\ loaded' = "live"
    /\ StartProbe
    /\ UNCHANGED <<machine, bound, held, irqDepth, user>>

\* The board is bound again through sysfs.
Rebind ==
    /\ loaded = "live" /\ call = "none" /\ ~bound
    /\ StartProbe
    /\ UNCHANGED <<machine, loaded, bound, held, irqDepth, user>>

\* Regions that are still taken, by anyone, are not given out again.
MayFail(r) == r \in machine.failures \/ (r = "regions" /\ held["regions"] > 0)
MayWork(r) == ~(r = "regions" /\ held["regions"] > 0)

Probing(r) == call = "probe" /\ step <= Len(ProbeSteps)
                /\ ProbeSteps[step] = r

\* request_irq on a line without users enables it.
ProbeOk ==
    /\ \E r \in Resources :
         /\ Probing(r) /\ MayWork(r)
         /\ Get(r)
         /\ ptr' = IF r \in Pointers THEN [ptr EXCEPT ![r] = TRUE] ELSE ptr
         /\ irqDepth' = IF r = "irq" /\ held["irq"] = 0 /\ ~machine.sharedLine
                          THEN 0 ELSE irqDepth
    /\ step' = step + 1
    /\ UNCHANGED <<machine, loaded, call, bound, user>>

\* Faulty: the probe goes on after an error.
ProbeErrorIgnored ==
    /\ \E r \in Resources \ {"irq", "misc"} : Probing(r) /\ MayFail(r)
    /\ step' = step + 1
    /\ UNCHANGED <<machine, loaded, call, bound, held, ptr, irqDepth, user>>

\* goto err_out
ProbeError ==
    /\ \E r \in Resources \ {"irq", "misc"} : Probing(r) /\ MayFail(r)
    /\ call' = "err_out" /\ step' = 1
    /\ UNCHANGED <<machine, loaded, bound, held, ptr, irqDepth, user>>

\* A failed request_irq is reported and ignored.
ProbeNoIrq ==
    /\ Probing("irq") /\ MayFail("irq")
    /\ step' = step + 1
    /\ UNCHANGED <<machine, loaded, call, bound, held, ptr, irqDepth, user>>

\* A failed misc_register ends the probe as it is.
ProbeNoMisc ==
    /\ Probing("misc") /\ MayFail("misc")
    /\ call' = "none" /\ step' = 1
    /\ UNCHANGED <<machine, loaded, bound, held, ptr, irqDepth, user>>

ProbeDone ==
    /\ call = "probe" /\ step > Len(ProbeSteps)
    /\ call' = "none" /\ step' = 1 /\ bound' = TRUE
    /\ UNCHANGED <<machine, loaded, held, ptr, irqDepth, user>>

\* pci_release_regions releases whatever is taken, pci_disable_device counts
\* down whatever was counted up.
ErrOut ==
    /\ call = "err_out"
    /\ held' = [held EXCEPT !["regions"] = 0, !["enable"] = @ - 1]
    /\ call' = "none"
    /\ UNCHANGED <<machine, loaded, step, bound, ptr, irqDepth, user>>

-----------------------------------------------------------------------------
(***************************************************************************)
(* ipnuma_remove_one.                                                      *)
(***************************************************************************)
NoDescriptor == \A u \in Users : user[u] = "closed"

StartRemove == call' = "remove" /\ step' = 1 /\ bound' = FALSE

\* Faulty: fops.owner is not set.
ModuleExitNoOwner ==
    /\ loaded = "live" /\ call = "none"
    /\ loaded' = "going"
    /\ IF bound THEN StartRemove ELSE UNCHANGED <<call, step, bound>>
    /\ UNCHANGED <<machine, held, ptr, irqDepth, user>>

\* ipnuma_cleanup: an open descriptor holds the module (fops.owner), and a
\* module that goes away opens no new one.
ModuleExit ==
    /\ loaded = "live" /\ call = "none" /\ NoDescriptor
    /\ loaded' = "going"
    /\ IF bound THEN StartRemove ELSE UNCHANGED <<call, step, bound>>
    /\ UNCHANGED <<machine, held, ptr, irqDepth, user>>

Unbind ==
    /\ machine.unbind
    /\ loaded = "live" /\ call = "none" /\ bound
    /\ StartRemove
    /\ UNCHANGED <<machine, loaded, held, ptr, irqDepth, user>>

Removing(r) == call = "remove" /\ step <= Len(RemoveSteps)
                 /\ RemoveSteps[step] = r

\* Faulty: enable_irq instead of disable_irq.
DisableIrqEnables ==
    /\ Removing("irq_off")
    /\ irqDepth' = irqDepth - 1
    /\ step' = step + 1
    /\ UNCHANGED <<machine, loaded, call, bound, held, ptr, user>>

DisableIrq ==
    /\ Removing("irq_off")
    /\ irqDepth' = irqDepth + 1
    /\ step' = step + 1
    /\ UNCHANGED <<machine, loaded, call, bound, held, ptr, user>>

\* free_irq, pci_release_regions, pci_disable_device, misc_deregister
GiveBack ==
    /\ \E r \in {"irq", "regions", "enable", "misc"} : Removing(r) /\ Put(r)
    /\ step' = step + 1
    /\ UNCHANGED <<machine, loaded, call, bound, ptr, irqDepth, user>>

\* Faulty: the DMA buffer is not freed.
UnmapNoDma ==
    /\ \E p \in Pointers :
         /\ Removing(p)
         /\ IF ptr[p] /\ p # "dma" THEN Put(p) ELSE UNCHANGED held
         /\ ptr' = IF p = "dma" THEN ptr ELSE [ptr EXCEPT ![p] = FALSE]
    /\ step' = step + 1
    /\ UNCHANGED <<machine, loaded, call, bound, irqDepth, user>>

\* Only what is mapped is unmapped; dma_virt_ptr keeps its value.
Unmap ==
    /\ \E p \in Pointers :
         /\ Removing(p)
         /\ IF ptr[p] THEN Put(p) ELSE UNCHANGED held
         /\ ptr' = IF p = "dma" THEN ptr ELSE [ptr EXCEPT ![p] = FALSE]
    /\ step' = step + 1
    /\ UNCHANGED <<machine, loaded, call, bound, irqDepth, user>>

RemoveDone ==
    /\ call = "remove" /\ step > Len(RemoveSteps)
    /\ call' = "none" /\ step' = 1
    /\ UNCHANGED <<machine, loaded, bound, held, ptr, irqDepth, user>>

ModuleGone ==
    /\ loaded = "going" /\ call = "none"
    /\ loaded' = "no"
    /\ UNCHANGED <<machine, call, step, bound, held, ptr, irqDepth, user>>

-----------------------------------------------------------------------------
(***************************************************************************)
(* Processes.  ipnuma_open, ipnuma_read, ipnuma_write, ipnuma_poll and     *)
(* ipnuma_release touch nothing; ipnuma_ioctl copies to or from mmio0_ptr  *)
(* for every command but GETPADDR and GETBARADDR, under no lock.           *)
(***************************************************************************)
SetUser(u, from, to) ==
    /\ user[u] = from
    /\ user' = [user EXCEPT ![u] = to]
    /\ UNCHANGED <<machine, loaded, call, step, bound, held, ptr, irqDepth>>

Open(u) == loaded = "live" /\ held["misc"] > 0 /\ SetUser(u, "closed", "open")
Release(u)     == SetUser(u, "open", "closed")
Ioctl(u)       == SetUser(u, "open", "ioctl")
IoctlAccess(u) == SetUser(u, "ioctl", "mmio")
IoctlReturn(u) == \E at \in {"ioctl", "mmio"} : SetUser(u, at, "open")

Driver ==
    \/ ProbeOk \/ ProbeError \/ ProbeNoIrq \/ ProbeNoMisc \/ ProbeDone \/ ErrOut
    \/ DisableIrq \/ GiveBack \/ Unmap \/ RemoveDone \/ ModuleGone

UserStep ==
    \E u \in Users :
      Open(u) \/ Release(u) \/ Ioctl(u) \/ IoctlAccess(u) \/ IoctlReturn(u)

Next == ModuleInit \/ Rebind \/ ModuleExit \/ Unbind \/ Driver \/ UserStep

Spec == Init /\ [][Next]_vars

-----------------------------------------------------------------------------
(***************************************************************************)
(* Properties.                                                             *)
(***************************************************************************)

\* Types of the driver's globals and of the kernel's counts.
TypeOK ==
    /\ machine \in Machines
    /\ loaded \in {"no", "live", "going"}
    /\ call \in {"none", "probe", "err_out", "remove"}
    /\ step \in 1..9
    /\ bound \in BOOLEAN
    /\ held \in [Resources -> Int]
    /\ ptr \in [Pointers -> BOOLEAN]
    /\ irqDepth \in Nat
    /\ user \in [Users -> {"closed", "open", "ioctl", "mmio"}]

(***************************************************************************)
(* Unless the board is unbound under it, an ioctl never copies to or from  *)
(* registers that are not mapped, though ipnuma_remove_one unmaps them     *)
(* before misc_deregister and ipnuma_ioctl checks nothing.                 *)
(***************************************************************************)
MmioMapped ==
    ~machine.unbind =>
      \A u \in Users : user[u] = "mmio" => ptr["mmio0"] /\ held["mmio0"] > 0

\* The failures that err_out unwinds completely.
Unwound == {"regions", "mmio0"}

(***************************************************************************)
(* Where only these calls fail, everything the driver acquired has been    *)
(* given back, once, when the module is gone, however often it was bound   *)
(* and unbound.                                                            *)
(***************************************************************************)
NothingLeft ==
    machine.failures \subseteq Unwound /\ loaded = "no"
      => \A r \in Resources : held[r] = 0

(***************************************************************************)
(* ipnuma_remove_one calls disable_irq and nothing calls enable_irq; still *)
(* the line of a bound board that has it for itself is enabled, as long as *)
(* request_irq and misc_register work.                                     *)
(***************************************************************************)
LineEnabled ==
    ~machine.sharedLine /\ machine.failures \intersect {"irq", "misc"} = {}
      => (bound => irqDepth = 0)

(***************************************************************************)
(* Whatever failed before, on every machine, a board that was probed       *)
(* successfully owns its regions, has both BARs and the DMA buffer mapped, *)
(* and has its device node: err_out of an earlier probe never takes it     *)
(* away.                                                                   *)
(***************************************************************************)
BoundComplete ==
    bound => /\ \A r \in Resources \ {"enable", "irq"} : held[r] > 0
             /\ \A p \in Pointers : ptr[p]

=============================================================================
