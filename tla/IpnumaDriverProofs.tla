------------------------- MODULE IpnumaDriverProofs --------------------------
(***************************************************************************)
(* Proofs about IpnumaDriver, for every set of processes and machines and  *)
(* every bound on probing.                                                 *)
(***************************************************************************)
EXTENDS IpnumaDriver, TLAPS

\* The places of a resource in ipnuma_init_one and in ipnuma_remove_one.
ProbeAt(r) == CASE r = "enable"  -> 1
                [] r = "regions" -> 2
                [] r = "mmio0"   -> 3
                [] r = "mmio1"   -> 4
                [] r = "dma"     -> 5
                [] r = "irq"     -> 6
                [] r = "misc"    -> 7

RemoveAt(r) == CASE r = "irq"     -> 2
                 [] r = "mmio0"   -> 3
                 [] r = "mmio1"   -> 4
                 [] r = "dma"     -> 5
                 [] r = "regions" -> 6
                 [] r = "enable"  -> 7
                 [] r = "misc"    -> 8

\* The driver should have r: the probe has come past it, or the removal has
\* not come to it yet.
Active(r) == \/ bound
             \/ call = "probe" /\ step > ProbeAt(r)
             \/ call = "remove" /\ step <= RemoveAt(r)

(***************************************************************************)
(* The inductive invariant.                                                *)
(***************************************************************************)

\* When the kernel runs the driver's functions.
Life ==
    /\ call # "none" => ~bound /\ loaded # "no"
    /\ call \in {"probe", "err_out"} => loaded = "live"
    /\ call = "probe" => step <= 8
    /\ bound => loaded = "live"

\* What err_out, request_irq and misc_register cannot spoil.
Counted == Resources \ {"enable", "irq"}
Complete ==
    /\ \A r \in Counted : held[r] >= 0 /\ (Active(r) => held[r] > 0)
    /\ \A p \in Pointers : Active(p) => ptr[p]

\* The device node exists as long as it should.
Node == held["misc"] = IF Active("misc") THEN 1 ELSE 0

\* On a machine without unbinding the board stays while the device is open.
Opened ==
    ~machine.unbind =>
      /\ call = "remove" => loaded = "going"
      /\ \A u \in Users : user[u] # "closed"
                            => loaded = "live" /\ Active("misc")

\* A line of its own is requested once, and enabled from then on.
Line ==
    ~machine.sharedLine /\ machine.failures \intersect {"irq", "misc"} = {}
      => /\ held["irq"] = IF Active("irq") THEN 1 ELSE 0
         /\ Active("irq") /\ call # "remove" => irqDepth = 0

\* Where only the failures happen that err_out unwinds, the driver has what
\* it should have, and at err_out what that gives back.
Balanced ==
    machine.failures \subseteq Unwound =>
      \A r \in Resources :
        IF call = "err_out" /\ r = "regions" THEN held[r] \in {0, 1}
        ELSE held[r] = IF Active(r) \/ (call = "err_out" /\ r = "enable")
                         THEN 1 ELSE 0

Inv == TypeOK /\ Life /\ Complete /\ Node /\ Opened /\ Line /\ Balanced

-----------------------------------------------------------------------------
(***************************************************************************)
(* How the steps of the two functions change what should be there.         *)
(***************************************************************************)

\* Every resource has a place of its own.
LEMMA Places ==
    \A r \in Resources :
      /\ ProbeAt(r) \in 1..7 /\ RemoveAt(r) \in 2..8
      /\ \A q \in Resources \ {r} : /\ ProbeAt(q) # ProbeAt(r)
                                    /\ RemoveAt(q) # RemoveAt(r)
    BY DEF Resources, ProbeAt, RemoveAt

\* ipnuma_init_one is at r.
LEMMA AtProbe ==
    ASSUME TypeOK, NEW r \in Resources, Probing(r)
    PROVE  call = "probe" /\ step = ProbeAt(r)
    BY DEF TypeOK, Probing, ProbeSteps, ProbeAt, Resources

\* ipnuma_remove_one is at r.
LEMMA AtRemove ==
    ASSUME TypeOK, NEW r \in Resources, Removing(r)
    PROVE  call = "remove" /\ step = RemoveAt(r)
    BY DEF TypeOK, Removing, RemoveSteps, RemoveAt, Resources

\* A step of the probe adds its resource, and no other.
LEMMA ProbeAdds ==
    ASSUME TypeOK, Life, NEW r \in Resources, Probing(r),
           step' = step + 1, UNCHANGED <<call, bound>>
    PROVE  /\ Active(r)' /\ ~Active(r)
           /\ \A q \in Resources \ {r} : Active(q)' <=> Active(q)
<1>1. call = "probe" /\ step = ProbeAt(r) /\ ~bound
    BY AtProbe DEF Life
<1>2. \A q \in Resources \ {r} : ProbeAt(q) # step /\ ProbeAt(q) \in Nat
    BY <1>1, Places
<1> QED
    BY <1>1, <1>2 DEF Active, TypeOK

\* A step of the removal takes its resource away, and no other.
LEMMA RemoveTakes ==
    ASSUME TypeOK, Life, NEW r \in Resources, Removing(r),
           step' = step + 1, UNCHANGED <<call, bound>>
    PROVE  /\ Active(r) /\ ~Active(r)'
           /\ \A q \in Resources \ {r} : Active(q)' <=> Active(q)
<1>1. call = "remove" /\ step = RemoveAt(r) /\ ~bound
    BY AtRemove DEF Life
<1>2. \A q \in Resources \ {r} : RemoveAt(q) # step /\ RemoveAt(q) \in Nat
    BY <1>1, Places
<1> QED
    BY <1>1, <1>2 DEF Active, TypeOK


-----------------------------------------------------------------------------
(***************************************************************************)
(* Every action preserves the invariant.                                   *)
(***************************************************************************)

\* A call of the probe succeeds.
LEMMA ProbeOkStep == ASSUME Inv, ProbeOk PROVE Inv'
<1> USE DEF Inv
<1>1. PICK r \in Resources :
        /\ Probing(r) /\ Get(r)
        /\ ptr' = IF r \in Pointers THEN [ptr EXCEPT ![r] = TRUE] ELSE ptr
        /\ irqDepth' = IF r = "irq" /\ held["irq"] = 0 /\ ~machine.sharedLine
                         THEN 0 ELSE irqDepth
    BY DEF ProbeOk
<1>2. /\ step' = step + 1
      /\ UNCHANGED <<machine, loaded, call, bound, user>>
    BY DEF ProbeOk
<1>3. /\ Active(r)' /\ ~Active(r)
      /\ \A q \in Resources \ {r} : Active(q)' <=> Active(q)
    BY <1>1, <1>2, ProbeAdds
<1>4. call = "probe" /\ step \in 1..7 /\ ~bound /\ loaded = "live"
    BY <1>1, AtProbe, Places DEF Life
<1>5. /\ held[r] \in Int /\ held'[r] = held[r] + 1
      /\ held' \in [Resources -> Int]
      /\ \A q \in Resources \ {r} : held'[q] = held[q]
    BY <1>1 DEF Get, TypeOK
<1>6. TypeOK'
    BY <1>1, <1>2, <1>4, <1>5 DEF TypeOK
<1>7. Life'
    BY <1>2, <1>4 DEF Life
<1>8. Complete'
  <2>1. \A q \in Counted : held'[q] >= 0 /\ (Active(q)' => held'[q] > 0)
    BY <1>3, <1>5 DEF Complete, Counted, TypeOK
  <2>2. \A p \in Pointers : Active(p)' => ptr'[p]
    BY <1>1, <1>3 DEF Complete, Pointers, Resources, TypeOK
  <2> QED
    BY <2>1, <2>2 DEF Complete
<1>9. Node'
    BY <1>3, <1>5 DEF Node, Resources
<1>10. Opened'
    BY <1>2, <1>3, <1>4 DEF Opened, Resources
<1>11. Line'
    BY <1>1, <1>2, <1>3, <1>4, <1>5 DEF Line, Resources
<1>12. Balanced'
    BY <1>2, <1>3, <1>4, <1>5 DEF Balanced
<1> QED
    BY <1>6, <1>7, <1>8, <1>9, <1>10, <1>11, <1>12

\* A call of the probe fails, and err_out has to give back what it had.
LEMMA ProbeErrorStep == ASSUME Inv, ProbeError PROVE Inv'
<1> USE DEF Inv
<1>1. PICK r \in Resources \ {"irq", "misc"} : Probing(r) /\ MayFail(r)
    BY DEF ProbeError
<1>2. /\ call' = "err_out" /\ step' = 1
      /\ UNCHANGED <<machine, loaded, bound, held, ptr, irqDepth, user>>
    BY DEF ProbeError
<1>3. call = "probe" /\ step = ProbeAt(r) /\ ~bound /\ loaded = "live"
    BY <1>1, AtProbe DEF Life
<1>4. \A q \in Resources : ~Active(q)'
    BY <1>2, <1>3 DEF Active
<1>5. ~Active("misc") /\ ~Active("irq")
    BY <1>3 DEF Active, ProbeAt, Resources
<1>6. TypeOK' /\ Life' /\ Complete'
    BY <1>2, <1>3, <1>4 DEF TypeOK, Life, Complete, Counted, Pointers,
                            Resources
<1>7. Node' /\ Opened' /\ Line'
    BY <1>2, <1>4, <1>5 DEF Node, Opened, Line, Resources
<1>8. Balanced'
  <2> SUFFICES ASSUME machine.failures \subseteq Unwound,
                      NEW q \in Resources
               PROVE  IF q = "regions" THEN held[q] \in {0, 1}
                      ELSE held[q] = IF q = "enable" THEN 1 ELSE 0
    BY <1>2, <1>4 DEF Balanced
  <2>1. r \in {"regions", "mmio0"}
    BY <1>1 DEF MayFail, Unwound
  <2>2. held[q] = IF Active(q) THEN 1 ELSE 0
    BY <1>3 DEF Balanced
  <2> QED
    BY <1>3, <2>1, <2>2 DEF Active, ProbeAt, Resources
<1> QED
    BY <1>6, <1>7, <1>8

\* request_irq fails and the probe goes on.
LEMMA ProbeNoIrqStep == ASSUME Inv, ProbeNoIrq PROVE Inv'
<1> USE DEF Inv
<1>1. /\ Probing("irq") /\ "irq" \in machine.failures /\ step' = step + 1
      /\ UNCHANGED <<machine, loaded, call, bound, held, ptr, irqDepth, user>>
    BY DEF ProbeNoIrq, MayFail
<1>2. call = "probe" /\ step = 6 /\ ~bound /\ loaded = "live"
    BY <1>1, AtProbe DEF Life, ProbeAt, Resources
<1>3. \A q \in Resources \ {"irq"} : Active(q)' <=> Active(q)
    BY <1>1, ProbeAdds DEF Resources
<1>4. TypeOK' /\ Life'
    BY <1>1, <1>2 DEF TypeOK, Life
<1>5. Complete' /\ Node' /\ Opened'
    BY <1>1, <1>2, <1>3 DEF Complete, Counted, Pointers, Node, Opened,
                            Resources
<1>6. Line' /\ Balanced'
    BY <1>1 DEF Line, Balanced, Unwound
<1> QED
    BY <1>4, <1>5, <1>6

\* misc_register fails: the probe ends and leaves everything in place.
LEMMA ProbeNoMiscStep == ASSUME Inv, ProbeNoMisc PROVE Inv'
<1> USE DEF Inv
<1>1. /\ Probing("misc") /\ "misc" \in machine.failures
      /\ call' = "none" /\ step' = 1
      /\ UNCHANGED <<machine, loaded, bound, held, ptr, irqDepth, user>>
    BY DEF ProbeNoMisc, MayFail
<1>2. call = "probe" /\ step = 7 /\ ~bound
    BY <1>1, AtProbe DEF Life, ProbeAt, Resources
<1>3. ~Active("misc") /\ \A q \in Resources : ~Active(q)'
    BY <1>1, <1>2 DEF Active, ProbeAt
<1>4. TypeOK' /\ Life' /\ Complete'
    BY <1>1, <1>2, <1>3 DEF TypeOK, Life, Complete, Counted, Pointers,
                            Resources
<1>5. Node' /\ Opened'
    BY <1>1, <1>3 DEF Node, Opened, Resources
<1>6. Line' /\ Balanced'
    BY <1>1 DEF Line, Balanced, Unwound
<1> QED
    BY <1>4, <1>5, <1>6

\* The probe returns 0.
LEMMA ProbeDoneStep == ASSUME Inv, ProbeDone PROVE Inv'
<1> USE DEF Inv
<1>1. /\ call = "probe" /\ step > 7
      /\ call' = "none" /\ step' = 1 /\ bound' = TRUE
      /\ UNCHANGED <<machine, loaded, held, ptr, irqDepth, user>>
    BY DEF ProbeDone, ProbeSteps
<1>2. \A q \in Resources : Active(q) /\ Active(q)'
    BY <1>1, Places DEF Active, TypeOK
<1>3. TypeOK' /\ Life'
    BY <1>1 DEF TypeOK, Life
<1>4. Complete' /\ Node' /\ Opened'
    BY <1>1, <1>2 DEF Complete, Counted, Pointers, Node, Opened, Resources
<1>5. Line' /\ Balanced'
    BY <1>1, <1>2 DEF Line, Balanced, Resources
<1> QED
    BY <1>3, <1>4, <1>5

\* err_out gives back regions and enable.
LEMMA ErrOutStep == ASSUME Inv, ErrOut PROVE Inv'
<1> USE DEF Inv
<1>1. /\ call = "err_out" /\ call' = "none"
      /\ held' = [held EXCEPT !["regions"] = 0, !["enable"] = @ - 1]
      /\ UNCHANGED <<machine, loaded, step, bound, ptr, irqDepth, user>>
    BY DEF ErrOut
<1>2. ~bound /\ \A q \in Resources : ~Active(q) /\ ~Active(q)'
    BY <1>1 DEF Life, Active
<1>3. /\ held' \in [Resources -> Int]
      /\ held'["regions"] = 0 /\ held'["enable"] = held["enable"] - 1
      /\ \A q \in Resources \ {"regions", "enable"} : held'[q] = held[q]
    BY <1>1 DEF TypeOK, Resources
<1>4. TypeOK' /\ Life'
    BY <1>1, <1>2, <1>3 DEF TypeOK, Life
<1>5. Complete' /\ Node' /\ Opened'
    BY <1>1, <1>2, <1>3 DEF Complete, Counted, Pointers, Node, Opened,
                            Resources
<1>6. Line' /\ Balanced'
    BY <1>1, <1>2, <1>3 DEF Line, Balanced, Resources
<1> QED
    BY <1>4, <1>5, <1>6

\* A probe begins, when the module is loaded or the board is bound again.
LEMMA StartProbeStep == ASSUME Inv, ModuleInit \/ Rebind PROVE Inv'
<1> USE DEF Inv
<1>1. /\ call = "none" /\ ~bound
      /\ loaded' = "live" /\ call' = "probe" /\ step' = 1
      /\ ptr' = [p \in Pointers |-> FALSE]
      /\ UNCHANGED <<machine, bound, held, irqDepth, user>>
    BY DEF ModuleInit, Rebind, StartProbe, Life, TypeOK
<1>2. \A q \in Resources : ~Active(q) /\ ~Active(q)'
    BY <1>1, Places DEF Active
<1>3. TypeOK' /\ Life'
    BY <1>1 DEF TypeOK, Life
<1>4. Complete' /\ Node'
    BY <1>1, <1>2 DEF Complete, Counted, Pointers, Node, Resources
<1>5. Opened' /\ Line' /\ Balanced'
    BY <1>1, <1>2 DEF Opened, Line, Balanced, Resources
<1> QED
    BY <1>3, <1>4, <1>5

\* A removal begins, when the module is unloaded or the board is unbound.
LEMMA StartRemoveStep ==
    ASSUME Inv, ModuleExit \/ Unbind
    PROVE  Inv'
<1> USE DEF Inv
<1>1. CASE bound
  <2>1. /\ loaded = "live" /\ call = "none"
        /\ call' = "remove" /\ step' = 1 /\ bound' = FALSE
        /\ UNCHANGED <<machine, held, ptr, irqDepth, user>>
    BY <1>1 DEF ModuleExit, Unbind, StartRemove
  <2>2. \/ loaded' = "going" /\ NoDescriptor
        \/ loaded' = loaded /\ machine.unbind
    BY DEF ModuleExit, Unbind
  <2>3. \A q \in Resources : Active(q) /\ Active(q)'
    BY <1>1, <2>1, Places DEF Active
  <2> loaded' \in {"live", "going"}
    BY <2>1, <2>2
  <2>4. TypeOK' /\ Life'
    <3> bound' \in BOOLEAN
      BY <2>1
    <3>1. TypeOK'
      BY <2>1 DEF TypeOK
    <3>2. Life'
      BY <2>1 DEF Life
    <3> QED
      BY <3>1, <3>2
  <2>5. Complete' /\ Node'
    BY <2>1, <2>3 DEF Complete, Counted, Pointers, Node, Resources
  <2>6. Opened'
    BY <2>1, <2>2 DEF Opened, NoDescriptor
  <2>7. Line' /\ Balanced'
    BY <2>1, <2>3 DEF Line, Balanced, Resources
  <2> QED
    BY <2>4, <2>5, <2>6, <2>7
<1>2. CASE ~bound
  <2>1. /\ loaded' = "going" /\ call = "none" /\ NoDescriptor
        /\ UNCHANGED <<machine, call, step, bound, held, ptr, irqDepth, user>>
    BY <1>2 DEF ModuleExit, Unbind
  <2>2. \A q \in Resources : ~Active(q) /\ ~Active(q)'
    BY <1>2, <2>1 DEF Active
  <2>3. TypeOK' /\ Life'
    BY <1>2, <2>1 DEF TypeOK, Life
  <2>4. Complete' /\ Node' /\ Opened'
    BY <2>1, <2>2 DEF Complete, Counted, Pointers, Node, Opened, Resources,
                      NoDescriptor
  <2>5. Line' /\ Balanced'
    BY <2>1, <2>2 DEF Line, Balanced, Resources
  <2> QED
    BY <2>3, <2>4, <2>5
<1> QED
    BY <1>1, <1>2

\* disable_irq
LEMMA DisableIrqStep == ASSUME Inv, DisableIrq PROVE Inv'
<1> USE DEF Inv
<1>1. /\ call = "remove" /\ step = 1
      /\ irqDepth' = irqDepth + 1 /\ step' = step + 1
      /\ UNCHANGED <<machine, loaded, call, bound, held, ptr, user>>
    BY DEF DisableIrq, Removing, RemoveSteps, TypeOK
<1>2. \A q \in Resources : Active(q) /\ Active(q)'
    BY <1>1, Places DEF Active
<1>3. TypeOK' /\ Life'
    BY <1>1 DEF TypeOK, Life
<1>4. Complete' /\ Node' /\ Opened'
    BY <1>1, <1>2 DEF Complete, Counted, Pointers, Node, Opened, Resources
<1>5. Line' /\ Balanced'
    BY <1>1, <1>2 DEF Line, Balanced, Resources
<1> QED
    BY <1>3, <1>4, <1>5

\* free_irq, pci_release_regions, pci_disable_device or misc_deregister
LEMMA GiveBackStep == ASSUME Inv, GiveBack PROVE Inv'
<1> USE DEF Inv
<1>1. PICK r \in {"irq", "regions", "enable", "misc"} : Removing(r) /\ Put(r)
    BY DEF GiveBack
<1>2. /\ step' = step + 1
      /\ UNCHANGED <<machine, loaded, call, bound, ptr, irqDepth, user>>
    BY DEF GiveBack
<1>3. r \in Resources /\ r \notin Pointers
    BY <1>1 DEF Resources, Pointers
<1>4. /\ Active(r) /\ ~Active(r)'
      /\ \A q \in Resources \ {r} : Active(q)' <=> Active(q)
    BY <1>1, <1>2, <1>3, RemoveTakes
<1>5. call = "remove" /\ step \in 2..8 /\ ~bound
    BY <1>1, <1>3, AtRemove, Places DEF Life
<1>6. /\ held[r] \in Int /\ held'[r] = held[r] - 1
      /\ held' \in [Resources -> Int]
      /\ \A q \in Resources \ {r} : held'[q] = held[q]
    BY <1>1, <1>3 DEF Put, TypeOK
<1>7. TypeOK' /\ Life'
    BY <1>2, <1>5, <1>6 DEF TypeOK, Life
<1>8. Complete'
  <2>1. \A q \in Counted : held'[q] >= 0 /\ (Active(q)' => held'[q] > 0)
    BY <1>4, <1>6 DEF Complete, Counted, TypeOK
  <2>2. \A p \in Pointers : Active(p)' => ptr'[p]
    BY <1>2, <1>3, <1>4 DEF Complete, Pointers, Resources
  <2> QED
    BY <2>1, <2>2 DEF Complete
<1>9. Node'
    BY <1>4, <1>6 DEF Node, Resources
<1>10. Opened'
    BY <1>2, <1>4, <1>5 DEF Opened, Resources
<1>11. Line'
    BY <1>2, <1>4, <1>5, <1>6 DEF Line, Resources
<1>12. Balanced'
    BY <1>2, <1>4, <1>5, <1>6 DEF Balanced
<1> QED
    BY <1>7, <1>8, <1>9, <1>10, <1>11, <1>12

\* iounmap or dma_free_coherent
LEMMA UnmapStep == ASSUME Inv, Unmap PROVE Inv'
<1> USE DEF Inv
<1>1. PICK r \in Pointers :
        /\ Removing(r)
        /\ IF ptr[r] THEN Put(r) ELSE UNCHANGED held
        /\ ptr' = IF r = "dma" THEN ptr ELSE [ptr EXCEPT ![r] = FALSE]
    BY DEF Unmap
<1>2. /\ step' = step + 1
      /\ UNCHANGED <<machine, loaded, call, bound, irqDepth, user>>
    BY DEF Unmap
<1>3. r \in Resources /\ r \notin {"irq", "misc", "enable", "regions"}
    BY <1>1 DEF Resources, Pointers
<1>4. /\ Active(r) /\ ~Active(r)'
      /\ \A q \in Resources \ {r} : Active(q)' <=> Active(q)
    BY <1>1, <1>2, <1>3, RemoveTakes
<1>5. call = "remove" /\ step \in 2..8 /\ ~bound
    BY <1>1, <1>3, AtRemove, Places DEF Life
<1>6. /\ held[r] \in Int /\ held'[r] = held[r] - 1
      /\ held' \in [Resources -> Int]
      /\ \A q \in Resources \ {r} : held'[q] = held[q]
    BY <1>1, <1>3, <1>4 DEF Put, TypeOK, Complete
<1>7. TypeOK' /\ Life'
    BY <1>1, <1>2, <1>5, <1>6 DEF TypeOK, Life
<1>8. Complete'
  <2>1. \A q \in Counted : held'[q] >= 0 /\ (Active(q)' => held'[q] > 0)
    BY <1>4, <1>6 DEF Complete, Counted, TypeOK
  <2>2. \A p \in Pointers : Active(p)' => ptr'[p]
    BY <1>1, <1>4 DEF Complete, Pointers, Resources, TypeOK
  <2> QED
    BY <2>1, <2>2 DEF Complete
<1>9. Node' /\ Opened' /\ Line'
    BY <1>2, <1>3, <1>4, <1>5, <1>6 DEF Node, Opened, Line, Resources
<1>10. Balanced'
    BY <1>2, <1>4, <1>5, <1>6 DEF Balanced
<1> QED
    BY <1>7, <1>8, <1>9, <1>10

\* The removal ends, or the module is gone.
LEMMA RemovedStep == ASSUME Inv, RemoveDone \/ ModuleGone PROVE Inv'
<1> USE DEF Inv
<1>1. /\ ~bound /\ call' = "none" /\ step' \in 1..9
      /\ UNCHANGED <<machine, bound, held, ptr, irqDepth, user>>
      /\ call # "err_out"
      /\ \/ loaded' = loaded
         \/ loaded = "going" /\ loaded' = "no"
      /\ call = "remove" \/ loaded = "going"
    BY DEF RemoveDone, ModuleGone, Life, TypeOK
<1>2. \A q \in Resources : ~Active(q) /\ ~Active(q)'
    BY <1>1, Places DEF RemoveDone, ModuleGone, Active, RemoveSteps, TypeOK
<1>3. TypeOK' /\ Life'
    BY <1>1 DEF TypeOK, Life
<1>4. Complete' /\ Node'
    BY <1>1, <1>2 DEF Complete, Counted, Pointers, Node, Resources
<1>5. Opened'
    BY <1>1, <1>2 DEF Opened, Resources
<1>6. Line' /\ Balanced'
    BY <1>1, <1>2 DEF Line, Balanced, Resources
<1> QED
    BY <1>3, <1>4, <1>5, <1>6

\* Processes come and go; only an open depends on the driver.
LEMMA UserStepStep == ASSUME Inv, UserStep PROVE Inv'
<1> USE DEF Inv
<1>1. PICK u \in Users : \E to \in {"closed", "open", "ioctl", "mmio"} :
        /\ user' = [user EXCEPT ![u] = to]
        /\ UNCHANGED <<machine, loaded, call, step, bound, held, ptr, irqDepth>>
        /\ user[u] # "closed" \/ (loaded = "live" /\ held["misc"] > 0)
    BY DEF UserStep, Open, Release, Ioctl, IoctlAccess, IoctlReturn, SetUser
<1>2. \A q : Active(q)' <=> Active(q)
    BY <1>1 DEF Active
<1>3. TypeOK' /\ Life'
    BY <1>1 DEF TypeOK, Life
<1>4. Complete' /\ Node' /\ Line' /\ Balanced'
    BY <1>1, <1>2 DEF Complete, Node, Line, Balanced
<1>5. Opened'
    BY <1>1, <1>2 DEF Opened, Node, TypeOK
<1> QED
    BY <1>3, <1>4, <1>5

\* The invariant holds on every machine.
LEMMA Invariant == Spec => []Inv
<1>1. Init => Inv
  <2> SUFFICES ASSUME Init PROVE Inv
    OBVIOUS
  <2>1. \A q : ~Active(q)
    BY DEF Init, Active
  <2>2. TypeOK /\ Life /\ Complete
    <3> bound \in BOOLEAN
      BY DEF Init
    <3>1. TypeOK
      BY DEF Init, TypeOK
    <3>2. Life
      BY DEF Init, Life
    <3>3. Complete
      BY <2>1 DEF Init, Complete, Counted, Pointers, Resources
    <3> QED
      BY <3>1, <3>2, <3>3
  <2>3. Node /\ Opened /\ Line /\ Balanced
    BY <2>1 DEF Init, Node, Opened, Line, Balanced, Resources
  <2> QED
    BY <2>2, <2>3 DEF Inv
<1>2. Inv /\ [Next]_vars => Inv'
  <2> SUFFICES ASSUME Inv, [Next]_vars PROVE Inv'
    OBVIOUS
  <2>1. CASE UNCHANGED vars
    BY <2>1 DEF vars, Inv, TypeOK, Life, Complete, Node, Opened, Line,
                Balanced, Active
  <2>2. CASE Driver
    BY <2>2, ProbeOkStep, ProbeErrorStep, ProbeNoIrqStep, ProbeNoMiscStep,
       ProbeDoneStep, ErrOutStep, DisableIrqStep, GiveBackStep, UnmapStep,
       RemovedStep DEF Driver
  <2> QED
    BY <2>1, <2>2, StartProbeStep, StartRemoveStep, UserStepStep DEF Next
<1> QED
    BY <1>1, <1>2, PTL DEF Spec

-----------------------------------------------------------------------------
\* The driver's globals and the kernel's counts keep their types.
THEOREM TypeCorrect == Spec => []TypeOK
    BY Invariant, PTL DEF Inv

\* On a machine without unbinding no ioctl touches registers that are not
\* mapped.
THEOREM NoUnmappedAccess == Spec => []MmioMapped
<1>1. Inv => MmioMapped
  <2> SUFFICES ASSUME Inv, ~machine.unbind, NEW u \in Users,
                      user[u] = "mmio"
               PROVE  ptr["mmio0"] /\ held["mmio0"] > 0
    BY DEF MmioMapped
  <2>1. loaded = "live" /\ Active("misc") /\ call # "remove"
    BY DEF Inv, Opened
  <2>2. Active("mmio0")
    BY <2>1 DEF Active, ProbeAt, Inv, TypeOK
  <2> QED
    BY <2>2 DEF Inv, Complete, Counted, Pointers, Resources
<1> QED
    BY <1>1, Invariant, PTL

\* Where only the failures happen that err_out unwinds, nothing is left
\* behind by a module that is gone.
THEOREM EverythingGivenBack == Spec => []NothingLeft
<1>1. Inv => NothingLeft
    BY DEF Inv, NothingLeft, Balanced, Life, Active, TypeOK
<1> QED
    BY <1>1, Invariant, PTL

\* The line of a bound board is enabled, on machines where it is its own and
\* where request_irq and misc_register work.
THEOREM LineStaysEnabled == Spec => []LineEnabled
<1>1. Inv => LineEnabled
    BY DEF Inv, LineEnabled, Line, Life, Active, TypeOK
<1> QED
    BY <1>1, Invariant, PTL

\* A board that was probed successfully has all it needs, whatever failed
\* before and on every machine.
THEOREM BoundIsComplete == Spec => []BoundComplete
<1>1. Inv => BoundComplete
    BY DEF Inv, BoundComplete, Complete, Counted, Active
<1> QED
    BY <1>1, Invariant, PTL

=============================================================================
