----------------------------- MODULE VirtToPhys ------------------------------
(***************************************************************************)
(* any_v2p of software/driver/virt2phys.h (and its copy in                 *)
(* software/virt2phys/virt2phys.c): the page table walk behind             *)
(* IPNUMA_IOCTL_GETPADDR.  The walk reads one level after the other and    *)
(* takes no lock, so the kernel's memory management, which is not in this  *)
(* repository, changes the entries of the page between its reads.          *)
(*                                                                         *)
(* One virtual page is modelled.  An entry of the upper levels is "none",  *)
(* "table" or, for pud and pmd, "large"; the pte holds a frame or None.    *)
(***************************************************************************)
EXTENDS Integers

CONSTANTS
    Frames,         \* physical frames
    None,           \* an entry that is not present
    Zero,           \* the value 0
    Junk            \* any other value that is no frame

ASSUME ValuesAssumption ==
    /\ {None, Zero, Junk} \intersect Frames = {}
    /\ None # Zero /\ None # Junk /\ Zero # Junk

VARIABLES
    pgd, pud, pmd,  \* the entries of the upper levels
    pte,            \* the last level's entry
    huge,           \* the frame of a large page, or None
    walk,           \* what any_v2p reads next, "idle" or "done"
    paddr,          \* paddr
    moved           \* an entry has changed since the walk began

tables == <<pgd, pud, pmd, pte, huge>>
vars   == <<pgd, pud, pmd, pte, huge, walk, paddr, moved>>

Init ==
    /\ pgd \in {"none", "table"}
    /\ pud \in (IF pgd = "table" THEN {"none", "large", "table"} ELSE {"none"})
    /\ pmd \in (IF pud = "table" THEN {"none", "large", "table"} ELSE {"none"})
    /\ pte = None
    /\ huge \in (IF pud = "large" \/ pmd = "large" THEN Frames ELSE {None})
    /\ walk = "idle" /\ paddr = Zero /\ moved = FALSE

-----------------------------------------------------------------------------
(***************************************************************************)
(* any_v2p.  paddr is not initialised: a walk that leaves through out      *)
(* before it is assigned returns any value, one that leaves through bad    *)
(* returns 0.  So does one that finds no p4d, a level that stands here     *)
(* together with pgd.                                                      *)
(***************************************************************************)
WalkStart ==
    /\ walk = "idle"
    /\ walk' = "pgd"
    /\ paddr' \in Frames \union {Junk, Zero}
    /\ moved' = FALSE
    /\ UNCHANGED tables

Out == walk' = "done" /\ UNCHANGED paddr
Bad == walk' = "done" /\ paddr' = Zero

\* One level: present leads to the next one, anything else to out.  The
\* probe of the entry's own address can fail.
Level(at, entry, present, next) ==
    /\ walk = at
    /\ \/ Bad
       \/ entry \notin present /\ Out
       \/ entry \in present /\ walk' = next /\ UNCHANGED paddr
    /\ UNCHANGED <<tables, moved>>

\* Faulty: a large page is taken for a table.
WalkPmdLarge == Level("pmd", pmd, {"table", "large"}, "pte")

\* Faulty: the test for a present pte is inverted.
WalkPteInverted == Level("pte", pte, {None}, "value")

WalkPgd == Level("pgd", pgd, {"table"}, "pud")
WalkPud == Level("pud", pud, {"table"}, "pmd")
WalkPmd == Level("pmd", pmd, {"table"}, "pte")
WalkPte == Level("pte", pte, Frames, "value")

\* Faulty: the frame number is not masked out of the entry.
WalkValueRaw ==
    /\ walk = "value"
    /\ paddr' = pte
    /\ walk' = "done"
    /\ UNCHANGED <<tables, moved>>

\* The entry is read again; when it has gone meanwhile its bits are no frame.
WalkValue ==
    /\ walk = "value"
    /\ paddr' = IF pte = None THEN Junk ELSE pte
    /\ walk' = "done"
    /\ UNCHANGED <<tables, moved>>

\* The frame the process reads and writes at its virtual address.
FrameOfPage == IF pte # None THEN pte ELSE huge

\* The caller has its answer, and later asks again.
WalkReturn ==
    /\ walk = "done" /\ walk' = "idle"
    /\ UNCHANGED <<tables, paddr, moved>>

Walk == \/ WalkStart \/ WalkPgd \/ WalkPud \/ WalkPmd \/ WalkPte \/ WalkValue
        \/ WalkReturn

-----------------------------------------------------------------------------
(***************************************************************************)
(* The kernel.                                                             *)
(***************************************************************************)
Quiet == UNCHANGED <<walk, paddr>>

\* The page is touched: the tables are filled in and it gets a frame.
FaultIn ==
    /\ pte = None /\ huge = None
    /\ pte' \in Frames
    /\ pgd' = "table" /\ pud' = "table" /\ pmd' = "table"
    /\ moved' = TRUE
    /\ UNCHANGED huge /\ Quiet

\* Swapped out, or the first half of a migration to another frame.
TakeAway ==
    /\ pte # None
    /\ pte' = None
    /\ moved' = TRUE
    /\ UNCHANGED <<pgd, pud, pmd, huge>> /\ Quiet

\* Small pages are collapsed into a large one, and it is split again.
Collapse ==
    /\ pte # None
    /\ pte' = None /\ pmd' = "large" /\ huge' \in Frames
    /\ moved' = TRUE
    /\ UNCHANGED <<pgd, pud>> /\ Quiet

Split ==
    /\ pmd = "large"
    /\ pte' = huge /\ pmd' = "table" /\ huge' = None
    /\ moved' = TRUE
    /\ UNCHANGED <<pgd, pud>> /\ Quiet

Kernel == FaultIn \/ TakeAway \/ Collapse \/ Split

Next == Walk \/ Kernel

Spec == Init /\ [][Next]_vars

-----------------------------------------------------------------------------
(***************************************************************************)
(* Properties.                                                             *)
(***************************************************************************)

\* Types of the entries and of the walk.
TypeOK ==
    /\ pgd \in {"none", "table"}
    /\ {pud, pmd} \subseteq {"none", "table", "large"}
    /\ {pte, huge} \subseteq Frames \union {None}
    /\ walk \in {"idle", "pgd", "pud", "pmd", "pte", "value", "done"}
    /\ paddr \in Frames \union {Junk, Zero}

(***************************************************************************)
(* A walk that reaches the last level of tables nobody changed is in the   *)
(* table of the page: it never takes a large page for a table, and it gets *)
(* to the second read of the pte (WalkValue) only if the pte has a frame.  *)
(***************************************************************************)
ValueIsFrame ==
    /\ walk \in {"pte", "value"} /\ ~moved => pmd = "table"
    /\ walk = "value" /\ ~moved => pte \in Frames

\* A page that was mapped by a pte during the whole call is translated to
\* its frame, unless the call fails with 0.
SmallTranslated ==
    walk = "done" /\ ~moved /\ pte # None => paddr \in {pte, Zero}

\* any_v2p maps any virtual address: a page that had a frame during the
\* whole call is translated to it, unless the call fails with 0.
TranslatesAny ==
    walk = "done" /\ ~moved /\ FrameOfPage # None
      => paddr \in {FrameOfPage, Zero}

=============================================================================
