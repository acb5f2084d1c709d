-------------------------- MODULE VirtToPhysProofs ---------------------------
(***************************************************************************)
(* Proofs about VirtToPhys, for every set of frames: what the walk of      *)
(* any_v2p returns for a page mapped by a pte, whatever the kernel does    *)
(* between two of its reads.                                               *)
(***************************************************************************)
EXTENDS VirtToPhys, TLAPS

(***************************************************************************)
(* SmallTranslated is not inductive: a walk that leaves at an upper level  *)
(* returns what was in paddr by chance, and that is no answer for a page   *)
(* with a pte only because such a page has all the tables above it.        *)
(***************************************************************************)
Tables ==
    /\ pte # None => pgd = "table" /\ pud = "table" /\ pmd = "table"
    /\ pmd = "large" => pgd = "table" /\ pud = "table"

Inv == TypeOK /\ Tables /\ ValueIsFrame /\ SmallTranslated

\* Reading one level of the tables nobody has changed since the start of the
\* walk: it is left only where the level below does not exist.
LEMMA LevelStep ==
    ASSUME Inv, NEW at \in {"pgd", "pud", "pmd", "pte"}, NEW entry,
           NEW present,
           NEW next \in {"pud", "pmd", "pte", "value"},
           Level(at, entry, present, next),
           pte # None => entry \in present,
           next = "pte" /\ entry \in present => pmd = "table",
           next = "value" => at = "pte" /\ present = Frames /\ entry = pte
    PROVE  Inv'
<1> USE DEF Inv, Level
<1>1. TypeOK' /\ Tables'
    BY ValuesAssumption DEF TypeOK, Tables, tables, Out, Bad
<1>2. ValueIsFrame'
    BY DEF ValueIsFrame, tables, Out, Bad
<1>3. SmallTranslated'
    BY DEF SmallTranslated, tables, Out, Bad
<1> QED
    BY <1>1, <1>2, <1>3

\* The kernel keeps the tables of a page together, and a walk under way knows
\* nothing any more.
LEMMA KernelStep == ASSUME Inv, Kernel PROVE Inv'
<1> USE DEF Inv, Quiet
<1>1. moved' = TRUE /\ UNCHANGED <<walk, paddr>>
    BY DEF Kernel, FaultIn, TakeAway, Collapse, Split
<1>2. ValueIsFrame' /\ SmallTranslated'
    BY <1>1 DEF ValueIsFrame, SmallTranslated
<1>3. CASE FaultIn
    BY <1>2, <1>3, ValuesAssumption DEF FaultIn, TypeOK, Tables
<1>4. CASE TakeAway
    BY <1>2, <1>4, ValuesAssumption DEF TakeAway, TypeOK, Tables
<1>5. CASE Collapse
    BY <1>2, <1>5, ValuesAssumption DEF Collapse, TypeOK, Tables
<1>6. CASE Split
    BY <1>2, <1>6, ValuesAssumption DEF Split, TypeOK, Tables
<1> QED
    BY <1>3, <1>4, <1>5, <1>6 DEF Kernel

\* A step of the walk reads the tables as they are at that moment.
LEMMA WalkStep == ASSUME Inv, Walk PROVE Inv'
<1>1. CASE WalkStart
    BY <1>1 DEF WalkStart, Inv, tables, TypeOK, Tables, ValueIsFrame,
                SmallTranslated
<1>2. CASE WalkPgd
    BY <1>2, LevelStep DEF WalkPgd, Inv, Tables
<1>3. CASE WalkPud
    BY <1>3, LevelStep DEF WalkPud, Inv, Tables
<1>4. CASE WalkPmd
    BY <1>4, LevelStep DEF WalkPmd, Inv, Tables
<1>5. CASE WalkPte
  <2>1. pte # None => pte \in Frames
    BY DEF Inv, TypeOK
  <2> QED
    BY <1>5, <2>1, LevelStep DEF WalkPte
<1>6. CASE WalkValue
    BY <1>6, ValuesAssumption
       DEF WalkValue, Inv, tables, TypeOK, Tables, ValueIsFrame,
           SmallTranslated
<1>7. CASE WalkReturn
    BY <1>7 DEF WalkReturn, Inv, tables, TypeOK, Tables, ValueIsFrame,
                SmallTranslated
<1> QED
    BY <1>1, <1>2, <1>3, <1>4, <1>5, <1>6, <1>7 DEF Walk

\* The inductive invariant holds for every set of frames.
LEMMA Invariant == Spec => []Inv
<1>1. Init => Inv
    BY ValuesAssumption
       DEF Init, Inv, TypeOK, Tables, ValueIsFrame, SmallTranslated
<1>2. Inv /\ [Next]_vars => Inv'
  <2> SUFFICES ASSUME Inv, [Next]_vars PROVE Inv'
    OBVIOUS
  <2>1. CASE UNCHANGED vars
    BY <2>1 DEF vars, Inv, TypeOK, Tables, ValueIsFrame, SmallTranslated
  <2> QED
    BY <2>1, WalkStep, KernelStep DEF Next
<1> QED
    BY <1>1, <1>2, PTL DEF Spec

-----------------------------------------------------------------------------
\* The entries, and what any_v2p returns, are of the right kind.
THEOREM TypeCorrect == Spec => []TypeOK
    BY Invariant, PTL DEF Inv

\* In tables that stay as they are any_v2p never takes a large page for a
\* table and finds a frame in the pte it uses.
THEOREM WalkInTables == Spec => []ValueIsFrame
    BY Invariant, PTL DEF Inv

\* any_v2p translates a page that stays mapped by a pte to its frame, or
\* fails with 0.
THEOREM SmallPagesTranslated == Spec => []SmallTranslated
    BY Invariant, PTL DEF Inv

=============================================================================
