------------------------- MODULE RequesterPathProofs -------------------------
(***************************************************************************)
(* Proofs about RequesterPath: the gap between two frames, on which the    *)
(* receiving card relies, and the types, for every mix of TLPs of the      *)
(* host, every backlog and every depth of the FIFO; and that every frame   *)
(* is the oldest TLP not yet sent, for the TLPs that FrameIsTlp is about.  *)
(***************************************************************************)
EXTENDS RequesterPath, TLAPS, SequenceTheorems

-----------------------------------------------------------------------------
(***************************************************************************)
(* The gap.  XGMII_TX_ENGINE counts one idle word (gap_count) and stays in *)
(* its idle state, which repeats that word, for at least one more.         *)
(***************************************************************************)
GapInv ==
    /\ txState2 \in XtStates /\ txCount \in 0..(LastHeader + 1)
    /\ quiet \in 0..QuietMax
    /\ txState2 = "IDLE" => txd.k = "idle" /\ quiet >= 1
    /\ txState2 = "HEADER" => txCount <= LastHeader
    /\ txState2 = "HEADER" /\ txCount = 0 => quiet >= 2

\* Only the first word of a header is a start word.
LEMMA OneStart ==
    ASSUME GapInv, XtIdle \/ XtHeader \/ XtData \/ XtGap,
           txd.k # "start", txd'.k = "start"
    PROVE  txState2 = "HEADER" /\ txCount = 0
<1>1. CASE XtIdle
    BY <1>1 DEF XtIdle
<1>2. CASE XtHeader
    BY <1>2 DEF XtHeader, TxWord
<1>3. CASE XtData
    BY <1>3 DEF XtData, TxWord, TlpTxWord
<1>4. CASE XtGap
    BY <1>4 DEF XtGap, TxWord
<1> QED
    BY <1>1, <1>2, <1>3, <1>4

\* A step of the machine that drives the wire.
LEMMA GapStep ==
    ASSUME GapInv, XtIdle \/ XtHeader \/ XtData \/ XtGap, WireTake
    PROVE  GapInv'
<1> USE DEF XtStates, LastHeader, QuietMax
<1>1. /\ txState2 \in XtStates /\ txCount \in 0..7 /\ quiet \in 0..3
      /\ quiet' = IF txd'.k # "idle" THEN 0
                  ELSE IF quiet < 3 THEN quiet + 1 ELSE quiet
    BY DEF GapInv, WireTake
<1>2. quiet' \in 0..3
    BY <1>1
<1>3. CASE XtIdle
  <2>1. txd' = txd /\ txd.k = "idle" /\ quiet >= 1
    BY <1>3 DEF XtIdle, GapInv
  <2>2. quiet' >= 2
    BY <1>1, <2>1
  <2> QED
    BY <1>1, <1>2, <1>3, <2>1, <2>2 DEF XtIdle, GapInv
<1>4. CASE XtHeader
    BY <1>1, <1>2, <1>4 DEF XtHeader, GapInv
<1>5. CASE XtData
    BY <1>1, <1>2, <1>5 DEF XtData, GapInv
<1>6. CASE XtGap
  <2>1. txd'.k = "idle"
    BY <1>6 DEF XtGap, TxWord
  <2>2. quiet' >= 1
    BY <1>1, <2>1
  <2> QED
    BY <1>1, <1>2, <1>6, <2>1, <2>2 DEF XtGap, GapInv
<1> QED
    BY <1>3, <1>4, <1>5, <1>6

\* The gap is counted at every edge of both clocks.
LEMMA GapInvariant == Spec => []GapInv
<1>1. Init => GapInv
    BY DEF Init, XgmiiTxInit, TxWord, GapInv, XtStates, LastHeader, QuietMax
<1>2. GapInv /\ [Next]_vars => GapInv'
  <2> SUFFICES ASSUME GapInv, [Next]_vars PROVE GapInv'
    OBVIOUS
  <2>1. CASE XgmiiEdge
    BY <2>1, GapStep DEF XgmiiEdge, XgmiiTxWord
  <2>2. CASE UNCHANGED <<xtVars, quiet>>
    BY <2>2 DEF xtVars, GapInv
  <2> QED
    BY <2>1, <2>2 DEF Next, ClkEdge, vars, netVars
<1> QED
    BY <1>1, <1>2, PTL DEF Spec

\* Between two frames of XGMII_TX_ENGINE there are two idle words, however
\* fast the host fills the FIFO.
THEOREM FramesHaveGap == Spec => FrameGap
<1>1. GapInv /\ [Next]_vars
        => [txd.k # "start" /\ txd'.k = "start" => quiet >= 2]_vars
  <2> SUFFICES ASSUME GapInv, Next, txd.k # "start", txd'.k = "start"
               PROVE  quiet >= 2
    OBVIOUS
  <2>1. XgmiiEdge
    BY DEF Next, ClkEdge, xtVars
  <2>2. txState2 = "HEADER" /\ txCount = 0
    BY <2>1, OneStart DEF XgmiiEdge, XgmiiTxWord
  <2> QED
    BY <2>2 DEF GapInv
<1> QED
    BY <1>1, GapInvariant, PTL DEF Spec, FrameGap

-----------------------------------------------------------------------------
(***************************************************************************)
(* Types.  The snooper's type register is loaded from whatever beat it     *)
(* takes for a header, so that the type a later beat seems to have counts  *)
(* too; and the FIFO takes no entry when it is full.                       *)
(***************************************************************************)
Entries == [id : Nat, n : Nat, op : Ops, start : BOOLEAN, last : BOOLEAN]

HostTypes ==
    /\ rxTvalid \in BOOLEAN /\ load \in DOMAIN Loads /\ hostId \in Nat
    /\ rxBus.tlp.type \in TlpTypes /\ rxBus.tlp.look \in TlpTypes
    /\ rxBus.tlp.id \in Nat /\ rxBus.n \in Nat
    /\ rxBus = [tlp |-> rxBus.tlp, n |-> rxBus.n]

SnoopTypes ==
    /\ snState \in SnStates /\ snType \in TlpTypes /\ snWrEn \in BOOLEAN
    /\ snDin \in Entries

FifoTypes ==
    /\ fifo \in Seq(Entries) /\ Len(fifo) <= FifoDepth
    /\ fifoState \in FifoStates /\ rdEn \in BOOLEAN

Types == HostTypes /\ SnoopTypes /\ FifoTypes

\* The bus keeps to the TLPs of the load.
LEMMA HostStep ==
    ASSUME HostTypes, HostClk(rxTready)
    PROVE  HostTypes'
<1>1. CASE HostIdle
    BY <1>1 DEF HostTypes, HostIdle, EmptyBus, NoTlp, TlpTypes
<1>2. CASE HostSend
  <2>1. PICK t \in HostTlps : rxBus' = [tlp |-> Numbered(t, hostId), n |-> 1]
    BY <1>2 DEF HostSend
  <2>2. t \in [type : TlpTypes, dw : 0..1023, bar : Bars, look : TlpTypes]
    BY HostTlpsAssumption DEF HostTypes, HostTlps
  <2>3. /\ rxBus'.tlp = Numbered(t, hostId) /\ rxBus'.n = 1
        /\ rxBus' = [tlp |-> rxBus'.tlp, n |-> rxBus'.n]
    BY <2>1
  <2>4. /\ Numbered(t, hostId).type \in TlpTypes
        /\ Numbered(t, hostId).look \in TlpTypes
        /\ Numbered(t, hostId).id \in Nat
    BY <2>2 DEF Numbered, HostTypes
  <2>5. (hostId + 1) % HostIds \in Nat
    BY HostIdsAssumption DEF HostTypes
  <2> QED
    BY <1>2, <2>3, <2>4, <2>5 DEF HostTypes, HostSend
<1>3. CASE HostHold(rxTready)
    BY <1>3 DEF HostTypes, HostHold, hostVars
<1>4. CASE HostAdvance(rxTready)
  <2>1. rxBus' = [tlp |-> rxBus.tlp, n |-> rxBus.n + 1]
    BY <1>4 DEF HostTypes, HostAdvance
  <2>2. rxTvalid' \in BOOLEAN /\ UNCHANGED <<load, hostId>>
    BY <1>4 DEF HostAdvance
  <2> QED
    BY <2>1, <2>2 DEF HostTypes
<1>5. CASE HostResume
    BY <1>5 DEF HostTypes, HostResume
<1> QED
    BY <1>1, <1>2, <1>3, <1>4, <1>5 DEF HostClk

\* PIO_RX_SNOOP makes an entry of any beat.
LEMMA SnoopStep ==
    ASSUME HostTypes, SnoopTypes, SnoopClk
    PROVE  SnoopTypes'
<1> USE DEF SnStates
<1>1. PICK last \in BOOLEAN :
        SnIgnore \/ SnHeader0(last) \/ SnHeader1(last) \/ SnData(last)
    BY DEF SnoopClk, RxLast
<1>2. \A op \in Ops : Entry(op, last) \in Entries
    BY DEF Entry, Entries, HostTypes
<1>3. LooksLike(rxBus) \in TlpTypes
    BY DEF LooksLike, HostTypes
<1>4. CASE SnIgnore
    BY <1>4 DEF SnIgnore, SnoopTypes
<1>5. CASE SnHeader0(last)
  <2>1. snDin' \in Entries
    BY <1>2, <1>5 DEF SnHeader0, Ops
  <2> QED
    BY <1>3, <1>5, <2>1 DEF SnHeader0, SnoopTypes
<1>6. CASE SnHeader1(last)
  <2>1. snDin' \in Entries
    BY <1>2, <1>6 DEF SnHeader1, Ops
  <2> QED
    BY <1>6, <2>1 DEF SnHeader1, SnoopTypes
<1>7. CASE SnData(last)
  <2>1. snDin' \in Entries
    BY <1>2, <1>7 DEF SnData, Ops
  <2> QED
    BY <1>7, <2>1 DEF SnData, SnoopTypes
<1> QED
    BY <1>1, <1>4, <1>5, <1>6, <1>7

\* The write port.
LEMMA WriteStep ==
    ASSUME SnoopTypes, FifoTypes, FifoWrite(snWrEn, snDin), UNCHANGED xtVars
    PROVE  FifoTypes'
<1>1. fifo' \in Seq(Entries) /\ Len(fifo') <= FifoDepth
    BY FifoDepthAssumption DEF FifoWrite, SnoopTypes, FifoTypes
<1> QED
    BY <1>1 DEF FifoTypes, xtVars

\* The read port.
LEMMA ReadStep ==
    ASSUME FifoTypes, XgmiiTxWord
    PROVE  FifoTypes'
<1>1. fifo' \in Seq(Entries) /\ Len(fifo') <= FifoDepth
  <2>1. CASE fifo' = fifo
    BY <2>1 DEF FifoTypes
  <2>2. CASE fifo # <<>> /\ fifo' = Tail(fifo)
    BY <2>2, FifoDepthAssumption DEF FifoTypes
  <2> QED
    BY <2>1, <2>2 DEF XgmiiTxWord, FifoRead, fifoVars, Empty
<1>2. fifoState' \in FifoStates /\ rdEn' \in BOOLEAN
    BY DEF XgmiiTxWord, FtFindStart, FtWaitHeader, FtFollow, FifoTypes,
           FifoStates, Empty
<1> QED
    BY <1>1, <1>2 DEF FifoTypes

\* The types are kept by both clocks.
LEMMA TypesInvariant == Spec => []Types
<1>1. Init => Types
  <2> SUFFICES ASSUME Init PROVE Types
    OBVIOUS
  <2>1. HostTypes
    BY DEF Init, HostInit, HostTypes, EmptyBus, NoTlp, TlpTypes
  <2>2. SnoopTypes
    BY DEF Init, SnoopInit, SnoopTypes, SnStates, TlpTypes, NoEntry, Entries,
           Ops
  <2>3. FifoTypes
    <3>1. fifo = <<>> /\ fifoState = "IDLE" /\ rdEn = FALSE
      BY DEF Init, XgmiiTxInit
    <3>2. <<>> \in Seq(Entries) /\ Len(<<>>) <= FifoDepth
      BY FifoDepthAssumption
    <3> QED
      BY <3>1, <3>2 DEF FifoTypes, FifoStates
  <2> QED
    BY <2>1, <2>2, <2>3 DEF Types
<1>2. Types /\ [Next]_vars => Types'
  <2> SUFFICES ASSUME Types, [Next]_vars PROVE Types'
    OBVIOUS
  <2> USE DEF Types
  <2>1. CASE ClkEdge
    <3>1. HostTypes'
      BY <2>1, HostStep DEF ClkEdge
    <3>2. SnoopTypes'
      BY <2>1, SnoopStep DEF ClkEdge
    <3>3. FifoTypes'
      BY <2>1, WriteStep DEF ClkEdge
    <3> QED
      BY <3>1, <3>2, <3>3
  <2>2. CASE XgmiiEdge
    <3>1. HostTypes' /\ SnoopTypes'
      BY <2>2 DEF XgmiiEdge, clkVars, hostVars, snoopVars, HostTypes,
                  SnoopTypes
    <3>2. FifoTypes'
      BY <2>2, ReadStep DEF XgmiiEdge
    <3> QED
      BY <3>1, <3>2
  <2>3. CASE UNCHANGED vars
    BY <2>3 DEF vars, clkVars, hostVars, snoopVars, fifoVars, xtVars,
                HostTypes, SnoopTypes, FifoTypes
  <2> QED
    BY <2>1, <2>2, <2>3 DEF Next
<1> QED
    BY <1>1, <1>2, PTL DEF Spec

\* The registers of PIO_RX_SNOOP and XGMII_TX_ENGINE keep their types, and
\* the FIFO never holds more than its depth.
THEOREM TypeCorrect == Spec => []TypeOK
<1>1. Types /\ GapInv => TypeOK
    BY DEF Types, SnoopTypes, FifoTypes, GapInv, TypeOK, Entries
<1> QED
    BY <1>1, TypesInvariant, GapInvariant, PTL

-----------------------------------------------------------------------------
(***************************************************************************)
(* The frames.  Line is what PIO_RX_SNOOP has written: the FIFO and the    *)
(* entry on its way into it.  at tells where the entries of a TLP are: the *)
(* first one of expect[i] is at place at[i] of Line, below 1 when it has   *)
(* been read; at[0] is the place of the TLP before.                        *)
(***************************************************************************)
Line == IF snWrEn THEN Append(fifo, snDin) ELSE fifo

\* Both entries of a TLP of two beats.
EntryOf(tlp, n) ==
    [id |-> tlp.id, n |-> n, op |-> RewriteOf(tlp, n), start |-> TRUE,
     last |-> n = 2]

\* The TLPs that may be on the bus, and those among them for the network.
Tlps == {t \in [type : TlpTypes, dw : 0..1023, bar : Bars, look : TlpTypes,
                id : Nat] :
           /\ t.bar = "BAR2" => t.type = "WR32" /\ t.dw = 1
           /\ t.type = "CPL" => t.dw \in {0, 1}
           /\ ~ForNetwork(t) => t.look # "CPL"}
NetTlps == {t \in Tlps : ForNetwork(t)}

\* A TLP takes two to four places.  All the entries but the first ones say
\* that they are the last of a TLP, so that the reader passes over them.
Apart(n, at) ==
    /\ at \in [0..n -> Int] /\ at[0] <= -1
    /\ \A i, j \in 0..n :
         i < j => at[i] + 2 <= at[j] /\ at[j] <= at[i] + 4 * (j - i)

Holds(line, tlps, at) ==
    \A i \in 1..Len(tlps) :
      /\ at[i] \in 1..Len(line) => line[at[i]] = EntryOf(tlps[i], 1)
      /\ at[i] + 1 \in 1..Len(line) => line[at[i] + 1] = EntryOf(tlps[i], 2)

Others(line, n, at) ==
    \A k \in 1..Len(line) : line[k].last \/ \E i \in 1..n : at[i] = k

Placed(line, tlps, at) ==
    /\ Apart(Len(tlps), at)
    /\ Holds(line, tlps, at)
    /\ Others(line, Len(tlps), at)

\* Sequences: what Append does to the places.
LEMMA Appended ==
    ASSUME NEW S, NEW s \in Seq(S), NEW x \in S
    PROVE  /\ Append(s, x) \in Seq(S) /\ Len(Append(s, x)) = Len(s) + 1
           /\ Append(s, x)[Len(s) + 1] = x
           /\ \A k \in 1..Len(s) : Append(s, x)[k] = s[k]
    OBVIOUS

\* What Tail does to the places.
LEMMA Tailed ==
    ASSUME NEW S, NEW s \in Seq(S), s # <<>>
    PROVE  /\ Tail(s) \in Seq(S) /\ Len(Tail(s)) = Len(s) - 1
           /\ Len(s) \in Nat \ {0}
           /\ \A k \in 1..(Len(s) - 1) : Tail(s)[k] = s[k + 1]
    OBVIOUS

\* A sequence of two.
LEMMA Paired ==
    ASSUME NEW x, NEW y
    PROVE  Append(<<x>>, y) = <<x, y>>
<1> DEFINE S == {x, y}
<1>1. Append(<<x>>, y) \in Seq(S) /\ <<x, y>> \in Seq(S)
    OBVIOUS
<1>2. /\ Len(Append(<<x>>, y)) = 2 /\ Len(<<x, y>>) = 2
      /\ Append(<<x>>, y)[1] = x /\ Append(<<x>>, y)[2] = y
      /\ <<x, y>>[1] = x /\ <<x, y>>[2] = y
    OBVIOUS
<1>3. \A i \in 1..2 : i = 1 \/ i = 2
    OBVIOUS
<1> HIDE DEF S
<1> QED
    BY <1>1, <1>2, <1>3, SeqEqual

\* Another entry: the first or the second one of its TLP, or one to pass over.
LEMMA PlacedEntry ==
    ASSUME NEW line \in Seq(Entries), NEW tlps \in Seq(NetTlps), NEW at,
           NEW e \in Entries, Placed(line, tlps, at),
           \A i \in 1..Len(tlps) :
             /\ at[i] = Len(line) + 1 => e = EntryOf(tlps[i], 1)
             /\ at[i] = Len(line) => e = EntryOf(tlps[i], 2),
           e.last \/ \E i \in 1..Len(tlps) : at[i] = Len(line) + 1
    PROVE  Placed(Append(line, e), tlps, at)
<1> DEFINE l == Append(line, e)
<1>1. /\ Len(line) \in Nat /\ Len(tlps) \in Nat /\ Len(l) = Len(line) + 1
      /\ l[Len(line) + 1] = e
      /\ \A k \in 1..Len(line) : l[k] = line[k]
    BY Appended
<1> HIDE DEF l
<1>2. \A i \in 1..Len(tlps) : at[i] \in Int
  <2>1. at \in [0..Len(tlps) -> Int]
    BY DEF Placed, Apart
  <2> QED
    BY <1>1, <2>1
<1>3. Holds(l, tlps, at)
  <2> SUFFICES ASSUME NEW i \in 1..Len(tlps)
               PROVE  /\ at[i] \in 1..Len(l) => l[at[i]] = EntryOf(tlps[i], 1)
                      /\ at[i] + 1 \in 1..Len(l)
                           => l[at[i] + 1] = EntryOf(tlps[i], 2)
    BY DEF Holds
  <2>1. /\ at[i] \in 1..Len(line) => line[at[i]] = EntryOf(tlps[i], 1)
        /\ at[i] + 1 \in 1..Len(line)
             => line[at[i] + 1] = EntryOf(tlps[i], 2)
    BY DEF Placed, Holds
  <2> QED
    BY <1>1, <1>2, <2>1
<1>4. Others(l, Len(tlps), at)
  <2> SUFFICES ASSUME NEW k \in 1..Len(l)
               PROVE  l[k].last \/ \E i \in 1..Len(tlps) : at[i] = k
    BY DEF Others
  <2>1. CASE k = Len(line) + 1
    BY <1>1, <2>1
  <2>2. CASE k \in 1..Len(line)
    BY <1>1, <2>2 DEF Placed, Others
  <2> QED
    BY <1>1, <2>1, <2>2
<1>5. Placed(l, tlps, at)
    BY <1>3, <1>4 DEF Placed
<1> QED
    BY <1>5 DEF l

\* The reader takes an entry.
LEMMA PlacedRead ==
    ASSUME NEW line \in Seq(Entries), NEW tlps \in Seq(NetTlps), NEW at,
           Placed(line, tlps, at), line # <<>>
    PROVE  Placed(Tail(line), tlps, [i \in 0..Len(tlps) |-> at[i] - 1])
<1> DEFINE l == Tail(line)
           b == [i \in 0..Len(tlps) |-> at[i] - 1]
<1>1. /\ Len(line) \in Nat \ {0} /\ Len(tlps) \in Nat
      /\ Len(l) = Len(line) - 1
      /\ \A k \in 1..(Len(line) - 1) : l[k] = line[k + 1]
    BY Tailed
<1>2. \A i \in 0..Len(tlps) : at[i] \in Int /\ b[i] = at[i] - 1
    BY DEF Placed, Apart
<1>3. b \in [0..Len(tlps) -> Int] /\ b[0] <= -1
    BY <1>1, <1>2 DEF Placed, Apart
<1> HIDE DEF l, b
<1>4. \A i, j \in 0..Len(tlps) :
        i < j => b[i] + 2 <= b[j] /\ b[j] <= b[i] + 4 * (j - i)
  <2> SUFFICES ASSUME NEW i \in 0..Len(tlps), NEW j \in 0..Len(tlps), i < j
               PROVE  b[i] + 2 <= b[j] /\ b[j] <= b[i] + 4 * (j - i)
    OBVIOUS
  <2>1. at[i] + 2 <= at[j] /\ at[j] <= at[i] + 4 * (j - i)
    BY DEF Placed, Apart
  <2>2. /\ at[i] \in Int /\ b[i] = at[i] - 1 /\ at[j] \in Int
        /\ b[j] = at[j] - 1 /\ j - i \in Int
    BY <1>1, <1>2
  <2>3. \A x, y, m \in Int :
          x + 2 <= y /\ y <= x + 4 * m
            => (x - 1) + 2 <= y - 1 /\ y - 1 <= (x - 1) + 4 * m
    OBVIOUS
  <2> QED
    BY <2>1, <2>2, <2>3
<1>5. Holds(l, tlps, b)
  <2> SUFFICES ASSUME NEW i \in 1..Len(tlps)
               PROVE  /\ b[i] \in 1..Len(l) => l[b[i]] = EntryOf(tlps[i], 1)
                      /\ b[i] + 1 \in 1..Len(l)
                           => l[b[i] + 1] = EntryOf(tlps[i], 2)
    BY DEF Holds
  <2>1. /\ at[i] \in Int /\ b[i] = at[i] - 1
        /\ at[i] \in 1..Len(line) => line[at[i]] = EntryOf(tlps[i], 1)
        /\ at[i] + 1 \in 1..Len(line)
             => line[at[i] + 1] = EntryOf(tlps[i], 2)
    BY <1>1, <1>2 DEF Placed, Holds
  <2>2. b[i] \in 1..Len(l)
          => /\ b[i] \in 1..(Len(line) - 1) /\ b[i] + 1 = at[i]
             /\ at[i] \in 1..Len(line)
    BY <1>1, <2>1
  <2>3. b[i] + 1 \in 1..Len(l)
          => /\ b[i] + 1 \in 1..(Len(line) - 1)
             /\ (b[i] + 1) + 1 = at[i] + 1
             /\ at[i] + 1 \in 1..Len(line)
    BY <1>1, <2>1
  <2>4. b[i] \in 1..Len(l) => l[b[i]] = EntryOf(tlps[i], 1)
    BY <1>1, <2>1, <2>2
  <2>5. b[i] + 1 \in 1..Len(l) => l[b[i] + 1] = EntryOf(tlps[i], 2)
    BY <1>1, <2>1, <2>3
  <2> QED
    BY <2>4, <2>5
<1>6. Others(l, Len(tlps), b)
  <2> SUFFICES ASSUME NEW k \in 1..Len(l)
               PROVE  l[k].last \/ \E i \in 1..Len(tlps) : b[i] = k
    BY DEF Others
  <2>1. k + 1 \in 1..Len(line) /\ l[k] = line[k + 1]
    BY <1>1
  <2>2. line[k + 1].last \/ \E i \in 1..Len(tlps) : at[i] = k + 1
    BY <2>1 DEF Placed, Others
  <2>3. \A i \in 1..Len(tlps) :
          /\ i \in 0..Len(tlps) /\ (at[i] = k + 1 => at[i] - 1 = k)
    BY <1>1
  <2>4. \A i \in 1..Len(tlps) : at[i] = k + 1 => b[i] = k
    BY <1>2, <2>3
  <2> QED
    BY <2>1, <2>2, <2>4
<1>7. Placed(l, tlps, b)
    BY <1>3, <1>4, <1>5, <1>6 DEF Placed, Apart
<1> QED
    BY <1>7 DEF l, b

\* A new TLP, whose entries come next.
LEMMA PlacedNew ==
    ASSUME NEW line \in Seq(Entries), NEW tlps \in Seq(NetTlps), NEW at,
           NEW t \in NetTlps, Placed(line, tlps, at),
           Len(line) + 1 >= at[Len(tlps)] + 2,
           Len(line) + 1 <= at[Len(tlps)] + 4
    PROVE  Placed(line, Append(tlps, t),
                  [i \in 0..(Len(tlps) + 1) |->
                     IF i <= Len(tlps) THEN at[i] ELSE Len(line) + 1])
<1> DEFINE N == Len(tlps)
           new == Append(tlps, t)
           b == [i \in 0..(N + 1) |-> IF i <= N THEN at[i] ELSE Len(line) + 1]
<1>1. /\ N \in Nat /\ Len(line) \in Nat /\ Len(new) = N + 1
      /\ \A i \in 1..N : new[i] = tlps[i]
    BY Appended
<1>2. \A i \in 0..N : at[i] \in Int /\ b[i] = at[i]
  <2>1. at \in [0..N -> Int]
    BY DEF Placed, Apart
  <2> TAKE i \in 0..N
  <2>2. at[i] \in Int
    BY <2>1
  <2>3. i \in 0..(N + 1) /\ i <= N
    BY <1>1
  <2> QED
    BY <2>2, <2>3
<1>3. b[N + 1] = Len(line) + 1
    BY <1>1
<1>4. b \in [0..Len(new) -> Int] /\ b[0] <= -1
    BY <1>1, <1>2, <1>3 DEF Placed, Apart
<1> HIDE DEF b, new
<1>5. \A i, j \in 0..Len(new) :
        i < j => b[i] + 2 <= b[j] /\ b[j] <= b[i] + 4 * (j - i)
  <2> SUFFICES ASSUME NEW i \in 0..Len(new), NEW j \in 0..Len(new), i < j
               PROVE  b[i] + 2 <= b[j] /\ b[j] <= b[i] + 4 * (j - i)
    OBVIOUS
  <2>1. i \in 0..N /\ (j \in 0..N \/ j = N + 1)
    BY <1>1
  <2>2. CASE j \in 0..N
    <3>1. at[i] + 2 <= at[j] /\ at[j] <= at[i] + 4 * (j - i)
      BY <2>1, <2>2 DEF Placed, Apart
    <3> QED
      BY <1>2, <2>1, <2>2, <3>1
  <2>3. CASE j = N + 1
    <3>1. i = N \/ (i < N /\ at[i] + 2 <= at[N]
                           /\ at[N] <= at[i] + 4 * (N - i))
      <4>1. \A x, y \in 0..N :
              x < y => at[x] + 2 <= at[y] /\ at[y] <= at[x] + 4 * (y - x)
        BY DEF Placed, Apart
      <4>2. N \in 0..N /\ (i = N \/ i < N)
        BY <1>1, <2>1
      <4> QED
        BY <2>1, <4>1, <4>2
    <3>2. at[i] \in Int /\ at[N] \in Int /\ b[i] = at[i]
      BY <1>1, <1>2, <2>1
    <3>3. b[j] = Len(line) + 1 /\ j - i = (N - i) + 1
      BY <1>1, <1>3, <2>1, <2>3
    <3>4. b[i] <= at[N] /\ at[N] <= b[i] + 4 * (N - i)
      <4>1. CASE i = N
        BY <1>1, <3>2, <4>1
      <4>2. CASE i # N
        BY <1>1, <2>1, <3>1, <3>2, <4>2
      <4> QED
        BY <4>1, <4>2
    <3>5. \A x, y, z, m \in Int :
            x <= y /\ y <= x + 4 * m /\ y + 2 <= z /\ z <= y + 4
              => x + 2 <= z /\ z <= x + 4 * (m + 1)
      OBVIOUS
    <3>6. b[i] \in Int /\ at[N] \in Int /\ Len(line) + 1 \in Int
          /\ N - i \in Int
      BY <1>1, <2>1, <3>2
    <3>7. at[N] + 2 <= Len(line) + 1 /\ Len(line) + 1 <= at[N] + 4
      BY <1>1, <3>2
    <3> HIDE DEF N
    <3>8. /\ b[i] + 2 <= Len(line) + 1
          /\ Len(line) + 1 <= b[i] + 4 * ((N - i) + 1)
      BY <3>4, <3>5, <3>6, <3>7
    <3> QED
      BY <3>3, <3>8
  <2> QED
    BY <2>1, <2>2, <2>3
<1>6. Holds(line, new, b)
  <2> SUFFICES ASSUME NEW i \in 1..Len(new)
               PROVE  /\ b[i] \in 1..Len(line)
                           => line[b[i]] = EntryOf(new[i], 1)
                      /\ b[i] + 1 \in 1..Len(line)
                           => line[b[i] + 1] = EntryOf(new[i], 2)
    BY DEF Holds
  <2>1. CASE i = N + 1
    BY <1>1, <1>3, <2>1
  <2>2. CASE i \in 1..N
    <3>1. new[i] = tlps[i] /\ b[i] = at[i]
      BY <1>1, <1>2, <2>2
    <3> QED
      BY <2>2, <3>1 DEF Placed, Holds
  <2> QED
    BY <1>1, <2>1, <2>2
<1>7. Others(line, Len(new), b)
  <2> SUFFICES ASSUME NEW k \in 1..Len(line)
               PROVE  line[k].last \/ \E i \in 1..Len(new) : b[i] = k
    BY DEF Others
  <2>1. line[k].last \/ \E i \in 1..N : at[i] = k
    BY DEF Placed, Others
  <2> QED
    BY <1>1, <1>2, <2>1
<1>8. Placed(line, new, b)
    BY <1>4, <1>5, <1>6, <1>7 DEF Placed, Apart
<1> QED
    BY <1>8 DEF b, new

\* The oldest TLP is done with.
LEMMA PlacedDone ==
    ASSUME NEW line \in Seq(Entries), NEW tlps \in Seq(NetTlps), NEW at,
           Placed(line, tlps, at), tlps # <<>>, at[1] <= -1
    PROVE  Placed(line, Tail(tlps), [i \in 0..(Len(tlps) - 1) |-> at[i + 1]])
<1> DEFINE N == Len(tlps)
           rest == Tail(tlps)
           b == [i \in 0..(N - 1) |-> at[i + 1]]
<1>1. /\ N \in Nat \ {0} /\ Len(line) \in Nat /\ Len(rest) = N - 1
      /\ \A i \in 1..(N - 1) : rest[i] = tlps[i + 1]
    BY Tailed
<1>2. \A i \in 0..(N - 1) : at[i + 1] \in Int /\ b[i] = at[i + 1]
  <2>1. at \in [0..N -> Int]
    BY DEF Placed, Apart
  <2> QED
    BY <1>1, <2>1
<1>3. b \in [0..Len(rest) -> Int] /\ b[0] <= -1
    BY <1>1, <1>2
<1> HIDE DEF b, rest
<1>4. \A i, j \in 0..Len(rest) :
        i < j => b[i] + 2 <= b[j] /\ b[j] <= b[i] + 4 * (j - i)
  <2> SUFFICES ASSUME NEW i \in 0..Len(rest), NEW j \in 0..Len(rest), i < j
               PROVE  b[i] + 2 <= b[j] /\ b[j] <= b[i] + 4 * (j - i)
    OBVIOUS
  <2>1. i + 1 \in 0..N /\ j + 1 \in 0..N /\ i + 1 < j + 1
    BY <1>1
  <2>2. /\ at[i + 1] + 2 <= at[j + 1]
        /\ at[j + 1] <= at[i + 1] + 4 * ((j + 1) - (i + 1))
    BY <2>1 DEF Placed, Apart
  <2>3. (j + 1) - (i + 1) = j - i
    BY <1>1
  <2> QED
    BY <1>1, <1>2, <2>2, <2>3
<1>5. Holds(line, rest, b)
  <2> SUFFICES ASSUME NEW i \in 1..Len(rest)
               PROVE  /\ b[i] \in 1..Len(line)
                           => line[b[i]] = EntryOf(rest[i], 1)
                      /\ b[i] + 1 \in 1..Len(line)
                           => line[b[i] + 1] = EntryOf(rest[i], 2)
    BY DEF Holds
  <2>1. /\ i + 1 \in 1..N /\ i \in 0..(N - 1)
        /\ b[i] = at[i + 1] /\ rest[i] = tlps[i + 1]
    BY <1>1, <1>2
  <2> HIDE DEF N
  <2> QED
    BY <2>1 DEF Placed, Holds, N
<1>6. Others(line, Len(rest), b)
  <2> SUFFICES ASSUME NEW k \in 1..Len(line)
               PROVE  line[k].last \/ \E i \in 1..Len(rest) : b[i] = k
    BY DEF Others
  <2>1. CASE line[k].last
    BY <2>1
  <2>2. CASE \E i \in 1..N : at[i] = k
    <3>1. PICK i \in 1..N : at[i] = k
      BY <2>2
    <3>2. i # 1
      BY <1>1, <3>1
    <3>3. i - 1 \in 1..(N - 1) /\ (i - 1) + 1 = i
      BY <1>1, <3>2
    <3>4. b[i - 1] = k
      BY <1>1, <1>2, <3>1, <3>3
    <3> QED
      BY <1>1, <3>3, <3>4
  <2> QED
    BY <2>1, <2>2 DEF Placed, Others
<1>7. Placed(line, rest, b)
    BY <1>3, <1>4, <1>5, <1>6 DEF Placed, Apart
<1> QED
    BY <1>7 DEF b, rest

(***************************************************************************)
(* The bus, PIO_RX_ENGINE and PIO_RX_SNOOP.  Second is the clock at which  *)
(* the snooper sees the second beat of a TLP for the network, Again and    *)
(* Third the two at which it sees that of a write once more.               *)
(***************************************************************************)
OnBus == rxTvalid /\ ForNetwork(rxBus.tlp)
First == OnBus /\ rxBus.n = 1

Second ==
    /\ OnBus /\ rxBus.n = 2 /\ inPacket
    /\ snState = "HEADER1" /\ snType = rxBus.tlp.type
    /\ snWrEn /\ snDin = EntryOf(rxBus.tlp, 1)
    /\ \/ rxBus.tlp.type = "CPL" /\ rxState = "RST" /\ rxTready
       \/ /\ rxBus.tlp.type = "WR32" /\ rxState = "MEM_WR32_DW1DW2"
          /\ tlpType = "WR32" /\ ~rxTready

Again ==
    /\ OnBus /\ rxBus.n = 2 /\ inPacket
    /\ rxBus.tlp.type = "WR32" /\ snState = "IDLE"
    /\ rxState = "WAIT" /\ tlpType = "WR32" /\ ~rxTready

Third ==
    /\ OnBus /\ rxBus.n = 2 /\ inPacket
    /\ rxBus.tlp.type = "WR32" /\ snState = "HEADER1"
    /\ rxState = "RST" /\ rxTready

\* A TLP that is not for the network, after its first beat.
Passing ==
    /\ rxTvalid /\ ~ForNetwork(rxBus.tlp) /\ rxBus.n > 1 /\ inPacket
    /\ snState = "IDLE"
    /\ \/ rxState = "RST"
       \/ rxState = "WAIT" /\ ~rxTready
       \/ /\ rxState \in {"MEM_RD32_DW1DW2", "MEM_RD64_DW1DW2",
                          "MEM_WR32_DW1DW2"}
          /\ rxBus.n = 2 /\ ~rxTready
       \/ /\ rxState = "MEM_WR64_DW1DW2" /\ rxBus.n = 2 /\ rxTready
          /\ Beats(rxBus.tlp) = 3
       \/ rxState = "MEM_WR64_DW3" /\ rxBus.n = 3 /\ ~rxTready

\* Between two TLPs, and with the first beat of one.
Fresh ==
    /\ rxBus.n = 1 /\ (rxTvalid \/ rxBus = EmptyBus)
    /\ rxState = "RST" /\ rxTready /\ ~inPacket /\ snState = "IDLE"

Phase == Fresh \/ Second \/ Again \/ Third \/ Passing

\* How many entries of the last TLP for the network the snooper has made.
Made(at) == Len(Line) - at[Len(expect)] + 1

Writer(at) ==
    /\ Phase
    /\ First \/ Second
         => expect # <<>> /\ expect[Len(expect)] = rxBus.tlp
    /\ First => Made(at) = 0
    /\ Second => Made(at) = 1
    /\ Again => Made(at) = 2
    /\ Third => Made(at) = 3
    /\ ~OnBus => Made(at) \in 2..4

(***************************************************************************)
(* XGMII_TX_ENGINE and the oldest TLP.                                     *)
(***************************************************************************)
\* The entry that the FIFO shows when it is empty starts no frame.
NoStart == ~(lastRead.start /\ ~lastRead.last)

Resting(at) ==
    /\ fifoState = "IDLE" /\ txState2 = "IDLE" /\ txCount = 0
    /\ frame = <<>> /\ NoStart
    /\ expect # <<>> => at[1] >= 1

Header(at) ==
    /\ fifoState = "WAIT" /\ ~rdEn /\ frame = <<>>
    /\ expect # <<>> /\ at[1] = 0 /\ dout2 = EntryOf(expect[1], 1)
    /\ \/ txState2 = "IDLE" /\ txCount = 0 /\ (fifo = <<>> => lag < 8)
       \/ /\ txState2 = "HEADER" /\ fifo # <<>>
          /\ txCount > 0 => sending = <<>>

Body(at) ==
    /\ fifoState = "DATA" /\ txState2 = "DATA" /\ frame = <<>>
    /\ expect # <<>> /\ at[1] = 0 /\ fifo # <<>>
    /\ \/ ~rdEn /\ dout2 = EntryOf(expect[1], 1) /\ sending = <<>>
       \/ /\ rdEn /\ dout2 = EntryOf(expect[1], 2)
          /\ sending = <<EntryOf(expect[1], 1)>>

Both == <<EntryOf(expect[1], 1), EntryOf(expect[1], 2)>>

Trailer(at) ==
    /\ fifoState = "IDLE" /\ NoStart
    /\ expect # <<>> /\ at[1] = -1
    /\ \/ txState2 = "DATA" /\ ~rdEn /\ sending = Both /\ frame = <<>>
       \/ txState2 = "GAP" /\ txCount = 0 /\ frame = Both

Reader(at) == Resting(at) \/ Header(at) \/ Body(at) \/ Trailer(at)

FrameInv ==
    /\ lag \in 0..12 /\ Len(expect) <= Backlog
    /\ \E at \in [0..Len(expect) -> Int] :
         Placed(Line, expect, at) /\ Writer(at) /\ Reader(at)

\* The lengths of TLPs in beats.
LEMMA BeatsOf ==
    ASSUME NEW t \in Tlps
    PROVE  /\ Beats(t) \in Nat /\ Beats(t) >= 2
           /\ t.type \in {"RD32", "RD64"} => Beats(t) = 2
           /\ t.type = "WR64" /\ t.dw = 1 => Beats(t) = 3
           /\ ForNetwork(t) => t.type \in {"WR32", "CPL"} /\ Beats(t) = 2
<1>1. t.dw \in Nat /\ t.type \in TlpTypes
    BY DEF Tlps
<1>2. TlpDw(t) \in Nat /\ TlpDw(t) >= 3
    BY <1>1 DEF TlpDw, HeaderDw
<1>3. Beats(t) \in Nat /\ Beats(t) >= 2
    BY <1>2 DEF Beats
<1>4. t.type \in {"RD32", "RD64"} => Beats(t) = 2
    BY DEF Beats, TlpDw, HeaderDw, HasData
<1>5. t.type = "WR64" /\ t.dw = 1 => Beats(t) = 3
    BY DEF Beats, TlpDw, HeaderDw, HasData
<1>6. ForNetwork(t) => t.type \in {"WR32", "CPL"} /\ Beats(t) = 2
  <2> SUFFICES ASSUME ForNetwork(t)
               PROVE  t.type \in {"WR32", "CPL"} /\ Beats(t) = 2
    OBVIOUS
  <2>1. (t.type = "WR32" /\ t.dw = 1) \/ (t.type = "CPL" /\ t.dw \in {0, 1})
    BY DEF ForNetwork, Tlps
  <2> QED
    BY <2>1 DEF Beats, TlpDw, HeaderDw, HasData
<1> QED
    BY <1>3, <1>4, <1>5, <1>6

\* What is on the bus, what waits for the network, and no pauses.
QueueTypes ==
    /\ rxBus.tlp \in Tlps /\ expect \in Seq(NetTlps)
    /\ ~Bubbles

\* The bus is free for the next TLP.
NextTlp == \/ ~rxTvalid' /\ rxBus' = EmptyBus /\ ~Starts
           \/ rxTvalid' /\ rxBus'.n = 1 /\ Starts

\* The core holds a beat, shows the next one, or is done with the TLP.
LEMMA HostMoves ==
    ASSUME HostIds >= 2, HostTypes, QueueTypes, HostClk(rxTready),
           rxTvalid \/ rxBus = EmptyBus
    PROVE  /\ rxTvalid /\ ~rxTready
                => rxTvalid' /\ rxBus' = rxBus /\ ~Starts
           /\ rxTvalid /\ rxTready /\ ~RxLast(rxBus)
                => /\ rxTvalid' /\ ~Starts
                   /\ rxBus' = [tlp |-> rxBus.tlp, n |-> rxBus.n + 1]
           /\ ~rxTvalid \/ (rxTready /\ RxLast(rxBus)) => NextTlp
<1>1. CASE HostIdle /\ BusFree(rxTready)
    BY <1>1 DEF HostIdle, BusFree, NextTlp, Starts, HostTypes
<1>2. CASE HostSend /\ BusFree(rxTready)
  <2>1. rxTvalid' /\ rxBus'.n = 1
    BY <1>2 DEF HostSend
  <2>2. hostId' # hostId
    <3>1. hostId' = (hostId + 1) % HostIds
      BY <1>2 DEF HostSend
    <3>2. \A h, m \in Nat : m >= 2 => (h + 1) % m # h
      OBVIOUS
    <3> QED
      BY <3>1, <3>2, HostIdsAssumption DEF HostTypes
  <2> QED
    BY <1>2, <2>1, <2>2 DEF BusFree, NextTlp, Starts
<1>3. CASE HostHold(rxTready)
    BY <1>3 DEF HostHold, hostVars, Starts
<1>4. CASE HostAdvance(rxTready)
    BY <1>4 DEF HostAdvance, QueueTypes, HostTypes, Starts
<1>5. CASE HostResume
    BY <1>5 DEF HostResume
<1> QED
    BY <1>1, <1>2, <1>3, <1>4, <1>5 DEF HostClk

\* An edge of clk for the engines that look at the bus.
BusClk == RxEngineClk(complDone) /\ HostClk(rxTready) /\ SnoopClk

\* The snooper at such an edge.
LEMMA SnoopMoves ==
    ASSUME SnoopTypes, SnoopClk
    PROVE  /\ snState = "IDLE" /\ ~Wanted => snState' = "IDLE" /\ ~snWrEn'
           /\ snState = "IDLE" /\ Wanted =>
                /\ snState' = "HEADER1" /\ snWrEn'
                /\ snType' = LooksLike(rxBus)
                /\ snDin' = Entry(IF LooksLike(rxBus) = "CPL"
                                    THEN "raw" ELSE "rid", RxLast(rxBus))
           /\ snState = "HEADER1" /\ rxTvalid /\ RxLast(rxBus) =>
                /\ snState' = "IDLE" /\ snWrEn'
                /\ snDin'.last
                /\ snDin' = Entry(CASE snType \in {"RD32", "WR32"} -> "addr32"
                                    [] snType \in {"RD64", "WR64"} -> "addr64"
                                    [] snType = "CPL" -> "cplid"
                                    [] OTHER -> "raw", TRUE)
<1>1. PICK last \in (IF rxTvalid THEN {RxLast(rxBus)} ELSE BOOLEAN) :
        SnIgnore \/ SnHeader0(last) \/ SnHeader1(last) \/ SnData(last)
    BY DEF SnoopClk
<1>2. snState = "IDLE" /\ ~Wanted => SnIgnore
    BY <1>1 DEF SnHeader0, SnHeader1, SnData
<1>3. snState = "IDLE" /\ Wanted => SnHeader0(RxLast(rxBus))
    BY <1>1 DEF Wanted, SnIgnore, SnHeader1, SnData
<1>4. snState = "HEADER1" /\ rxTvalid /\ RxLast(rxBus) => SnHeader1(TRUE)
  <2> SUFFICES ASSUME snState = "HEADER1", rxTvalid, RxLast(rxBus)
               PROVE  SnHeader1(TRUE)
    OBVIOUS
  <2>1. last = RxLast(rxBus) /\ RxLast(rxBus) \in BOOLEAN
    BY <1>1 DEF RxLast
  <2>2. SnHeader1(last) /\ last = TRUE
    BY <1>1, <2>1 DEF SnIgnore, SnHeader0, SnData
  <2> QED
    BY <2>2
<1>5. snState = "IDLE" /\ ~Wanted => snState' = "IDLE" /\ ~snWrEn'
    BY <1>2 DEF SnIgnore
<1>6. snState = "IDLE" /\ Wanted =>
                /\ snState' = "HEADER1" /\ snWrEn'
                /\ snType' = LooksLike(rxBus)
                /\ snDin' = Entry(IF LooksLike(rxBus) = "CPL"
                                    THEN "raw" ELSE "rid", RxLast(rxBus))
    BY <1>3 DEF SnHeader0
<1>7. SnHeader1(TRUE) =>
                /\ snState' = "IDLE" /\ snWrEn'
                /\ snDin' = Entry(CASE snType \in {"RD32", "WR32"} -> "addr32"
                                    [] snType \in {"RD64", "WR64"} -> "addr64"
                                    [] snType = "CPL" -> "cplid"
                                    [] OTHER -> "raw", TRUE)
    BY DEF SnHeader1
<1>8. SnHeader1(TRUE) => snDin'.last
    BY <1>7 DEF Entry
<1> QED
    BY <1>4, <1>5, <1>6, <1>7, <1>8

\* Nobody on the bus: nothing happens until the next TLP.
LEMMA FreshIdle ==
    ASSUME HostIds >= 2, HostTypes, SnoopTypes, QueueTypes, BusClk,
           Fresh, ~rxTvalid
    PROVE  Fresh' /\ NextTlp /\ ~snWrEn'
<1>1. NextTlp
    BY HostMoves DEF BusClk, Fresh
<1>2. snState' = "IDLE" /\ ~snWrEn'
    BY SnoopMoves DEF BusClk, Fresh, Wanted
<1>3. rxState' = "RST" /\ rxTready' /\ ~inPacket'
    BY DEF BusClk, Fresh, RxEngineClk, TrackPacket, Sop, RxReset, RxNoHeader,
           RxReadHeader, RxWriteHeader, RxOtherHeader, RxNoBeat, RxReadAddr,
           RxWrite32, RxWrite64Addr, RxWrite64Data, RxWait
<1>4. rxBus'.n = 1 /\ (rxTvalid' \/ rxBus' = EmptyBus)
    BY <1>1 DEF NextTlp, EmptyBus
<1> QED
    BY <1>1, <1>2, <1>3, <1>4 DEF Fresh

\* The first beat of any TLP is taken at once.
LEMMA FreshTaken ==
    ASSUME HostIds >= 2, HostTypes, SnoopTypes, QueueTypes, BusClk,
           Fresh, rxTvalid
    PROVE  /\ rxTvalid' /\ ~Starts /\ inPacket'
           /\ rxBus' = [tlp |-> rxBus.tlp, n |-> 2]
           /\ RxReset
<1>1. Beats(rxBus.tlp) >= 2 /\ Beats(rxBus.tlp) \in Nat
    BY BeatsOf DEF QueueTypes
<1>2. ~RxLast(rxBus) /\ rxBus.n = 1 /\ rxTready /\ rxState = "RST"
    BY <1>1 DEF RxLast, Fresh
<1>3. rxTvalid' /\ ~Starts /\ rxBus' = [tlp |-> rxBus.tlp, n |-> rxBus.n + 1]
    BY <1>2, HostMoves DEF BusClk
<1>4. inPacket'
    BY <1>2 DEF BusClk, RxEngineClk, TrackPacket, Sop, Fresh
<1>5. RxReset
    BY <1>2 DEF BusClk, RxEngineClk, RxNoBeat, RxReadAddr, RxWrite32,
                RxWrite64Addr, RxWrite64Data, RxWait
<1> QED
    BY <1>2, <1>3, <1>4, <1>5

\* The first beat of a TLP that is not for the network.
LEMMA FreshOther ==
    ASSUME HostIds >= 2, HostTypes, SnoopTypes, QueueTypes, BusClk,
           Fresh, rxTvalid, ~ForNetwork(rxBus.tlp)
    PROVE  Passing' /\ ~Starts /\ ~snWrEn' /\ ~OnBus'
<1>1. /\ rxTvalid' /\ ~Starts /\ inPacket' /\ RxReset
      /\ rxBus' = [tlp |-> rxBus.tlp, n |-> 2]
    BY FreshTaken
<1>2. rxBus'.tlp = rxBus.tlp /\ rxBus'.n = 2
    BY <1>1
<1>3. snState' = "IDLE" /\ ~snWrEn'
    BY SnoopMoves DEF BusClk, Fresh, Wanted, LooksLike, ForNetwork
<1>4. ~ForNetwork(rxBus'.tlp) /\ ~OnBus'
    BY <1>2 DEF ForNetwork, OnBus
<1>5. /\ rxBus.tlp.type = "WR64" /\ rxBus.tlp.dw = 1 => Beats(rxBus.tlp) = 3
      /\ Beats(rxBus'.tlp) = Beats(rxBus.tlp)
    BY <1>2, BeatsOf DEF QueueTypes
<1>6. \/ rxState' = "RST"
      \/ /\ rxState' \in {"MEM_RD32_DW1DW2", "MEM_RD64_DW1DW2",
                          "MEM_WR32_DW1DW2"}
         /\ ~rxTready'
      \/ /\ rxState' = "MEM_WR64_DW1DW2" /\ rxTready'
         /\ Beats(rxBus'.tlp) = 3
    BY <1>1, <1>5 DEF RxReset, RxNoHeader, RxReadHeader, RxWriteHeader,
                      RxOtherHeader
<1> QED
    BY <1>1, <1>2, <1>3, <1>4, <1>6 DEF Passing

\* The first beat of a TLP for the network.
LEMMA FreshNet ==
    ASSUME HostIds >= 2, HostTypes, SnoopTypes, QueueTypes, BusClk,
           Fresh, First
    PROVE  Second' /\ ~Starts /\ rxBus'.tlp = rxBus.tlp
<1>1. /\ rxTvalid' /\ ~Starts /\ inPacket' /\ RxReset
      /\ rxBus' = [tlp |-> rxBus.tlp, n |-> 2]
    BY FreshTaken DEF First, OnBus
<1>2. rxBus'.tlp = rxBus.tlp /\ rxBus'.n = 2
    BY <1>1
<1>3. /\ rxBus.tlp.type \in {"WR32", "CPL"} /\ Beats(rxBus.tlp) = 2
      /\ rxBus.tlp.type = "WR32" => rxBus.tlp.dw = 1
  <2>1. rxBus.tlp.type = "WR32" => rxBus.tlp.dw = 1
    BY DEF QueueTypes, Tlps, First, OnBus, ForNetwork
  <2> QED
    BY <2>1, BeatsOf DEF QueueTypes, First, OnBus
<1>4. Wanted /\ LooksLike(rxBus) = rxBus.tlp.type /\ RxLast(rxBus) = FALSE
    BY <1>3 DEF Wanted, First, OnBus, ForNetwork, LooksLike, RxLast
<1>5. /\ snState' = "HEADER1" /\ snWrEn' /\ snType' = rxBus.tlp.type
      /\ snDin' = Entry(IF rxBus.tlp.type = "CPL" THEN "raw" ELSE "rid", FALSE)
    BY <1>4, SnoopMoves DEF BusClk, Fresh
<1>6. snDin' = EntryOf(rxBus.tlp, 1)
  <2>1. RewriteOf(rxBus.tlp, 1)
          = IF rxBus.tlp.type = "CPL" THEN "raw" ELSE "rid"
    BY DEF RewriteOf
  <2>2. rxTvalid = TRUE /\ rxBus.n = 1 /\ (1 = 2) = FALSE
    BY DEF HostTypes, First, OnBus
  <2> QED
    BY <1>5, <2>1, <2>2 DEF Entry, EntryOf
<1>7. \/ rxBus.tlp.type = "CPL" /\ rxState' = "RST" /\ rxTready'
      \/ /\ rxBus.tlp.type = "WR32" /\ rxState' = "MEM_WR32_DW1DW2"
         /\ tlpType' = "WR32" /\ ~rxTready'
    BY <1>1, <1>3 DEF RxReset, RxNoHeader, RxReadHeader, RxWriteHeader,
                      RxOtherHeader, Sop, Fresh, First, OnBus
<1>8. OnBus'
    BY <1>1, <1>2 DEF OnBus, First, ForNetwork
<1>9. EntryOf(rxBus'.tlp, 1) = EntryOf(rxBus.tlp, 1)
    BY <1>2
<1> QED
    BY <1>1, <1>2, <1>5, <1>6, <1>7, <1>8, <1>9 DEF Second

\* The last beat of a TLP for the network is taken.
LEMMA LastTaken ==
    ASSUME HostIds >= 2, HostTypes, QueueTypes, BusClk,
           OnBus, rxBus.n = 2, inPacket, rxState = "RST", rxTready
    PROVE  /\ NextTlp /\ rxState' = "RST" /\ rxTready' /\ ~inPacket'
           /\ rxBus'.n = 1 /\ (rxTvalid' \/ rxBus' = EmptyBus)
<1>1. RxLast(rxBus)
    BY BeatsOf DEF QueueTypes, OnBus, RxLast
<1>2. NextTlp
    BY <1>1, HostMoves DEF BusClk, OnBus
<1>3. rxState' = "RST" /\ rxTready' /\ ~inPacket'
    BY <1>1 DEF BusClk, RxEngineClk, TrackPacket, Sop, RxReset, RxNoHeader,
           RxReadHeader, RxWriteHeader, RxOtherHeader, RxNoBeat, RxReadAddr,
           RxWrite32, RxWrite64Addr, RxWrite64Data, RxWait, OnBus
<1>4. rxBus'.n = 1 /\ (rxTvalid' \/ rxBus' = EmptyBus)
    BY <1>2 DEF NextTlp, EmptyBus
<1> QED
    BY <1>2, <1>3, <1>4

\* The second entry.
LEMMA SecondEntry ==
    ASSUME HostTypes, SnoopTypes, QueueTypes, BusClk, Second
    PROVE  snState' = "IDLE" /\ snWrEn' /\ snDin' = EntryOf(rxBus.tlp, 2)
<1>1. RxLast(rxBus) /\ rxTvalid = TRUE /\ rxBus.n = 2
    BY BeatsOf DEF QueueTypes, Second, OnBus, RxLast, HostTypes
<1>2. rxBus.tlp.type \in {"WR32", "CPL"} /\ snType = rxBus.tlp.type
    BY DEF Second
<1>3. /\ snState' = "IDLE" /\ snWrEn'
      /\ snDin' = Entry(CASE snType \in {"RD32", "WR32"} -> "addr32"
                          [] snType \in {"RD64", "WR64"} -> "addr64"
                          [] snType = "CPL" -> "cplid"
                          [] OTHER -> "raw", TRUE)
    BY <1>1, SnoopMoves DEF BusClk, Second
<1>4. RewriteOf(rxBus.tlp, 2) = CASE snType \in {"RD32", "WR32"} -> "addr32"
                                  [] snType \in {"RD64", "WR64"} -> "addr64"
                                  [] snType = "CPL" -> "cplid"
                                  [] OTHER -> "raw"
    BY <1>2 DEF RewriteOf
<1>5. snDin' = Entry(RewriteOf(rxBus.tlp, 2), TRUE)
    BY <1>3, <1>4
<1>6. (2 = 2) = TRUE
    OBVIOUS
<1> QED
    BY <1>1, <1>3, <1>5, <1>6 DEF Entry, EntryOf

\* The second beat of a completion is the end of it ...
LEMMA SecondCpl ==
    ASSUME HostIds >= 2, HostTypes, SnoopTypes, QueueTypes, BusClk,
           Second, rxBus.tlp.type = "CPL"
    PROVE  Fresh' /\ NextTlp
<1>1. OnBus /\ rxBus.n = 2 /\ inPacket /\ rxState = "RST" /\ rxTready
    BY DEF Second
<1> QED
    BY <1>1, LastTaken, SecondEntry DEF Fresh

\* ... that of a write is held.
LEMMA SecondWrite ==
    ASSUME HostIds >= 2, HostTypes, SnoopTypes, QueueTypes, BusClk,
           Second, rxBus.tlp.type # "CPL"
    PROVE  Again' /\ ~Starts /\ rxBus' = rxBus
<1>1. /\ rxTvalid /\ ~rxTready /\ rxBus.tlp.type = "WR32" /\ rxBus.n = 2
      /\ rxState = "MEM_WR32_DW1DW2" /\ tlpType = "WR32" /\ inPacket
    BY DEF Second, OnBus
<1>2. rxTvalid' /\ rxBus' = rxBus /\ ~Starts
    BY <1>1, HostMoves DEF BusClk
<1>3. rxState' = "WAIT" /\ ~rxTready' /\ tlpType' = "WR32" /\ inPacket'
    BY <1>1 DEF BusClk, RxEngineClk, TrackPacket, Sop, RxReset, RxNoHeader,
           RxReadHeader, RxWriteHeader, RxOtherHeader, RxNoBeat, RxReadAddr,
           RxWrite32, RxWrite64Addr, RxWrite64Data, RxWait
<1>4. OnBus'
    BY <1>2 DEF OnBus, Second, ForNetwork
<1> QED
    BY <1>1, <1>2, <1>3, <1>4, SecondEntry DEF Again

\* The snooper takes the held beat for a header ...
LEMMA AgainStep ==
    ASSUME HostIds >= 2, HostTypes, SnoopTypes, QueueTypes, BusClk, Again
    PROVE  Third' /\ ~Starts /\ snWrEn' /\ snDin'.last
<1>1. /\ rxTvalid /\ ~rxTready /\ rxBus.tlp.type = "WR32" /\ rxBus.n = 2
      /\ rxState = "WAIT" /\ tlpType = "WR32" /\ inPacket
      /\ rxBus.tlp.bar = "BAR2" /\ snState = "IDLE"
    BY DEF Again, OnBus, ForNetwork
<1>2. rxTvalid' /\ rxBus' = rxBus /\ ~Starts
    BY <1>1, HostMoves DEF BusClk
<1>3. rxState' = "RST" /\ rxTready' /\ inPacket'
    BY <1>1 DEF BusClk, RxEngineClk, TrackPacket, Sop, RxReset, RxNoHeader,
           RxReadHeader, RxWriteHeader, RxOtherHeader, RxNoBeat, RxReadAddr,
           RxWrite32, RxWrite64Addr, RxWrite64Data, RxWait
<1>4. OnBus'
    BY <1>2 DEF OnBus, Again, ForNetwork
<1>5. RxLast(rxBus)
    BY <1>1, BeatsOf DEF QueueTypes, Again, OnBus, RxLast
<1>6. /\ snState' = "HEADER1" /\ snWrEn'
      /\ snDin' = Entry(IF LooksLike(rxBus) = "CPL" THEN "raw" ELSE "rid",
                        RxLast(rxBus))
    BY <1>1, SnoopMoves DEF BusClk, Wanted
<1>7. snDin'.last
    BY <1>5, <1>6 DEF Entry
<1> QED
    BY <1>1, <1>2, <1>3, <1>4, <1>6, <1>7 DEF Third

\* ... and once more for the beat after it, as it is taken.
LEMMA ThirdStep ==
    ASSUME HostIds >= 2, HostTypes, SnoopTypes, QueueTypes, BusClk, Third
    PROVE  Fresh' /\ NextTlp /\ snWrEn' /\ snDin'.last
<1>1. OnBus /\ rxBus.n = 2 /\ inPacket /\ rxState = "RST" /\ rxTready
    BY DEF Third
<1>2. RxLast(rxBus)
    BY <1>1, BeatsOf DEF QueueTypes, OnBus, RxLast
<1>3. snState' = "IDLE" /\ snWrEn' /\ snDin'.last
    BY <1>2, SnoopMoves DEF BusClk, Third, OnBus
<1> QED
    BY <1>1, <1>3, LastTaken DEF Fresh

\* The later beats of TLPs that are not for the network.
LEMMA PassingStep ==
    ASSUME HostIds >= 2, HostTypes, SnoopTypes, QueueTypes, BusClk, Passing
    PROVE  /\ ~snWrEn'
           /\ \/ Passing' /\ ~Starts /\ ~OnBus'
              \/ Fresh' /\ NextTlp
<1>1. snState' = "IDLE" /\ ~snWrEn'
  <2>1. LooksLike(rxBus) # "CPL" /\ rxBus.tlp.bar # "BAR2"
    BY DEF LooksLike, Passing, QueueTypes, Tlps, ForNetwork, HostTypes
  <2> QED
    BY <2>1, SnoopMoves DEF BusClk, Wanted, Passing
<1>2. CASE rxTready /\ RxLast(rxBus)
  <2>1. NextTlp
    BY <1>2, HostMoves DEF BusClk, Passing
  <2>2. rxState = "RST"
    BY <1>2 DEF Passing, RxLast
  <2>3. rxState' = "RST" /\ rxTready' /\ ~inPacket'
    BY <1>2, <2>2 DEF BusClk, RxEngineClk, TrackPacket, Sop, RxReset,
           RxNoHeader, RxReadHeader, RxWriteHeader, RxOtherHeader, RxNoBeat,
           RxReadAddr, RxWrite32, RxWrite64Addr, RxWrite64Data, RxWait, Passing
  <2>4. rxBus'.n = 1 /\ (rxTvalid' \/ rxBus' = EmptyBus)
    BY <2>1 DEF NextTlp, EmptyBus
  <2> QED
    BY <1>1, <2>1, <2>3, <2>4 DEF Fresh
<1>3. CASE ~(rxTready /\ RxLast(rxBus))
  <2>1. /\ rxTvalid' /\ ~Starts
        /\ rxBus' = [tlp |-> rxBus.tlp, n |-> IF rxTready THEN rxBus.n + 1
                                                          ELSE rxBus.n]
    BY <1>3, HostMoves DEF BusClk, Passing, HostTypes
  <2>2. /\ rxBus'.tlp = rxBus.tlp /\ rxBus'.n > 1
        /\ rxTready => rxBus'.n = rxBus.n + 1
        /\ ~rxTready => rxBus'.n = rxBus.n
    BY <2>1 DEF Passing, HostTypes
  <2>3. inPacket'
    BY <1>3 DEF BusClk, RxEngineClk, TrackPacket, Sop, Passing
  <2>4. ~ForNetwork(rxBus'.tlp) /\ ~OnBus'
    BY <2>2 DEF Passing, ForNetwork, OnBus
  <2>5. \/ rxState' = "RST"
        \/ rxState' = "WAIT" /\ ~rxTready'
        \/ rxState' = "MEM_WR64_DW3" /\ rxBus'.n = 3 /\ ~rxTready'
    <3>1. CASE rxState = "RST"
      BY <3>1 DEF BusClk, RxEngineClk, Sop, RxReset, RxNoHeader,
             RxReadHeader, RxWriteHeader, RxOtherHeader, RxNoBeat,
             RxReadAddr, RxWrite32, RxWrite64Addr, RxWrite64Data, RxWait,
             Passing
    <3>2. CASE rxState = "WAIT"
      BY <3>2 DEF BusClk, RxEngineClk, RxReset, RxNoHeader,
             RxReadHeader, RxWriteHeader, RxOtherHeader, RxNoBeat,
             RxReadAddr, RxWrite32, RxWrite64Addr, RxWrite64Data, RxWait,
             Passing
    <3>3. CASE rxState \in {"MEM_RD32_DW1DW2", "MEM_RD64_DW1DW2",
                            "MEM_WR32_DW1DW2", "MEM_WR64_DW3"}
      BY <3>3 DEF BusClk, RxEngineClk, RxReset, RxNoHeader,
             RxReadHeader, RxWriteHeader, RxOtherHeader, RxNoBeat,
             RxReadAddr, RxWrite32, RxWrite64Addr, RxWrite64Data, RxWait,
             Passing
    <3>4. CASE rxState = "MEM_WR64_DW1DW2"
      <4>1. rxBus.n = 2 /\ rxTready
        BY <3>4 DEF Passing
      <4>2. rxState' = "MEM_WR64_DW3" /\ ~rxTready'
        BY <3>4 DEF BusClk, RxEngineClk, RxReset, RxNoHeader,
               RxReadHeader, RxWriteHeader, RxOtherHeader, RxNoBeat,
               RxReadAddr, RxWrite32, RxWrite64Addr, RxWrite64Data, RxWait,
               Passing
      <4> QED
        BY <2>2, <4>1, <4>2
    <3> QED
      BY <3>1, <3>2, <3>3, <3>4 DEF Passing
  <2> QED
    BY <1>1, <2>1, <2>2, <2>3, <2>4, <2>5 DEF Passing
<1> QED
    BY <1>2, <1>3

\* An entry of the last TLP, or one after both.
LEMMA PlacedLast ==
    ASSUME NEW line \in Seq(Entries), NEW tlps \in Seq(NetTlps), NEW at,
           NEW e \in Entries, Placed(line, tlps, at),
           \/ /\ tlps # <<>> /\ at[Len(tlps)] = Len(line) + 1
              /\ e = EntryOf(tlps[Len(tlps)], 1)
           \/ /\ tlps # <<>> /\ at[Len(tlps)] = Len(line)
              /\ e = EntryOf(tlps[Len(tlps)], 2)
           \/ at[Len(tlps)] < Len(line) /\ e.last
    PROVE  Placed(Append(line, e), tlps, at)
<1> DEFINE N == Len(tlps)
<1>1. N \in Nat /\ Len(line) \in Nat /\ (tlps # <<>> => N \in 1..N)
    OBVIOUS
<1>2. at \in [0..N -> Int]
    BY DEF Placed, Apart
<1>3. \A i \in 1..N : at[i] \in Int /\ (i = N \/ at[i] + 2 <= at[N])
  <2>1. \A i, j \in 0..N : i < j => at[i] + 2 <= at[j]
    BY DEF Placed, Apart
  <2>2. \A i \in 1..N : i \in 0..N /\ N \in 0..N /\ (i = N \/ i < N)
    <3> HIDE DEF N
    <3> QED
      BY <1>1
  <2> QED
    BY <1>2, <2>1, <2>2
<1>4. at[N] \in Int
    BY <1>1, <1>2
<1>5. \A i \in 1..N : /\ at[i] = Len(line) + 1 => e = EntryOf(tlps[i], 1)
                      /\ at[i] = Len(line) => e = EntryOf(tlps[i], 2)
  <2> SUFFICES ASSUME NEW i \in 1..N
               PROVE  /\ at[i] = Len(line) + 1 => e = EntryOf(tlps[i], 1)
                      /\ at[i] = Len(line) => e = EntryOf(tlps[i], 2)
    OBVIOUS
  <2>1. CASE i = N
    BY <1>1, <1>4, <2>1
  <2>2. CASE i # N
    <3>1. at[i] \in Int /\ at[i] + 2 <= at[N] /\ at[N] <= Len(line) + 1
      BY <1>1, <1>3, <1>4, <2>2
    <3> QED
      BY <1>1, <1>4, <3>1
  <2> QED
    BY <2>1, <2>2
<1>6. e.last \/ \E i \in 1..N : at[i] = Len(line) + 1
  <2>1. EntryOf(tlps[N], 2).last
    BY DEF EntryOf
  <2> QED
    BY <1>1, <2>1
<1> QED
    BY <1>5, <1>6, PlacedEntry

\* What has been written is not more than the FIFO takes.
LEMMA RoomLeft ==
    ASSUME RoomForBacklog, QueueTypes, FifoTypes, SnoopTypes,
           Len(expect) <= Backlog,
           NEW at, Placed(Line, expect, at), Made(at) <= 4
    PROVE  Len(Line) <= FifoDepth /\ Line \in Seq(Entries)
<1> DEFINE N == Len(expect)
<1>1. Line \in Seq(Entries) /\ Len(Line) \in Nat
    BY DEF Line, FifoTypes, SnoopTypes
<1>2. N \in Nat /\ at \in [0..N -> Int] /\ at[0] <= -1
    BY DEF QueueTypes, Placed, Apart
<1>3. at[N] <= at[0] + 4 * N
  <2>1. CASE N = 0
    BY <1>2, <2>1
  <2>2. CASE N # 0
    <3>1. 0 \in 0..N /\ N \in 0..N /\ 0 < N
      BY <1>2, <2>2
    <3>2. at[N] <= at[0] + 4 * (N - 0)
      BY <3>1 DEF Placed, Apart
    <3> QED
      BY <1>2, <3>2
  <2> QED
    BY <2>1, <2>2
<1>4. Len(Line) - at[N] + 1 <= 4 /\ at[0] \in Int /\ at[N] \in Int
    BY <1>2 DEF Made
<1>5. Len(Line) <= 4 * N + 2
    BY <1>1, <1>2, <1>3, <1>4
<1> QED
    BY <1>1, <1>2, <1>5, BacklogAssumption, FifoDepthAssumption
       DEF RoomForBacklog

\* So an edge of clk moves the entry into the FIFO, and makes another.
LEMMA LineGrows ==
    ASSUME FifoTypes, SnoopTypes, FifoWrite(snWrEn, snDin),
           Len(Line) <= FifoDepth
    PROVE  /\ fifo' = Line
           /\ snWrEn' => Line' = Append(Line, snDin')
           /\ ~snWrEn' => Line' = Line
<1>1. fifo' = Line
  <2>1. CASE snWrEn
    <3>1. Len(fifo) < FifoDepth
      BY <2>1, FifoDepthAssumption DEF Line, FifoTypes, SnoopTypes
    <3> QED
      BY <2>1, <3>1 DEF FifoWrite, Line
  <2>2. CASE ~snWrEn
    BY <2>2 DEF FifoWrite, Line
  <2> QED
    BY <2>1, <2>2
<1> QED
    BY <1>1 DEF Line

\* The places after a step: those of the TLPs that were there, and that of a
\* new one behind all that is written.
Follows(b, at) ==
    /\ \A i \in 0..Len(expect) : b[i] = at[i]
    /\ expect = <<>> /\ expect' # <<>> => b[1] >= 1

\* The TLPs that wait for the network.
Queued == expect' = IF Starts /\ ForNetwork(rxBus'.tlp)
                      THEN Append(expect, rxBus'.tlp) ELSE expect

\* No new TLP.
LEMMA SameTlps ==
    ASSUME Queued, ~Starts
    PROVE  expect' = expect /\ \A at : Follows(at, at)
    BY DEF Queued, Follows

\* The bus becomes free for the next TLP: the places of the next one are
\* those after what has been written.
LEMMA NextPlaces ==
    ASSUME QueueTypes, QueueTypes', FifoTypes', SnoopTypes',
           Queued, NextTlp, Fresh', Line' \in Seq(Entries),
           NEW at, Placed(Line', expect, at),
           Len(Line') - at[Len(expect)] + 1 \in 2..4
    PROVE  \E b : Placed(Line', expect', b) /\ Writer(b)' /\ Follows(b, at)
<1> DEFINE N == Len(expect)
           t == rxBus'.tlp
<1>1. N \in Nat /\ Len(Line') \in Nat /\ at \in [0..N -> Int]
    BY DEF QueueTypes, Placed, Apart
<1>2. ~Second' /\ ~Again' /\ ~Third' /\ Phase'
    BY DEF Fresh, Second, Again, Third, Phase
<1>3. CASE Starts /\ ForNetwork(t)
  <2>1. expect' = Append(expect, t) /\ t \in NetTlps
    BY <1>3 DEF Queued, QueueTypes, NetTlps
  <2>2. /\ Len(expect') = N + 1 /\ expect' # <<>>
        /\ expect'[N + 1] = t
    BY <1>1, <2>1 DEF QueueTypes
  <2>3. \E b : /\ Placed(Line', expect', b)
               /\ b[N + 1] = Len(Line') + 1
               /\ \A i \in 0..N : b[i] = at[i]
    <3> DEFINE c == [i \in 0..(N + 1) |-> IF i <= N THEN at[i]
                                                  ELSE Len(Line') + 1]
    <3>1. at[N] \in Int
      BY <1>1
    <3>2. Len(Line') + 1 >= at[N] + 2 /\ Len(Line') + 1 <= at[N] + 4
      BY <1>1, <3>1
    <3>3. Placed(Line', expect', c)
      BY <2>1, <3>2, PlacedNew DEF QueueTypes
    <3>4. c[N + 1] = Len(Line') + 1 /\ \A i \in 0..N : c[i] = at[i]
      BY <1>1
    <3> QED
      BY <3>3, <3>4
  <2>4. PICK b : /\ Placed(Line', expect', b)
                 /\ b[N + 1] = Len(Line') + 1
                 /\ \A i \in 0..N : b[i] = at[i]
    BY <2>3
  <2>5. Made(b)' = 0
    BY <1>1, <2>2, <2>4 DEF Made
  <2>6. Writer(b)'
    <3>1. OnBus'
      BY <1>3 DEF OnBus, Starts
    <3> QED
      BY <1>2, <2>2, <2>5, <3>1 DEF Writer
  <2>7. Follows(b, at)
    <3>1. expect = <<>> => N = 0
      OBVIOUS
    <3> QED
      BY <1>1, <2>4, <3>1 DEF Follows
  <2> QED
    BY <2>4, <2>6, <2>7
<1>4. CASE ~(Starts /\ ForNetwork(t))
  <2>1. expect' = expect
    BY <1>4 DEF Queued
  <2>2. ~OnBus' /\ ~First'
    BY <1>4 DEF OnBus, First, NextTlp
  <2>3. Made(at)' \in 2..4
    BY <2>1 DEF Made
  <2>4. Writer(at)'
    BY <1>2, <2>2, <2>3 DEF Writer
  <2> QED
    BY <2>1, <2>4 DEF Follows
<1> QED
    BY <1>3, <1>4

\* No new TLP, and the snooper goes on with the one on the bus.
LEMMA SamePlaces ==
    ASSUME Queued, ~Starts, NEW at, Placed(Line', expect, at), Writer(at)'
    PROVE  \E b : Placed(Line', expect', b) /\ Writer(b)' /\ Follows(b, at)
    BY SameTlps

\* An edge of clk for the snooper and what it has written.
LEMMA ClkWriter ==
    ASSUME HostIds >= 2, RoomForBacklog, Types, Types', QueueTypes,
           QueueTypes', Len(expect) <= Backlog, BusClk, Queued,
           FifoWrite(snWrEn, snDin),
           NEW at, Placed(Line, expect, at), Writer(at)
    PROVE  /\ fifo' = Line
           /\ \E b : Placed(Line', expect', b) /\ Writer(b)' /\ Follows(b, at)
<1> DEFINE N == Len(expect)
<1>1. /\ HostTypes /\ SnoopTypes /\ FifoTypes
      /\ HostTypes' /\ SnoopTypes' /\ FifoTypes'
    BY DEF Types
<1>2. N \in Nat /\ at \in [0..N -> Int] /\ at[N] \in Int
  <2>1. N \in Nat /\ at \in [0..N -> Int]
    BY DEF QueueTypes, Placed, Apart
  <2> QED
    BY <2>1
<1>3. Made(at) = Len(Line) - at[N] + 1
    BY DEF Made
<1>4. Fresh \/ Second \/ Again \/ Third \/ Passing
    BY DEF Writer, Phase
<1>5. First <=> Fresh /\ rxTvalid /\ ForNetwork(rxBus.tlp)
    BY <1>4 DEF First, OnBus, Fresh, Second, Again, Third, Passing
<1>6. Made(at) <= 4
  <2>1. First \/ Second \/ Again \/ Third \/ ~OnBus
    BY <1>4, <1>5 DEF OnBus, Passing
  <2> QED
    BY <2>1 DEF Writer
<1>7. Len(Line) <= FifoDepth /\ Line \in Seq(Entries) /\ Len(Line) \in Nat
  <2>1. Len(Line) <= FifoDepth /\ Line \in Seq(Entries)
    BY <1>1, <1>6, RoomLeft
  <2> QED
    BY <2>1
<1>8. /\ fifo' = Line
      /\ snWrEn' => Line' = Append(Line, snDin')
      /\ ~snWrEn' => Line' = Line
    BY <1>1, <1>7, LineGrows
<1>9. Line' \in Seq(Entries) /\ snDin' \in Entries
    BY <1>1, <1>7, <1>8 DEF SnoopTypes
<1>10. snWrEn' => Len(Line') = Len(Line) + 1
    BY <1>7, <1>8, <1>9
<1>11. CASE Fresh /\ ~rxTvalid
  <2>1. Fresh' /\ NextTlp /\ ~snWrEn'
    BY <1>1, <1>11, FreshIdle
  <2>2. Len(Line') - at[N] + 1 \in 2..4
    BY <1>3, <1>8, <1>11, <2>1 DEF Writer, OnBus
  <2> QED
    BY <1>1, <1>8, <1>9, <2>1, <2>2, NextPlaces
<1>12. CASE Fresh /\ rxTvalid /\ ~ForNetwork(rxBus.tlp)
  <2>1. Passing' /\ ~Starts /\ ~snWrEn' /\ ~OnBus'
    BY <1>1, <1>12, FreshOther
  <2>2. expect' = expect /\ Line' = Line
    BY <1>8, <2>1, SameTlps
  <2>3. Made(at)' \in 2..4
    BY <1>12, <2>2 DEF Made, Writer, OnBus
  <2>4. Writer(at)'
    BY <2>1, <2>3 DEF Writer, Phase, First, Second, Again, Third, OnBus
  <2> QED
    BY <1>8, <2>1, <2>2, <2>4, SamePlaces
<1>13. CASE First
  <2>1. Second' /\ ~Starts /\ rxBus'.tlp = rxBus.tlp
    BY <1>1, <1>5, <1>13, FreshNet
  <2>2. /\ expect # <<>> /\ expect[N] = rxBus.tlp /\ at[N] = Len(Line) + 1
    BY <1>2, <1>3, <1>7, <1>13 DEF Writer
  <2>3. snWrEn' /\ snDin' = EntryOf(expect[N], 1)
    BY <2>1, <2>2 DEF Second
  <2>4. Placed(Line', expect, at)
    BY <1>7, <1>8, <1>9, <2>2, <2>3, PlacedLast DEF QueueTypes
  <2>5. expect' = expect
    BY <2>1, SameTlps
  <2>6. Made(at)' = 1
    BY <1>2, <1>7, <1>10, <2>2, <2>3, <2>5 DEF Made
  <2>7. Writer(at)'
    <3>1. ~First' /\ ~Again' /\ ~Third' /\ OnBus'
      BY <2>1 DEF First, Second, Again, Third
    <3> QED
      BY <2>1, <2>2, <2>5, <2>6, <3>1 DEF Writer, Phase
  <2> QED
    BY <1>8, <2>1, <2>4, <2>7, SamePlaces
<1>14. CASE Second
  <2>1. snWrEn' /\ snDin' = EntryOf(rxBus.tlp, 2)
    BY <1>1, <1>14, SecondEntry
  <2>2. /\ expect # <<>> /\ expect[N] = rxBus.tlp /\ at[N] = Len(Line)
    BY <1>2, <1>3, <1>7, <1>14 DEF Writer
  <2>3. Placed(Line', expect, at)
    BY <1>7, <1>8, <1>9, <2>1, <2>2, PlacedLast DEF QueueTypes
  <2>4. Len(Line') - at[N] + 1 = 2
    BY <1>2, <1>7, <1>10, <2>1, <2>2
  <2>5. CASE rxBus.tlp.type = "CPL"
    <3>1. Fresh' /\ NextTlp
      BY <1>1, <1>14, <2>5, SecondCpl
    <3> QED
      BY <1>1, <1>8, <1>9, <2>3, <2>4, <3>1, NextPlaces
  <2>6. CASE rxBus.tlp.type # "CPL"
    <3>1. Again' /\ ~Starts
      BY <1>1, <1>14, <2>6, SecondWrite
    <3>2. expect' = expect
      BY <3>1, SameTlps
    <3>3. Made(at)' = 2
      BY <2>4, <3>2 DEF Made
    <3>4. Writer(at)'
      <4>1. ~First' /\ ~Second' /\ ~Third' /\ OnBus'
        BY <3>1 DEF First, Second, Again, Third
      <4> QED
        BY <3>1, <3>3, <4>1 DEF Writer, Phase
    <3> QED
      BY <1>8, <2>3, <3>1, <3>4, SamePlaces
  <2> QED
    BY <2>5, <2>6
<1>15. CASE Again
  <2>1. Third' /\ ~Starts /\ snWrEn' /\ snDin'.last
    BY <1>1, <1>15, AgainStep
  <2>2. at[N] = Len(Line) - 1
    BY <1>2, <1>3, <1>7, <1>15 DEF Writer
  <2>3. Placed(Line', expect, at)
    <3>1. at[N] < Len(Line)
      BY <1>7, <2>2
    <3> QED
      BY <1>7, <1>8, <1>9, <2>1, <3>1, PlacedLast DEF QueueTypes
  <2>4. expect' = expect
    BY <2>1, SameTlps
  <2>5. Made(at)' = 3
    BY <1>2, <1>7, <1>10, <2>1, <2>2, <2>4 DEF Made
  <2>6. Writer(at)'
    <3>1. ~First' /\ ~Second' /\ ~Again' /\ OnBus'
      BY <2>1 DEF First, Second, Again, Third
    <3> QED
      BY <2>1, <2>5, <3>1 DEF Writer, Phase
  <2> QED
    BY <1>8, <2>1, <2>3, <2>6, SamePlaces
<1>16. CASE Third
  <2>1. Fresh' /\ NextTlp /\ snWrEn' /\ snDin'.last
    BY <1>1, <1>16, ThirdStep
  <2>2. at[N] = Len(Line) - 2
    BY <1>2, <1>3, <1>7, <1>16 DEF Writer
  <2>3. Placed(Line', expect, at)
    <3>1. at[N] < Len(Line)
      BY <1>7, <2>2
    <3> QED
      BY <1>7, <1>8, <1>9, <2>1, <3>1, PlacedLast DEF QueueTypes
  <2>4. Len(Line') - at[N] + 1 = 4
    BY <1>2, <1>7, <1>10, <2>1, <2>2
  <2> QED
    BY <1>1, <1>8, <1>9, <2>1, <2>3, <2>4, NextPlaces
<1>17. CASE Passing
  <2>1. /\ ~snWrEn'
        /\ (Passing' /\ ~Starts /\ ~OnBus') \/ (Fresh' /\ NextTlp)
    BY <1>1, <1>17, PassingStep
  <2>2. Line' = Line /\ Made(at) \in 2..4
    BY <1>8, <1>17, <2>1 DEF Writer, Passing, OnBus
  <2>3. CASE Passing' /\ ~Starts /\ ~OnBus'
    <3>1. expect' = expect
      BY <2>3, SameTlps
    <3>2. Made(at)' \in 2..4
      BY <2>2, <3>1 DEF Made
    <3>3. Writer(at)'
      BY <2>3, <3>2 DEF Writer, Phase, First, Second, Again, Third
    <3> QED
      BY <1>8, <2>2, <2>3, <3>3, SamePlaces
  <2>4. CASE Fresh' /\ NextTlp
    BY <1>1, <1>3, <1>8, <1>9, <2>2, <2>4, NextPlaces
  <2> QED
    BY <2>1, <2>3, <2>4
<1> QED
    BY <1>4, <1>5, <1>11, <1>12, <1>13, <1>14, <1>15, <1>16, <1>17

\* An edge of clk changes nothing for the reader but that more is written.
LEMMA ClkReader ==
    ASSUME QueueTypes, FifoTypes, SnoopTypes, lag \in 0..7,
           UNCHANGED <<xtVars, lastRead, sending, frame>>,
           fifo' = Line, Queued,
           NEW at, Placed(Line, expect, at), Writer(at), Reader(at),
           NEW b, Follows(b, at)
    PROVE  Reader(b)'
<1> DEFINE N == Len(expect)
<1>1. N \in Nat /\ at \in [0..N -> Int]
    BY DEF QueueTypes, Placed, Apart
<1>2. expect # <<>> => /\ expect' # <<>> /\ expect'[1] = expect[1]
                       /\ b[1] = at[1] /\ N \in Nat \ {0}
    BY DEF Queued, QueueTypes, Follows
<1>3. fifo # <<>> => fifo' # <<>>
    BY DEF Line, FifoTypes, SnoopTypes
<1>4. expect # <<>> /\ at[1] = 0 => fifo' # <<>>
  <2> SUFFICES ASSUME expect # <<>>, at[1] = 0 PROVE Len(Line) > 0
    <3>1. Len(<<>>) = 0
      OBVIOUS
    <3>2. Len(fifo') > 0 => fifo' # <<>>
      BY <3>1
    <3> QED
      BY <3>2
  <2>1. N \in Nat \ {0} /\ at[N] \in Int /\ Len(Line) \in Nat
    BY <1>1, <1>2 DEF Line, FifoTypes, SnoopTypes
  <2>2. N = 1 \/ at[N] >= 2
    <3>1. 1 \in 0..N /\ N \in 0..N /\ (N = 1 \/ 1 < N)
      <4> HIDE DEF N
      <4> QED
        BY <2>1
    <3>2. 1 < N => at[1] + 2 <= at[N]
      <4>1. \A i, j \in 0..N : i < j => at[i] + 2 <= at[j]
        BY DEF Placed, Apart
      <4> QED
        BY <3>1, <4>1
    <3> QED
      BY <2>1, <3>1, <3>2
  <2>3. First \/ Second \/ Again \/ Third \/ ~OnBus
    BY DEF Writer, Phase, Fresh, Passing, First, OnBus
  <2>4. Made(at) \in 0..4 /\ (Made(at) = 0 => First) /\ (Made(at) = 1 => Second)
    BY <2>3 DEF Writer
  <2>5. Len(Line) = Made(at) + at[N] - 1
    BY <2>1 DEF Made
  <2>6. CASE at[N] >= 2
    BY <2>1, <2>4, <2>5, <2>6
  <2>7. CASE N = 1
    <3>1. Second => snWrEn
      BY DEF Second
    <3>2. snWrEn => Len(Line) > 0
      BY DEF Line, FifoTypes, SnoopTypes
    <3> QED
      BY <2>1, <2>4, <2>5, <2>7, <3>1, <3>2
  <2> QED
    BY <2>2, <2>6, <2>7
<1>5. CASE Resting(at)
  <2>1. expect' # <<>> => b[1] >= 1
    BY <1>2, <1>5 DEF Resting, Follows
  <2> QED
    BY <1>5, <2>1 DEF Reader, Resting, xtVars, NoStart
<1>6. CASE Header(at)
    BY <1>2, <1>4, <1>6 DEF Reader, Header, xtVars
<1>7. CASE Body(at)
    BY <1>2, <1>3, <1>7 DEF Reader, Body, xtVars
<1>8. CASE Trailer(at)
    BY <1>2, <1>8 DEF Reader, Trailer, Both, NoStart, xtVars
<1> QED
    BY <1>5, <1>6, <1>7, <1>8 DEF Reader

\* The reader between two TLPs: it passes over the entries that start none,
\* and stops with the first one of the next TLP.
LEMMA FindStart ==
    ASSUME FifoTypes, SnoopTypes, FtFindStart, FifoRead,
           snWrEn' = snWrEn, snDin' = snDin, NoStart,
           NEW tlps \in Seq(NetTlps), NEW at, Placed(Line, tlps, at),
           tlps # <<>> => at[1] >= 1
    PROVE  \E b :
             /\ Placed(Line', tlps, b)
             /\ Len(Line') - b[Len(tlps)] = Len(Line) - at[Len(tlps)]
             /\ \/ /\ fifoState' = "IDLE" /\ NoStart'
                   /\ tlps # <<>> => b[1] >= 1
                \/ /\ fifoState' = "WAIT" /\ ~rdEn' /\ tlps # <<>>
                   /\ b[1] = 0 /\ dout2' = EntryOf(tlps[1], 1)
<1> DEFINE N == Len(tlps)
<1>1. N \in Nat /\ at \in [0..N -> Int] /\ (tlps # <<>> => 1 \in 1..N)
    BY DEF Placed, Apart
<1>2. fifo \in Seq(Entries) /\ Line \in Seq(Entries) /\ Len(Line) \in Nat
    BY DEF FifoTypes, SnoopTypes, Line
<1>3. CASE rdEn /\ fifo # <<>>
  <2> DEFINE b == [i \in 0..N |-> at[i] - 1]
  <2>1. /\ fifo' = Tail(fifo) /\ lastRead' = Head(fifo)
        /\ Dout = Head(fifo) /\ dout2' = Head(fifo)
    BY <1>3 DEF FifoRead, Empty, Dout, FtFindStart
  <2>2. /\ Line # <<>> /\ Len(Line) > 0 /\ Line[1] = Head(fifo)
        /\ Line' = Tail(Line)
    <3>1. CASE ~snWrEn
      BY <1>2, <1>3, <2>1, <3>1 DEF Line
    <3>2. CASE snWrEn
      <4>1. Line = Append(fifo, snDin) /\ Line' = Append(Tail(fifo), snDin)
        BY <2>1, <3>2 DEF Line
      <4>2. Append(Tail(fifo), snDin) = Tail(Append(fifo, snDin))
        BY <1>2, <1>3 DEF SnoopTypes
      <4>3. /\ Len(Line) > 0 /\ Line # <<>> /\ Line[1] = Head(fifo)
        BY <1>2, <1>3, <4>1 DEF SnoopTypes
      <4> QED
        BY <4>1, <4>2, <4>3
    <3> QED
      BY <3>1, <3>2
  <2>3. Placed(Line', tlps, b)
    BY <1>2, <2>2, PlacedRead
  <2>4. \A i \in 0..N : b[i] = at[i] - 1 /\ at[i] \in Int
    BY <1>1
  <2>5. Len(Line') - b[N] = Len(Line) - at[N]
    <3>1. Len(Line') = Len(Line) - 1
      BY <1>2, <2>2
    <3>2. b[N] = at[N] - 1 /\ at[N] \in Int
      BY <1>1, <2>4
    <3> HIDE DEF b, N
    <3> QED
      BY <1>2, <3>1, <3>2
  <2>6. tlps # <<>> => b[1] = at[1] - 1 /\ at[1] \in Int
    BY <1>1, <2>4
  <2> HIDE DEF b
  <2>7. CASE ~Head(fifo).last
    <3>1. PICK i \in 1..N : at[i] = 1
      <4>1. 1 \in 1..Len(Line) /\ ~Line[1].last
        BY <1>2, <2>2, <2>7
      <4> QED
        BY <4>1 DEF Placed, Others
    <3>2. tlps # <<>> /\ i \in 0..N /\ 1 \in 0..N
      BY <1>1, <3>1
    <3>3. i = 1
      <4>1. 1 < i => at[1] + 2 <= at[i]
        <5>1. \A j, k \in 0..N : j < k => at[j] + 2 <= at[k]
          BY DEF Placed, Apart
        <5> QED
          BY <3>2, <5>1
      <4> QED
        BY <1>1, <2>6, <3>1, <3>2, <4>1
    <3>4. Head(fifo) = EntryOf(tlps[1], 1)
      <4>1. at[1] \in 1..Len(Line) /\ 1 \in 1..N
        BY <1>1, <1>2, <2>2, <3>1, <3>2, <3>3
      <4>2. Line[at[1]] = EntryOf(tlps[1], 1)
        BY <4>1 DEF Placed, Holds
      <4> QED
        BY <2>2, <3>1, <3>3, <4>2
    <3>5. fifoState' = "WAIT" /\ ~rdEn'
      <4>1. Head(fifo).start
        BY <3>4 DEF EntryOf
      <4> QED
        BY <1>3, <2>1, <2>7, <4>1 DEF FtFindStart
    <3>6. b[1] = 0
      BY <2>6, <3>1, <3>2, <3>3
    <3> QED
      BY <2>1, <2>3, <2>5, <3>2, <3>4, <3>5, <3>6
  <2>8. CASE Head(fifo).last
    <3>1. fifoState' = "IDLE"
      BY <2>1, <2>8 DEF FtFindStart
    <3>2. NoStart'
      BY <2>1, <2>8 DEF NoStart
    <3>3. tlps # <<>> => b[1] >= 1
      <4> SUFFICES ASSUME tlps # <<>> PROVE at[1] # 1
        BY <2>6
      <4>1. ~EntryOf(tlps[1], 1).last
        <5>1. EntryOf(tlps[1], 1).last = (1 = 2)
          BY DEF EntryOf
        <5>2. 1 # 2
          OBVIOUS
        <5> QED
          BY <5>1, <5>2, Zenon
      <4>2. 1 \in 1..Len(Line) /\ 1 \in 1..N
        BY <1>1, <1>2, <2>2
      <4>3. at[1] = 1 => Line[1] = EntryOf(tlps[1], 1)
        BY <4>2 DEF Placed, Holds
      <4> QED
        BY <2>2, <2>8, <4>1, <4>3
    <3> QED
      BY <2>3, <2>5, <3>1, <3>2, <3>3
  <2> QED
    BY <2>7, <2>8
<1>4. CASE ~(rdEn /\ fifo # <<>>)
  <2>1. fifo' = fifo /\ lastRead' = lastRead /\ Line' = Line
    BY <1>4 DEF FifoRead, Empty, fifoVars, Line
  <2>2. fifoState' = "IDLE"
    BY <1>4 DEF FtFindStart, Dout, Empty, NoStart
  <2>3. NoStart'
    BY <2>1 DEF NoStart
  <2> QED
    BY <2>1, <2>2, <2>3
<1> QED
    BY <1>3, <1>4

\* An edge of xgmii_clk changes nothing on the bus.
LEMMA SameBus ==
    ASSUME UNCHANGED clkVars
    PROVE  /\ Phase' <=> Phase
           /\ First' <=> First
           /\ Second' <=> Second
           /\ Again' <=> Again
           /\ Third' <=> Third
           /\ OnBus' <=> OnBus
           /\ rxBus' = rxBus /\ snWrEn' = snWrEn /\ snDin' = snDin
<1>1. /\ UNCHANGED hostVars /\ UNCHANGED rxEngineVars /\ UNCHANGED snoopVars
    BY DEF clkVars
<1>2. /\ rxTvalid' = rxTvalid /\ rxBus' = rxBus /\ inPacket' = inPacket
      /\ rxState' = rxState /\ rxTready' = rxTready /\ tlpType' = tlpType
      /\ snState' = snState /\ snType' = snType /\ snDin' = snDin
      /\ snWrEn' = snWrEn
    BY <1>1 DEF hostVars, rxEngineVars, snoopVars
<1>3. ForNetwork(rxBus.tlp)' <=> ForNetwork(rxBus.tlp)
    BY <1>2 DEF ForNetwork
<1>4. OnBus' <=> OnBus
    BY <1>2, <1>3 DEF OnBus
<1> QED
    BY <1>2, <1>3, <1>4 DEF Phase, Fresh, First, Second, Again, Third, Passing

\* The snooper, when the reader took an entry or none.
LEMMA WriterReads ==
    ASSUME UNCHANGED clkVars, expect' = expect, NEW at, Writer(at), NEW b,
           Len(Line') - b[Len(expect)] = Len(Line) - at[Len(expect)]
    PROVE  Writer(b)'
<1>1. Made(b)' = Made(at)
    BY DEF Made
<1> QED
    BY <1>1, SameBus DEF Writer

\* The snooper, when a frame has been sent as well.
LEMMA WriterSent ==
    ASSUME UNCHANGED clkVars, QueueTypes, expect # <<>>,
           expect' = Tail(expect), NEW at \in [0..Len(expect) -> Int],
           at[1] = -1, Len(Line) \in Nat, Writer(at), NEW b,
           Len(Line') - b[Len(expect')] = Len(Line) - at[Len(expect)]
    PROVE  Writer(b)'
<1> DEFINE N == Len(expect)
<1>1. Made(b)' = Made(at)
    BY DEF Made
<1>2. /\ N \in Nat \ {0} /\ Len(expect') = N - 1
      /\ N # 1 => expect' # <<>> /\ expect'[N - 1] = expect[N]
  <2>1. /\ expect' \in Seq(NetTlps) /\ Len(expect') = N - 1
        /\ N \in Nat \ {0}
        /\ \A k \in 1..(N - 1) : expect'[k] = expect[k + 1]
    BY Tailed DEF QueueTypes
  <2>2. N # 1 => N - 1 \in 1..(N - 1) /\ (N - 1) + 1 = N /\ N - 1 # 0
    <3> HIDE DEF N
    <3> QED
      BY <2>1
  <2>3. Len(<<>>) = 0
    OBVIOUS
  <2> QED
    BY <2>1, <2>2, <2>3
<1>3. First \/ Second => N # 1
  <2>1. First \/ Second => Made(at) \in {0, 1}
    BY DEF Writer
  <2> SUFFICES ASSUME N = 1, First \/ Second PROVE FALSE
    OBVIOUS
  <2>2. Made(at) = Len(Line) - (0 - 1) + 1
    BY DEF Made
  <2> QED
    BY <2>1, <2>2
<1> QED
    BY <1>1, <1>2, <1>3, SameBus DEF Writer

\* The host sends nothing but the TLPs of its load.
LEMMA QueueInvariant ==
    ASSUME TwoBeats(Loads)
    PROVE  Spec => []QueueTypes
<1>1. Init => QueueTypes
  <2> SUFFICES ASSUME Init PROVE QueueTypes
    OBVIOUS
  <2>1. NoTlp \in Tlps
    BY DEF NoTlp, Tlps, TlpTypes, Bars, ForNetwork
  <2>2. rxBus.tlp = NoTlp /\ load \in DOMAIN Loads
    BY DEF Init, HostInit, EmptyBus
  <2>3. ~Bubbles
    BY <2>2 DEF TwoBeats, Bubbles
  <2>4. expect \in Seq(NetTlps)
    BY DEF Init
  <2> QED
    BY <2>1, <2>2, <2>3, <2>4 DEF QueueTypes
<1>2. Types /\ QueueTypes /\ [Next]_vars => QueueTypes'
  <2> SUFFICES ASSUME Types, QueueTypes, [Next]_vars PROVE QueueTypes'
    OBVIOUS
  <2>1. CASE ClkEdge
    <3>1. HostClk(rxTready) /\ Queued
      BY <2>1 DEF ClkEdge, Queued
    <3>2. load' = load
      BY <3>1 DEF HostClk, HostIdle, HostSend, HostHold, HostAdvance,
                  HostResume, hostVars
    <3>3. rxBus'.tlp \in Tlps
      <4>1. CASE HostIdle
        BY <4>1 DEF HostIdle, EmptyBus, NoTlp, Tlps, TlpTypes, Bars,
                    ForNetwork
      <4>2. CASE HostSend
        <5>1. PICK t \in HostTlps :
                rxBus' = [tlp |-> Numbered(t, hostId), n |-> 1]
          BY <4>2 DEF HostSend
        <5>2. load \in DOMAIN Loads /\ hostId \in Nat
          BY DEF Types, HostTypes
        <5>3. t \in [type : TlpTypes, dw : 0..1023, bar : Bars,
                     look : TlpTypes]
          BY <5>2, HostTlpsAssumption DEF HostTlps
        <5>4. /\ t.bar = "BAR2" => t.type = "WR32" /\ t.dw = 1
              /\ t.type = "CPL" => t.dw \in {0, 1}
              /\ ~ForNetwork(t) => t.look # "CPL"
          BY <5>2 DEF TwoBeats, HostTlps
        <5> DEFINE u == Numbered(t, hostId)
        <5>5. /\ u.type = t.type /\ u.dw = t.dw /\ u.bar = t.bar
              /\ u.look = t.look /\ u.id = hostId
              /\ u = [type |-> t.type, dw |-> t.dw, bar |-> t.bar,
                      look |-> t.look, id |-> hostId]
          BY DEF Numbered
        <5>6. u \in [type : TlpTypes, dw : 0..1023, bar : Bars,
                     look : TlpTypes, id : Nat]
          BY <5>2, <5>3, <5>5
        <5>7. ForNetwork(u) <=> ForNetwork(t)
          BY <5>5 DEF ForNetwork
        <5>8. u \in Tlps
          BY <5>4, <5>5, <5>6, <5>7 DEF Tlps
        <5> QED
          BY <5>1, <5>8
      <4>3. CASE HostHold(rxTready)
        BY <4>3 DEF HostHold, hostVars, QueueTypes
      <4>4. CASE HostAdvance(rxTready)
        <5>1. rxBus' = [rxBus EXCEPT !.n = @ + 1]
          BY <4>4 DEF HostAdvance
        <5>2. rxBus'.tlp = rxBus.tlp
          BY <5>1 DEF Types, HostTypes
        <5> QED
          BY <5>2 DEF QueueTypes
      <4>5. CASE HostResume
        BY <4>5 DEF HostResume, QueueTypes
      <4> QED
        BY <3>1, <4>1, <4>2, <4>3, <4>4, <4>5 DEF HostClk
    <3>4. expect' \in Seq(NetTlps)
      <4>1. CASE Starts /\ ForNetwork(rxBus'.tlp)
        <5>1. rxBus'.tlp \in NetTlps
          BY <3>3, <4>1 DEF NetTlps
        <5> QED
          BY <3>1, <4>1, <5>1, Appended DEF Queued, QueueTypes
      <4>2. CASE ~(Starts /\ ForNetwork(rxBus'.tlp))
        BY <3>1, <4>2 DEF Queued, QueueTypes
      <4> QED
        BY <4>1, <4>2
    <3> QED
      BY <3>2, <3>3, <3>4 DEF QueueTypes, Bubbles
  <2>2. CASE XgmiiEdge
    <3>1. rxBus' = rxBus /\ load' = load
      BY <2>2 DEF XgmiiEdge, clkVars, hostVars
    <3>2. expect' = expect \/ (expect # <<>> /\ expect' = Tail(expect))
      BY <2>2 DEF XgmiiEdge, WireTake
    <3>3. expect' \in Seq(NetTlps)
      BY <3>2, Tailed DEF QueueTypes
    <3> QED
      BY <3>1, <3>3 DEF QueueTypes, Bubbles
  <2>3. CASE UNCHANGED vars
    BY <2>3 DEF vars, clkVars, hostVars, netVars, QueueTypes, Bubbles
  <2> QED
    BY <2>1, <2>2, <2>3 DEF Next
<1> QED
    BY <1>1, <1>2, TypesInvariant, PTL DEF Spec

\* The places after an edge of xgmii_clk.
XgmiiPlaces == \E b : Placed(Line', expect', b) /\ Writer(b)' /\ Reader(b)'

\* What holds at an edge of xgmii_clk.
Edge(at) ==
    /\ Types /\ GapInv /\ QueueTypes /\ XgmiiEdge
    /\ lag \in 0..12 /\ Placed(Line, expect, at) /\ Writer(at)

\* An edge at which nothing is read from the FIFO, and no frame is over.
LEMMA NothingRead ==
    ASSUME NEW at, Edge(at), frame = <<>>, ~rdEn, Reader(at)'
    PROVE  XgmiiPlaces
<1>1. expect' = expect /\ fifo' = fifo /\ lastRead' = lastRead
    BY DEF Edge, XgmiiEdge, WireTake, XgmiiTxWord, FifoRead, fifoVars
<1>2. UNCHANGED clkVars /\ snWrEn' = snWrEn /\ snDin' = snDin
    BY DEF Edge, XgmiiEdge, clkVars, snoopVars
<1>3. Line' = Line
    BY <1>1, <1>2 DEF Line
<1>4. Placed(Line', expect', at)
    BY <1>1, <1>3 DEF Edge
<1>5. Writer(at)'
    BY <1>1, <1>2, <1>3, WriterReads DEF Edge
<1> QED
    BY <1>4, <1>5 DEF XgmiiPlaces

\* The reader between two TLPs.
LEMMA RestingStep ==
    ASSUME NEW at, Edge(at), Resting(at)
    PROVE  XgmiiPlaces
<1>1. /\ fifoState = "IDLE" /\ txState2 = "IDLE" /\ txCount = 0
      /\ frame = <<>> /\ NoStart /\ (expect # <<>> => at[1] >= 1)
    BY DEF Resting
<1>2. /\ FtFindStart /\ XtIdle /\ FifoRead /\ WireTake /\ UNCHANGED clkVars
      /\ lag >= 8 /\ lag' = lag - 8
    BY <1>1 DEF Edge, XgmiiEdge, XgmiiTxWord, FtWaitHeader, FtFollow,
                XtHeader, XtData, XtGap
<1>3. FifoTypes /\ SnoopTypes /\ expect \in Seq(NetTlps)
    BY DEF Edge, Types, QueueTypes
<1>4. snWrEn' = snWrEn /\ snDin' = snDin
    BY <1>2 DEF clkVars, snoopVars
<1>5. PICK b :
        /\ Placed(Line', expect, b)
        /\ Len(Line') - b[Len(expect)] = Len(Line) - at[Len(expect)]
        /\ \/ /\ fifoState' = "IDLE" /\ NoStart'
              /\ expect # <<>> => b[1] >= 1
           \/ /\ fifoState' = "WAIT" /\ ~rdEn' /\ expect # <<>>
              /\ b[1] = 0 /\ dout2' = EntryOf(expect[1], 1)
    BY <1>1, <1>2, <1>3, <1>4, FindStart DEF Edge
<1>6. /\ txState2' = "IDLE" /\ txCount' = 0 /\ txd' = txd /\ txd.k = "idle"
    BY <1>1, <1>2 DEF XtIdle, Edge, GapInv
<1>7. frame' = <<>> /\ expect' = expect
    BY <1>1, <1>2, <1>6 DEF WireTake
<1>8. Reader(b)'
  <2>1. CASE fifoState' = "IDLE"
    BY <1>5, <1>6, <1>7, <2>1 DEF Reader, Resting
  <2>2. CASE fifoState' = "WAIT"
    <3>1. lag' < 8
      BY <1>2 DEF Edge
    <3> QED
      BY <1>5, <1>6, <1>7, <2>2, <3>1 DEF Reader, Header
  <2> QED
    BY <1>5, <2>1, <2>2
<1>9. Writer(b)'
    BY <1>2, <1>5, <1>7, WriterReads DEF Edge
<1> QED
    BY <1>5, <1>7, <1>8, <1>9 DEF XgmiiPlaces

\* Behind the first entry of the oldest TLP, the FIFO has the second one.
LEMMA NextEntry ==
    ASSUME NEW at, Edge(at), expect # <<>>, at[1] = 0, fifo # <<>>
    PROVE  /\ Head(fifo) = EntryOf(expect[1], 2) /\ Head(fifo).last
           /\ Line # <<>> /\ Line \in Seq(Entries)
           /\ snWrEn' = snWrEn /\ snDin' = snDin
           /\ fifo' = Tail(fifo) => Line' = Tail(Line)
<1>1. fifo \in Seq(Entries) /\ snDin \in Entries /\ expect \in Seq(NetTlps)
    BY DEF Edge, Types, FifoTypes, SnoopTypes, QueueTypes
<1>2. snWrEn' = snWrEn /\ snDin' = snDin
    BY DEF Edge, XgmiiEdge, clkVars, snoopVars
<1>3. /\ Line \in Seq(Entries) /\ Line # <<>> /\ Line[1] = Head(fifo)
      /\ Len(Line) \in Nat /\ Len(Line) >= 1
  <2>1. CASE ~snWrEn
    BY <1>1, <2>1 DEF Line
  <2>2. CASE snWrEn
    BY <1>1, <2>2 DEF Line
  <2> QED
    BY <2>1, <2>2
<1>4. fifo' = Tail(fifo) => Line' = Tail(Line)
  <2> SUFFICES ASSUME fifo' = Tail(fifo) PROVE Line' = Tail(Line)
    OBVIOUS
  <2>1. CASE ~snWrEn
    BY <1>2, <2>1 DEF Line
  <2>2. CASE snWrEn
    <3>1. Line = Append(fifo, snDin) /\ Line' = Append(Tail(fifo), snDin)
      BY <1>2, <2>2 DEF Line
    <3>2. Append(Tail(fifo), snDin) = Tail(Append(fifo, snDin))
      BY <1>1
    <3> QED
      BY <3>1, <3>2
  <2> QED
    BY <2>1, <2>2
<1>5. Line[1] = EntryOf(expect[1], 2)
  <2>1. 1 \in 1..Len(expect) /\ at[1] + 1 = 1 /\ 1 \in 1..Len(Line)
    BY <1>1, <1>3
  <2>2. at[1] + 1 \in 1..Len(Line)
          => Line[at[1] + 1] = EntryOf(expect[1], 2)
    BY <2>1 DEF Edge, Placed, Holds
  <2> QED
    BY <2>1, <2>2
<1>6. EntryOf(expect[1], 2).last
    BY DEF EntryOf
<1> QED
    BY <1>2, <1>3, <1>4, <1>5, <1>6

\* The reader waits while the header goes out.
LEMMA HeaderStep ==
    ASSUME NEW at, Edge(at), Header(at)
    PROVE  XgmiiPlaces
<1>1. /\ fifoState = "WAIT" /\ ~rdEn /\ frame = <<>> /\ expect # <<>>
      /\ at[1] = 0 /\ dout2 = EntryOf(expect[1], 1)
    BY DEF Header
<1>2. /\ FtWaitHeader /\ FifoRead /\ WireTake /\ UNCHANGED clkVars
      /\ XtIdle \/ XtHeader \/ XtData \/ XtGap
      /\ lag >= 8 /\ lag' = lag - 8
    BY <1>1 DEF Edge, XgmiiEdge, XgmiiTxWord, FtFindStart, FtFollow
<1>3. /\ fifo' = fifo /\ expect' = expect
      /\ rdEn' = rdEn /\ dout2' = dout2
    BY <1>1, <1>2 DEF FifoRead, fifoVars, WireTake, FtWaitHeader
<1>4. CASE txState2 = "IDLE"
  <2>1. txCount = 0 /\ fifo # <<>>
    BY <1>2, <1>4 DEF Header, Edge
  <2>2. XtIdle /\ txd.k = "idle"
    BY <1>2, <1>4 DEF XtHeader, XtData, XtGap, Edge, GapInv
  <2>3. txState2' = "HEADER" /\ txCount' = 0 /\ txd'.k = "idle"
    BY <1>1, <2>2 DEF XtIdle
  <2>4. fifoState' = "WAIT"
    BY <1>2, <2>1 DEF FtWaitHeader, LastHeader
  <2>5. frame' = <<>>
    BY <1>2, <2>3 DEF WireTake
  <2>6. Header(at)'
    BY <1>1, <1>3, <2>1, <2>3, <2>4, <2>5 DEF Header
  <2> QED
    BY <1>1, <2>6, NothingRead DEF Reader
<1>5. CASE txState2 = "HEADER"
  <2>1. fifo # <<>> /\ (txCount > 0 => sending = <<>>)
    BY <1>5 DEF Header
  <2>2. txCount \in 0..6
    BY <1>5 DEF Edge, GapInv, LastHeader
  <2>3. XtHeader
    BY <1>2, <1>5 DEF XtIdle, XtData, XtGap
  <2>4. /\ txCount' = txCount + 1
        /\ txd'.k = IF txCount = 0 THEN "start" ELSE "hdr"
        /\ txState2' = IF txCount = 6 THEN "DATA" ELSE "HEADER"
        /\ fifoState' = IF txCount = 6 THEN "DATA" ELSE "WAIT"
    BY <1>2, <2>3 DEF XtHeader, TxWord, LastHeader, FtWaitHeader
  <2>5. sending' = <<>>
    <3>1. CASE txCount = 0
      <4>1. txd'.k = "start"
        BY <2>4, <3>1
      <4> QED
        BY <1>2, <4>1 DEF WireTake
    <3>2. CASE txCount > 0
      <4>1. txd'.k = "hdr"
        BY <2>4, <3>2
      <4> QED
        BY <1>2, <2>1, <3>2, <4>1 DEF WireTake
    <3> QED
      BY <2>2, <3>1, <3>2
  <2>6. frame' = <<>>
    BY <1>2, <2>4 DEF WireTake
  <2>7. CASE txCount = 6
    <3>1. Body(at)'
      BY <1>1, <1>3, <2>1, <2>4, <2>5, <2>6, <2>7 DEF Body
    <3> QED
      BY <1>1, <3>1, NothingRead DEF Reader
  <2>8. CASE txCount # 6
    <3>1. Header(at)'
      BY <1>1, <1>3, <2>1, <2>4, <2>5, <2>6, <2>8 DEF Header
    <3> QED
      BY <1>1, <3>1, NothingRead DEF Reader
  <2> QED
    BY <2>7, <2>8
<1> QED
    BY <1>4, <1>5 DEF Header

\* The two words of the TLP go out.
LEMMA BodyStep ==
    ASSUME NEW at, Edge(at), Body(at)
    PROVE  XgmiiPlaces
<1>1. /\ fifoState = "DATA" /\ txState2 = "DATA" /\ frame = <<>>
      /\ expect # <<>> /\ at[1] = 0 /\ fifo # <<>>
    BY DEF Body
<1>2. /\ FtFollow /\ XtData /\ FifoRead /\ WireTake /\ UNCHANGED clkVars
    BY <1>1 DEF Edge, XgmiiEdge, XgmiiTxWord, FtFindStart, FtWaitHeader,
                XtIdle, XtHeader, XtGap
<1>3. /\ Head(fifo) = EntryOf(expect[1], 2) /\ Head(fifo).last
      /\ Line # <<>> /\ Line \in Seq(Entries)
      /\ fifo' = Tail(fifo) => Line' = Tail(Line)
    BY <1>1, NextEntry
<1>4. /\ Dout = EntryOf(expect[1], 2) /\ Dout.last /\ ~Empty
      /\ dout2' = EntryOf(expect[1], 2)
    BY <1>1, <1>2, <1>3 DEF Dout, Empty, FtFollow
<1>5. txd'.k = "tlp" /\ txd'.e = dout2 /\ txState2' = "DATA"
    BY <1>1, <1>2 DEF XtData, TlpTxWord
<1>6. /\ sending' = Append(sending, dout2) /\ frame' = <<>>
      /\ expect' = expect
    BY <1>1, <1>2, <1>5 DEF WireTake
<1>7. CASE ~rdEn
  <2>1. dout2 = EntryOf(expect[1], 1) /\ sending = <<>>
    BY <1>7 DEF Body
  <2>2. fifoState' = "DATA" /\ rdEn' /\ fifo' = fifo
    BY <1>2, <1>4, <1>7 DEF FtFollow, FifoRead, fifoVars
  <2>3. sending' = <<EntryOf(expect[1], 1)>>
    BY <1>6, <2>1
  <2>4. Body(at)'
    BY <1>1, <1>4, <1>5, <1>6, <2>2, <2>3 DEF Body
  <2> QED
    BY <1>1, <1>7, <2>4, NothingRead DEF Reader
<1>8. CASE rdEn
  <2> DEFINE N == Len(expect)
  <2>1. dout2 = EntryOf(expect[1], 2) /\ sending = <<EntryOf(expect[1], 1)>>
    BY <1>8 DEF Body
  <2>2. fifoState' = "IDLE" /\ ~rdEn'
    BY <1>2, <1>4, <1>8 DEF FtFollow
  <2>3. fifo' = Tail(fifo) /\ lastRead' = Head(fifo)
    BY <1>2, <1>4, <1>8 DEF FifoRead
  <2>4. NoStart'
    BY <1>3, <2>3 DEF NoStart
  <2>5. sending' = Both
    <3>1. \A x, y : Append(<<x>>, y) = <<x, y>>
      BY Paired
    <3>2. sending' = Append(<<EntryOf(expect[1], 1)>>, EntryOf(expect[1], 2))
      BY <1>6, <2>1
    <3> QED
      BY <3>1, <3>2 DEF Both
  <2>6. sending' = Both'
    BY <1>6, <2>5 DEF Both
  <2>7. N \in Nat \ {0} /\ at \in [0..N -> Int]
    BY <1>1 DEF Edge, QueueTypes, Placed, Apart
  <2>8. PICK b : /\ Placed(Line', expect', b) /\ b[1] = -1
                 /\ Len(Line') - b[N] = Len(Line) - at[N]
    <3> DEFINE c == [i \in 0..N |-> at[i] - 1]
    <3>1. c[1] = -1 /\ c[N] = at[N] - 1 /\ at[N] \in Int
      BY <1>1, <2>7
    <3>2. Placed(Line', expect', c)
      BY <1>3, <1>6, <2>3, PlacedRead DEF Edge, QueueTypes
    <3>3. Len(Line') = Len(Line) - 1 /\ Len(Line) \in Nat
      BY <1>3, <2>3
    <3> HIDE DEF c, N
    <3>4. Len(Line') - c[N] = Len(Line) - at[N]
      BY <3>1, <3>3
    <3> QED
      BY <3>1, <3>2, <3>4
  <2>9. Writer(b)'
    BY <1>2, <1>6, <2>8, WriterReads DEF Edge
  <2>10. Trailer(b)'
    BY <1>1, <1>5, <1>6, <2>2, <2>4, <2>6, <2>8 DEF Trailer
  <2> QED
    BY <2>8, <2>9, <2>10 DEF XgmiiPlaces, Reader
<1> QED
    BY <1>7, <1>8

\* The frame ends, and the reader looks for the next TLP.
LEMMA TrailerStep ==
    ASSUME NEW at, Edge(at), Trailer(at)
    PROVE  XgmiiPlaces
<1> DEFINE N == Len(expect)
<1>1. /\ fifoState = "IDLE" /\ NoStart /\ expect # <<>> /\ at[1] = -1
    BY DEF Trailer
<1>2. /\ FtFindStart /\ FifoRead /\ WireTake /\ UNCHANGED clkVars
      /\ XtIdle \/ XtHeader \/ XtData \/ XtGap
      /\ lag >= 8 /\ lag' = lag - 8 /\ lag' < 8
    BY <1>1 DEF Edge, XgmiiEdge, XgmiiTxWord, FtWaitHeader, FtFollow
<1>3. FifoTypes /\ SnoopTypes /\ expect \in Seq(NetTlps)
    BY DEF Edge, Types, QueueTypes
<1>4. snWrEn' = snWrEn /\ snDin' = snDin
    BY <1>2 DEF clkVars, snoopVars
<1>5. N \in Nat \ {0} /\ at \in [0..N -> Int]
    BY <1>1, <1>3 DEF Edge, Placed, Apart
<1>6. Line \in Seq(Entries) /\ Len(Line) \in Nat
    BY <1>3 DEF Line, FifoTypes, SnoopTypes
<1>7. CASE txState2 = "DATA"
  <2>1. ~rdEn /\ sending = Both /\ frame = <<>>
    BY <1>7 DEF Trailer
  <2>2. XtData
    BY <1>2, <1>7 DEF XtIdle, XtHeader, XtGap
  <2>3. txd'.k = "term" /\ txState2' = "GAP" /\ txCount' = 0
    BY <1>1, <2>2 DEF XtData, TxWord
  <2>4. frame' = Both /\ expect' = expect
    BY <1>2, <2>1, <2>3 DEF WireTake
  <2>5. fifoState' = "IDLE" /\ lastRead' = lastRead
    BY <1>2, <2>1 DEF FtFindStart, FifoRead, fifoVars
  <2>6. Both' = Both
    BY <2>4 DEF Both
  <2>7. Trailer(at)'
    BY <1>1, <2>3, <2>4, <2>5, <2>6 DEF Trailer, NoStart
  <2> QED
    BY <2>1, <2>7, NothingRead DEF Reader
<1>8. CASE txState2 = "GAP"
  <2> DEFINE c == [i \in 0..(N - 1) |-> at[i + 1]]
             rest == Tail(expect)
  <2>1. txCount = 0 /\ frame = Both
    BY <1>8 DEF Trailer
  <2>2. XtGap
    BY <1>2, <1>8 DEF XtIdle, XtHeader, XtData
  <2>3. txd'.k = "idle" /\ txState2' = "IDLE" /\ txCount' = 0
    BY <2>1, <2>2 DEF XtGap, TxWord
  <2>4. frame # <<>>
    BY <2>1 DEF Both
  <2>5. frame' = <<>> /\ expect' = rest
    BY <1>1, <1>2, <2>3, <2>4 DEF WireTake
  <2>6. rest \in Seq(NetTlps) /\ Len(rest) = N - 1
    BY <1>1, <1>3, Tailed
  <2>7. Placed(Line, rest, c)
    BY <1>1, <1>3, <1>6, PlacedDone DEF Edge
  <2>8. c[N - 1] = at[N]
    BY <1>5
  <2>9. rest # <<>> => c[1] >= 1
    <3> SUFFICES ASSUME rest # <<>> PROVE c[1] >= 1
      OBVIOUS
    <3>1. N - 1 # 0
      BY <2>6
    <3>2. /\ 1 \in 0..N /\ 2 \in 0..N /\ 1 < 2 /\ 1 \in 0..(N - 1)
          /\ at[2] \in Int
      <4>1. N \in Nat /\ N >= 2
        <5> HIDE DEF N
        <5> QED
          BY <1>5, <3>1
      <4> HIDE DEF N
      <4> QED
        BY <1>5, <4>1
    <3>3. at[1] + 2 <= at[2]
      <4>1. \A i, j \in 0..N : i < j => at[i] + 2 <= at[j]
        BY DEF Edge, Placed, Apart
      <4> QED
        BY <3>2, <4>1
    <3>4. c[1] = at[2]
      BY <3>2
    <3> QED
      BY <1>1, <3>2, <3>3, <3>4
  <2> HIDE DEF c
  <2>10. PICK b :
          /\ Placed(Line', rest, b)
          /\ Len(Line') - b[Len(rest)] = Len(Line) - c[Len(rest)]
          /\ \/ /\ fifoState' = "IDLE" /\ NoStart'
                /\ rest # <<>> => b[1] >= 1
             \/ /\ fifoState' = "WAIT" /\ ~rdEn' /\ rest # <<>>
                /\ b[1] = 0 /\ dout2' = EntryOf(rest[1], 1)
    BY <1>1, <1>2, <1>3, <1>4, <2>6, <2>7, <2>9, FindStart
  <2>11. Reader(b)'
    <3>1. CASE fifoState' = "IDLE"
      BY <2>3, <2>5, <2>10, <3>1 DEF Reader, Resting
    <3>2. CASE fifoState' = "WAIT"
      BY <1>2, <2>3, <2>5, <2>10, <3>2 DEF Reader, Header
    <3> QED
      BY <2>10, <3>1, <3>2
  <2>12. Len(Line') - b[Len(expect')] = Len(Line) - at[Len(expect)]
    BY <2>5, <2>6, <2>8, <2>10
  <2>13. Writer(b)'
    BY <1>1, <1>2, <1>5, <1>6, <2>5, <2>12, WriterSent DEF Edge
  <2> QED
    BY <2>5, <2>10, <2>11, <2>13 DEF XgmiiPlaces
<1> QED
    BY <1>7, <1>8 DEF Trailer

\* The places fit the TLPs that wait.
LEMMA PlacesInv ==
    ASSUME lag \in 0..12, Len(expect) <= Backlog,
           NEW at, Placed(Line, expect, at), Writer(at), Reader(at)
    PROVE  FrameInv
    BY DEF FrameInv, Placed, Apart

\* At the start nothing is written, and the TLP before is long gone.
LEMMA FrameInit ==
    ASSUME Init
    PROVE  FrameInv
<1> DEFINE at == [i \in 0..0 |-> -1]
<1>1. /\ expect = <<>> /\ frame = <<>> /\ fifo = <<>> /\ snWrEn = FALSE
      /\ lastRead = NoEntry /\ fifoState = "IDLE" /\ txState2 = "IDLE"
      /\ txCount = 0 /\ rxTvalid = FALSE /\ rxBus = EmptyBus
      /\ snState = "IDLE" /\ lag \in 0..12
    BY DEF Init, XgmiiTxInit, SnoopInit, HostInit
<1>2. rxState = "RST" /\ rxTready /\ ~inPacket
    BY DEF Init, RxEngineInit
<1>3. Line = <<>> /\ Len(Line) = 0 /\ Len(expect) = 0
    BY <1>1 DEF Line
<1>4. at \in [0..Len(expect) -> Int] /\ at[0] = -1
    BY <1>3
<1>5. Placed(Line, expect, at)
  <2>1. Apart(Len(expect), at)
    BY <1>3, <1>4 DEF Apart
  <2>2. Holds(Line, expect, at) /\ Others(Line, Len(expect), at)
    BY <1>3 DEF Holds, Others
  <2> QED
    BY <2>1, <2>2 DEF Placed
<1>6. Made(at) = 2
    BY <1>3, <1>4 DEF Made
<1>7. Fresh
    BY <1>1, <1>2 DEF Fresh, EmptyBus
<1>8. ~OnBus /\ ~First /\ ~Second /\ ~Again /\ ~Third
    BY <1>1 DEF OnBus, First, Second, Again, Third
<1>9. Writer(at)
    BY <1>6, <1>7, <1>8 DEF Writer, Phase
<1>10. Reader(at)
  <2>1. NoStart
    BY <1>1 DEF NoStart, NoEntry
  <2> QED
    BY <1>1, <2>1 DEF Reader, Resting
<1>11. Len(expect) <= Backlog
    BY <1>3, BacklogAssumption
<1> QED
    BY <1>1, <1>5, <1>9, <1>10, <1>11, PlacesInv

\* Both clocks keep the places.
LEMMA FrameStep ==
    ASSUME HostIds >= 2, RoomForBacklog, Types, Types', QueueTypes,
           QueueTypes', GapInv, FrameInv, [Next]_vars
    PROVE  FrameInv'
<1>1. PICK at \in [0..Len(expect) -> Int] :
        Placed(Line, expect, at) /\ Writer(at) /\ Reader(at)
    BY DEF FrameInv
<1>2. lag \in 0..12 /\ Len(expect) <= Backlog /\ Len(expect) \in Nat
    BY DEF FrameInv, QueueTypes
<1>3. CASE ClkEdge
  <2>1. /\ BusClk /\ Queued /\ FifoWrite(snWrEn, snDin)
        /\ UNCHANGED <<xtVars, sending, frame>>
        /\ Starts => Len(expect) < Backlog
        /\ lag \in 0..7 /\ lag' = lag + 5
    BY <1>2, <1>3 DEF ClkEdge, BusClk, Queued
  <2>2. /\ fifo' = Line
        /\ \E b : Placed(Line', expect', b) /\ Writer(b)' /\ Follows(b, at)
    BY <1>1, <1>2, <2>1, ClkWriter
  <2>3. PICK b : Placed(Line', expect', b) /\ Writer(b)' /\ Follows(b, at)
    BY <2>2
  <2>4. Reader(b)'
    <3>1. UNCHANGED <<xtVars, lastRead, sending, frame>>
      BY <2>1 DEF FifoWrite
    <3>2. FifoTypes /\ SnoopTypes
      BY DEF Types
    <3> QED
      BY <1>1, <2>1, <2>2, <2>3, <3>1, <3>2, ClkReader
  <2>5. Len(expect') <= Backlog
    <3>1. CASE Starts /\ ForNetwork(rxBus'.tlp)
      <4>1. Len(expect') = Len(expect) + 1
        BY <2>1, <3>1 DEF Queued, QueueTypes
      <4> QED
        BY <1>2, <2>1, <3>1, <4>1, BacklogAssumption
    <3>2. CASE ~(Starts /\ ForNetwork(rxBus'.tlp))
      BY <1>2, <2>1, <3>2 DEF Queued
    <3> QED
      BY <3>1, <3>2
  <2>6. lag' \in 0..12
    BY <2>1
  <2> QED
    BY <2>3, <2>4, <2>5, <2>6 DEF FrameInv, Placed, Apart
<1>4. CASE XgmiiEdge
  <2>1. Edge(at)
    BY <1>1, <1>2, <1>4 DEF Edge
  <2>2. XgmiiPlaces
    BY <1>1, <2>1, RestingStep, HeaderStep, BodyStep, TrailerStep DEF Reader
  <2>3. PICK b : Placed(Line', expect', b) /\ Writer(b)' /\ Reader(b)'
    BY <2>2 DEF XgmiiPlaces
  <2>4. lag' \in 0..12
    BY <1>2, <1>4 DEF XgmiiEdge
  <2>5. Len(expect') <= Backlog
    <3>1. expect' = expect \/ (expect # <<>> /\ expect' = Tail(expect))
      BY <1>4 DEF XgmiiEdge, WireTake
    <3>2. Len(expect') <= Len(expect) /\ Len(expect') \in Nat
      BY <3>1 DEF QueueTypes
    <3> QED
      BY <1>2, <3>2, BacklogAssumption
  <2> QED
    BY <2>3, <2>4, <2>5 DEF FrameInv, Placed, Apart
<1>5. CASE UNCHANGED vars
  <2>1. /\ UNCHANGED clkVars /\ UNCHANGED fifoVars /\ UNCHANGED xtVars
        /\ UNCHANGED netVars /\ lag' = lag
    BY <1>5 DEF vars
  <2>2. expect' = expect /\ sending' = sending /\ frame' = frame
    BY <2>1 DEF netVars
  <2>3. Line' = Line
    BY <2>1 DEF Line, fifoVars, clkVars, snoopVars
  <2>4. Writer(at)'
    BY <1>1, <2>1, <2>2, <2>3, WriterReads
  <2>5. Reader(at)'
    BY <1>1, <2>1, <2>2 DEF Reader, Resting, Header, Body, Trailer, NoStart,
                            Both, xtVars, fifoVars
  <2>6. Placed(Line', expect', at)
    BY <1>1, <2>2, <2>3
  <2> QED
    BY <1>2, <2>1, <2>2, <2>4, <2>5, <2>6 DEF FrameInv, Placed, Apart
<1> QED
    BY <1>3, <1>4, <1>5 DEF Next

\* A frame that is over is the oldest TLP.
LEMMA FrameSays ==
    ASSUME QueueTypes, FrameInv
    PROVE  FrameIsTlp
<1> SUFFICES ASSUME frame # <<>>
             PROVE  expect # <<>> /\ frame = FrameOf(Head(expect))
    BY DEF FrameIsTlp
<1>1. PICK at : Reader(at)
    BY DEF FrameInv
<1>2. Trailer(at)
    BY <1>1 DEF Reader, Resting, Header, Body
<1>3. expect # <<>> /\ frame = Both
    BY <1>2 DEF Trailer
<1>4. expect[1] \in NetTlps /\ Head(expect) = expect[1]
    BY <1>3 DEF QueueTypes
<1> DEFINE t == expect[1]
<1>5. t \in Tlps /\ Beats(t) = 2
    BY <1>4, BeatsOf DEF NetTlps
<1> HIDE DEF t
<1>6. FrameOf(t) = [n \in 1..2 |-> EntryOf(t, n)]
  <2>1. FrameOf(t) = [n \in 1..2 |->
                        [id |-> t.id, n |-> n, op |-> RewriteOf(t, n),
                         start |-> TRUE, last |-> n = 2]]
    BY <1>5 DEF FrameOf
  <2> QED
    BY <2>1 DEF EntryOf
<1>7. [n \in 1..2 |-> EntryOf(t, n)] = <<EntryOf(t, 1), EntryOf(t, 2)>>
    OBVIOUS
<1>8. Head(expect) = t /\ frame = <<EntryOf(t, 1), EntryOf(t, 2)>>
    BY <1>3, <1>4 DEF Both, t
<1> QED
    BY <1>3, <1>6, <1>7, <1>8

(***************************************************************************)
(* Every frame on the wire is the oldest TLP of the host that has not been *)
(* sent, whole and rewritten as meant: for all writes of one dword through *)
(* BAR2 and completions of at most one dword, mixed in any way with other  *)
(* TLPs, when the host leaves the FIFO room for what it lets wait.         *)
(***************************************************************************)
THEOREM FramesAreTlps ==
    ASSUME TwoBeats(Loads), RoomForBacklog, HostIds >= 2
    PROVE  Spec => []FrameIsTlp
<1>1. Init => FrameInv
    BY FrameInit
<1>2. Types /\ Types' /\ QueueTypes /\ QueueTypes' /\ GapInv /\ FrameInv
        /\ [Next]_vars => FrameInv'
  <2> SUFFICES ASSUME Types, Types', QueueTypes, QueueTypes', GapInv,
                      FrameInv, [Next]_vars
               PROVE  FrameInv'
    OBVIOUS
  <2> QED
    BY FrameStep
<1>3. QueueTypes /\ FrameInv => FrameIsTlp
    BY FrameSays
<1>4. Spec => []Types /\ []QueueTypes /\ []GapInv
    BY TypesInvariant, QueueInvariant, GapInvariant
<1> QED
    BY <1>1, <1>2, <1>3, <1>4, PTL DEF Spec

=============================================================================
