------------------------- MODULE RegisterIoctlProofs -------------------------
(***************************************************************************)
(* Proofs about RegisterIoctl, for every set of processes and values, for  *)
(* the registers whose place driver and board agree on.                    *)
(***************************************************************************)
EXTENDS RegisterIoctl, SequenceTheorems, TLAPS

-----------------------------------------------------------------------------
(***************************************************************************)
(* What the theorems assume.                                               *)
(***************************************************************************)

\* The registers that the driver's offsets fit: on the KC705 the IPv4
\* addresses, on the ECP3 Versa the MAC addresses as well.
AgreedRegs(b) == IF b = "KC705" THEN {"if_v4addr", "dest_v4addr"}
                 ELSE {"if_v4addr", "if_macaddr", "dest_v4addr",
                       "dest_macaddr"}

Agreed == \A b \in Boards, p \in Procs : Owns(b, p) \subseteq AgreedRegs(b)

\* No two processes set or read the same register: there is no lock.
Apart == \A b \in Boards, p, q \in Procs :
           p # q => Owns(b, p) \intersect Owns(b, q) = {}

\* Values are as long as their registers.
Sized == \A r \in RegNames \ {"mem0_paddr"} :
           Values(r) \subseteq [1..RegLen[r] -> 0..255]

Usage == Agreed /\ Apart /\ Sized

-----------------------------------------------------------------------------
(***************************************************************************)
(* What one access does.  Part(i) is the access that carries byte i.       *)
(***************************************************************************)
Part(i) == IF i <= 4 THEN 1 ELSE 2

\* Offsets in the board's register map.
LEMMA Bases ==
    ASSUME board \in Boards
    PROVE  /\ Base("if_v4addr") = 0 /\ Base("dest_v4addr") = 16
           /\ Base("if_macaddr") = IF board = "KC705" THEN 8 ELSE 4
           /\ Base("dest_macaddr") = IF board = "KC705" THEN 24 ELSE 20
           /\ Base("mem0_paddr") = 40
    BY DEF Base, KC705Base, ECP3Base, Boards

\* The accesses of the driver, for the registers of one and of two accesses.
LEMMA DriverAccesses ==
    /\ \A r \in {"if_v4addr", "dest_v4addr"} :
         Chunks(r) = <<[at |-> IF r = "if_v4addr" THEN 0 ELSE 16,
                        from |-> 1, n |-> 4]>>
    /\ \A r \in {"if_macaddr", "dest_macaddr"} :
         LET o == IF r = "if_macaddr" THEN 4 ELSE 20 IN
         Chunks(r) = <<[at |-> o, from |-> 1, n |-> 4],
                       [at |-> o + 4, from |-> 5, n |-> 2]>>
    BY DEF Chunks

\* The registers that driver and board agree on take one access or two.
LEMMA Agreement ==
    ASSUME board \in Boards, NEW r \in AgreedRegs(board)
    PROVE  /\ r \in RegNames \ {"mem0_paddr"}
           /\ RegLen[r] \in {4, 6}
           /\ Len(Chunks(r)) = Part(RegLen[r])
           /\ Len(Chunks(r)) \in {1, 2}
           /\ board = "KC705" => r # "if_macaddr"
<1>1. CASE r \in {"if_v4addr", "dest_v4addr"}
  <2>1. RegLen[r] = 4 /\ Part(4) = 1 /\ r \in RegNames \ {"mem0_paddr"}
    BY <1>1 DEF RegLen, RegNames, Part
  <2>2. Len(Chunks(r)) = 1
    BY <1>1, DriverAccesses
  <2> QED
    BY <1>1, <2>1, <2>2
<1>2. CASE r \in {"if_macaddr", "dest_macaddr"}
  <2>1. RegLen[r] = 6 /\ Part(6) = 2 /\ r \in RegNames \ {"mem0_paddr"}
    BY <1>2 DEF RegLen, RegNames, Part
  <2>2. Len(Chunks(r)) = 2
    BY <1>2, DriverAccesses
  <2>3. board # "KC705"
    BY <1>2 DEF AgreedRegs
  <2> QED
    BY <2>1, <2>2, <2>3
<1> QED
    BY <1>1, <1>2 DEF AgreedRegs

\* Their accesses are where the board has the register.
LEMMA AgreedAccess ==
    ASSUME board \in Boards, NEW r \in AgreedRegs(board),
           NEW k \in 1..Len(Chunks(r))
    PROVE  /\ Base(r) \in {0, 4, 16, 20} /\ k \in {1, 2}
           /\ Chunks(r)[k].at = Base(r) + 4 * (k - 1)
           /\ Chunks(r)[k].from = 4 * (k - 1) + 1
           /\ Chunks(r)[k].n = IF k = 1 THEN 4 ELSE 2
<1>1. CASE r \in {"if_v4addr", "dest_v4addr"}
  <2>1. Base(r) = IF r = "if_v4addr" THEN 0 ELSE 16
    BY <1>1, Bases
  <2>2. /\ Len(Chunks(r)) = 1 /\ Chunks(r)[1].at = Base(r)
        /\ Chunks(r)[1].from = 1 /\ Chunks(r)[1].n = 4
    BY <1>1, <2>1, DriverAccesses
  <2>3. k = 1
    BY <2>2
  <2> QED
    BY <2>1, <2>2, <2>3
<1>2. CASE r \in {"if_macaddr", "dest_macaddr"}
  <2>1. Base(r) = IF r = "if_macaddr" THEN 4 ELSE 20
    <3>1. board # "KC705"
      BY <1>2 DEF AgreedRegs
    <3> QED
      BY <1>2, <3>1, Bases
  <2>2. /\ Len(Chunks(r)) = 2
        /\ Chunks(r)[1].at = Base(r) /\ Chunks(r)[2].at = Base(r) + 4
        /\ Chunks(r)[1].from = 1 /\ Chunks(r)[2].from = 5
        /\ Chunks(r)[1].n = 4 /\ Chunks(r)[2].n = 2
    <3>1. CASE r = "if_macaddr"
      BY <3>1, <2>1, DriverAccesses
    <3>2. CASE r = "dest_macaddr"
      BY <3>2, <2>1, DriverAccesses
    <3> QED
      BY <1>2, <3>1, <3>2
  <2>3. CASE k = 1
    BY <2>1, <2>2, <2>3
  <2>4. CASE k = 2
    BY <2>1, <2>2, <2>4
  <2>5. k \in {1, 2}
    BY <2>2
  <2> QED
    BY <2>3, <2>4, <2>5
<1> QED
    BY <1>1, <1>2 DEF AgreedRegs

\* No offset belongs to two registers.
LEMMA OneRegister ==
    ASSUME board \in Boards, NEW q \in RegNames, NEW r \in RegNames, q # r,
           NEW i \in 1..RegLen[q], NEW j \in 1..RegLen[r]
    PROVE  Base(q) + i - 1 # Base(r) + j - 1
    BY Bases DEF RegNames, RegLen, Boards

\* Byte i of a register is at lane Lane(i) of the register's dword Part(i).
Lane(i) == IF i <= 4 THEN i - 1 ELSE i - 5

\* Registers begin at a dword, so that byte i is where Part and Lane say.
LEMMA Lanes ==
    ASSUME board \in Boards, NEW q \in RegNames, NEW i \in 1..RegLen[q]
    PROVE  /\ (Base(q) + i - 1) \div 4 = Base(q) \div 4 + Part(i) - 1
           /\ (Base(q) + i - 1) % 4 = Lane(i)
           /\ Base(q) \div 4 \in {0, 1, 2, 4, 5, 6, 10}
           /\ Base(q) = 4 * (Base(q) \div 4)
           /\ Part(i) \in {1, 2} /\ Lane(i) \in 0..3 /\ i \in 1..6
<1>1. i \in 1..6
    BY DEF RegLen, RegNames
<1>2. \E w \in {0, 1, 2, 4, 5, 6, 10} : Base(q) = 4 * w
    BY Bases DEF RegNames
<1> QED
    BY <1>1, <1>2 DEF Part, Lane

\* Access k of a SET of register r from buffer b.
Put(r, k, b) ==
    RegWrite(Chunks(r)[k].at \div 4,
             [lane \in 0..(Chunks(r)[k].n - 1) |->
                b[Chunks(r)[k].from + lane]])

(***************************************************************************)
(* Access k of a SET puts part k of the buffer into its register and       *)
(* nothing anywhere else.                                                  *)
(***************************************************************************)
LEMMA WriteEffect ==
    ASSUME board \in Boards, NEW r \in AgreedRegs(board),
           NEW k \in 1..Len(Chunks(r)), NEW b, Put(r, k, b)
    PROVE  regs' = [q \in RegNames |-> [i \in 1..RegLen[q] |->
                      IF q = r /\ Part(i) = k THEN b[i] ELSE regs[q][i]]]
<1> DEFINE word == Chunks(r)[k].at \div 4
           data == [lane \in 0..(Chunks(r)[k].n - 1) |->
                      b[Chunks(r)[k].from + lane]]
<1>1. /\ r \in RegNames \ {"mem0_paddr"}
      /\ k \in 1..Part(RegLen[r])
      /\ Chunks(r)[k].at = Base(r) + 4 * (k - 1)
      /\ Chunks(r)[k].from = 4 * (k - 1) + 1
      /\ Chunks(r)[k].n = IF k = 1 THEN 4 ELSE 2
  <2>1. k \in 1..Part(RegLen[r])
    BY Agreement
  <2> QED
    BY <2>1, Agreement, AgreedAccess
<1>2. Base(r) \in {0, 4, 16, 20} /\ k \in {1, 2} /\ RegLen[r] \in {4, 6}
    BY Agreement, AgreedAccess
<1>3. word = Base(r) \div 4 + k - 1
    BY <1>1, <1>2
<1>4. DOMAIN data = 0..(IF k = 1 THEN 3 ELSE 1)
    BY <1>1, <1>2
<1>5. \A lane \in DOMAIN data : data[lane] = b[4 * (k - 1) + 1 + lane]
    BY <1>1
<1>6. ASSUME NEW q \in RegNames, NEW i \in 1..RegLen[q]
      PROVE  LET o == Base(q) + i - 1 IN
             (IF o \div 4 = word /\ o % 4 \in DOMAIN data
                THEN Stored(q, i, data[o % 4])
                ELSE Spilled(q, i, word, data))
             = IF q = r /\ Part(i) = k THEN b[i] ELSE regs[q][i]
  <2> DEFINE o == Base(q) + i - 1
  <2>1. /\ o \div 4 = Base(q) \div 4 + Part(i) - 1 /\ o % 4 = Lane(i)
        /\ Part(i) \in {1, 2} /\ i \in 1..6 /\ Base(q) \div 4 \in Nat
    BY Lanes
  <2> HIDE DEF o, word, data
  <2>2. CASE q = r /\ Part(i) = k
    <3>1. o \div 4 = word
      BY <1>3, <2>1, <2>2
    <3>2. o % 4 \in DOMAIN data
      <4>1. Lane(i) \in 0..(IF k = 1 THEN 3 ELSE 1)
        BY <2>1, <2>2 DEF Part, Lane
      <4> QED
        BY <1>4, <2>1, <4>1
    <3>3. data[o % 4] = b[i]
      <4>1. 4 * (k - 1) + 1 + Lane(i) = i
        BY <2>1, <2>2 DEF Part, Lane
      <4> QED
        BY <1>5, <2>1, <3>2, <4>1
    <3>4. Stored(q, i, b[i]) = b[i]
      BY <1>1, <2>2, Agreement DEF Stored
    <3> QED
      BY <2>2, <3>1, <3>2, <3>3, <3>4 DEF o
  <2>3. CASE ~(q = r /\ Part(i) = k)
    <3>1. ~(o \div 4 = word /\ o % 4 \in DOMAIN data)
      <4>1. CASE q = r
        BY <1>2, <1>3, <2>1, <2>3, <4>1
      <4>2. CASE q # r
        <5>1. Base(q) = 4 * (Base(q) \div 4)
          BY Lanes
        <5>2. Base(r) = 4 * (Base(r) \div 4) /\ Base(r) \div 4 \in Nat
          BY <1>2
        <5>3. Base(q) + 4 * (Part(i) - 1) # Base(r) + 4 * (k - 1)
          <6> DEFINE x == 4 * (Part(i) - 1) + 1
                     y == 4 * (k - 1) + 1
          <6>1. x \in 1..RegLen[q]
            BY DEF Part, RegLen, RegNames
          <6>2. y \in 1..RegLen[r]
            BY <1>1, <1>2 DEF Part
          <6>3. Base(q) + x - 1 # Base(r) + y - 1
            <7> HIDE DEF x, y
            <7> QED
              BY <1>1, <4>2, <6>1, <6>2, OneRegister
          <6>4. Base(q) \in Int /\ Base(r) \in Int
            BY <1>2, <2>1, <5>1
          <6> QED
            BY <1>2, <2>1, <6>3, <6>4
        <5>4. Base(q) \div 4 + Part(i) - 1 # Base(r) \div 4 + k - 1
          BY <1>2, <2>1, <5>1, <5>2, <5>3
        <5> QED
          BY <1>3, <2>1, <5>4
      <4> QED
        BY <4>1, <4>2
    <3>2. Spilled(q, i, word, data) = regs[q][i]
      <4>1. ASSUME board = "KC705", q = "if_macaddr"
            PROVE  word # Base(q) \div 4
        <5>1. r \in {"if_v4addr", "dest_v4addr"}
          BY <4>1 DEF AgreedRegs
        <5>2. k = 1 /\ Base(r) \in {0, 16} /\ Base(q) = 8
          BY <1>1, <4>1, <5>1, Bases DEF Part, RegLen, RegNames
        <5> QED
          BY <1>3, <5>2
      <4> QED
        BY <4>1 DEF Spilled
    <3> QED
      BY <2>3, <3>1, <3>2 DEF o
  <2> QED
    BY <2>2, <2>3
<1> QED
    BY <1>6 DEF Put, RegWrite

\* A byte read at a register's offset is the register's.
LEMMA ReadEffect ==
    ASSUME board \in Boards, NEW r \in RegNames, NEW i \in 1..RegLen[r]
    PROVE  RegByte(Base(r) + i - 1) = regs[r][i]
<1> DEFINE o == Base(r) + i - 1
           hit == {q \in RegNames : o - Base(q) \in 0..(RegLen[q] - 1)}
<1>1. \A q \in RegNames : Base(q) \in Nat /\ RegLen[q] \in Nat
    BY Bases DEF RegLen, RegNames
<1>2. r \in hit
    BY <1>1
<1>3. ASSUME NEW q \in hit PROVE q = r
  <2>1. o - Base(q) + 1 \in 1..RegLen[q] /\ q \in RegNames
    BY <1>1
  <2>2. Base(q) + (o - Base(q) + 1) - 1 = o
    BY <1>1
  <2> QED
    BY <2>1, <2>2, OneRegister
<1>4. (CHOOSE x \in hit : TRUE) = r
    BY <1>2, <1>3
<1>5. o - Base(r) + 1 = i
    BY <1>1
<1>6. hit # {}
    BY <1>2
<1> HIDE DEF hit
<1>7. RegByte(o) = IF hit = {} THEN 0
                   ELSE LET x == CHOOSE x \in hit : TRUE
                        IN  regs[x][o - Base(x) + 1]
    BY DEF RegByte, hit
<1> QED
    BY <1>4, <1>5, <1>6, <1>7

-----------------------------------------------------------------------------
(***************************************************************************)
(* The inductive invariant follows a command access by access: the parts   *)
(* that a SET has written are in the register, those that a GET has read   *)
(* are in the buffer, and a register that nobody is setting holds what was *)
(* set last.                                                               *)
(***************************************************************************)
Bytes(r) == [1..RegLen[r] -> 0..255]

Shape ==
    /\ DOMAIN buf = Procs /\ DOMAIN wanted = RegNames
    /\ \A r \in RegNames : wanted[r] # <<>> => wanted[r] \in Bytes(r)

Running ==
    \A p \in Procs : cmd[p] # "none" =>
      reg[p] \in Owns(board, p) /\ next[p] \in 1..(Len(Chunks(reg[p])) + 1)

Writing ==
    \A p \in Procs : cmd[p] = "SET" =>
      /\ wanted[reg[p]] \in Bytes(reg[p]) /\ buf[p] = wanted[reg[p]]
      /\ \A i \in 1..RegLen[reg[p]] :
           Part(i) < next[p] => regs[reg[p]][i] = buf[p][i]

Reading ==
    \A p \in Procs : cmd[p] = "GET" =>
      /\ DOMAIN buf[p] = 1..8
      /\ \A i \in 1..RegLen[reg[p]] :
           Part(i) < next[p] => buf[p][i] = regs[reg[p]][i]

Holding ==
    \A r \in RegNames :
      wanted[r] # <<>> /\ (\A p \in Procs : cmd[p] = "SET" => reg[p] # r)
        => \A i \in 1..RegLen[r] : regs[r][i] = wanted[r][i]

Inv == TypeOK /\ Shape /\ Running /\ Writing /\ Reading /\ Holding

\* A command is about a register that driver and board agree on.
LEMMA RunningAgreed ==
    ASSUME Usage, TypeOK, Running, NEW p \in Procs, cmd[p] # "none"
    PROVE  /\ reg[p] \in AgreedRegs(board)
           /\ reg[p] \in RegNames \ {"mem0_paddr"}
           /\ RegLen[reg[p]] \in {4, 6}
           /\ Len(Chunks(reg[p])) = Part(RegLen[reg[p]])
<1>1. reg[p] \in AgreedRegs(board) /\ board \in Boards
    BY DEF Usage, Agreed, TypeOK, Running
<1> QED
    BY <1>1, Agreement

\* Two commands in progress are about different registers.
LEMMA RunningApart ==
    ASSUME Usage, TypeOK, Running, NEW p \in Procs, NEW q \in Procs, p # q,
           cmd[p] # "none", cmd[q] # "none"
    PROVE  reg[p] # reg[q]
    BY DEF Usage, Apart, TypeOK, Running

\* Nothing runs and nothing was set at the start.
LEMMA InitInv == Init => Inv
<1> SUFFICES ASSUME Init PROVE Inv
    OBVIOUS
<1>1. \A r \in RegNames : regs[r] \in [1..RegLen[r] -> 0..255]
  <2>1. ASSUME NEW r \in RegNames PROVE regs[r] \in [1..RegLen[r] -> 0..255]
    <3>1. CASE r = "if_v4addr"
      BY <3>1 DEF Init, RegsInit, RegNames, RegLen
    <3>2. CASE r = "if_macaddr"
      BY <3>2 DEF Init, RegsInit, RegNames, RegLen
    <3>3. CASE r = "dest_v4addr"
      BY <3>3 DEF Init, RegsInit, RegNames, RegLen
    <3>4. CASE r = "dest_macaddr"
      BY <3>4 DEF Init, RegsInit, RegNames, RegLen
    <3>5. CASE r = "mem0_paddr"
      BY <3>5 DEF Init, RegsInit, RegNames, RegLen
    <3> QED
      BY <3>1, <3>2, <3>3, <3>4, <3>5 DEF RegNames
  <2> QED
    BY <2>1
<1>2. (CHOOSE r \in RegNames : TRUE) \in RegNames
    BY DEF RegNames
<1>3. reg \in [Procs -> RegNames]
    BY <1>2 DEF Init
<1>4. board \in Boards /\ cmd = [p \in Procs |-> "none"]
      /\ next = [p \in Procs |-> 1]
    BY DEF Init
<1>5. TypeOK
    BY <1>1, <1>3, <1>4 DEF TypeOK
<1>6. Shape
    BY DEF Init, Shape
<1>7. Running /\ Writing /\ Reading /\ Holding
    BY DEF Init, Running, Writing, Reading, Holding
<1> QED
    BY <1>5, <1>6, <1>7 DEF Inv

\* A command starts.
LEMMA StartInv ==
    ASSUME Usage, Inv, NEW p \in Procs, StartSet(p) \/ StartGet(p)
    PROVE  Inv'
<1>0. PICK r \in Owns(board, p), c \in {"SET", "GET"} : \E b :
        /\ Start(p, c, r, b)
        /\ c = "SET" => b \in Values(r) /\ wanted' = [wanted EXCEPT ![r] = b]
        /\ c = "GET" => b = Blank /\ UNCHANGED wanted
    BY DEF StartSet, StartGet
<1>1. PICK b :
        /\ Start(p, c, r, b)
        /\ c = "SET" => b \in Values(r) /\ wanted' = [wanted EXCEPT ![r] = b]
        /\ c = "GET" => b = Blank /\ UNCHANGED wanted
    BY <1>0
<1>2. /\ board \in Boards /\ r \in AgreedRegs(board)
      /\ \A q \in Procs : q # p => r \notin Owns(board, q)
    BY DEF Usage, Agreed, Apart, Inv, TypeOK
<1>3. /\ r \in RegNames \ {"mem0_paddr"} /\ RegLen[r] \in {4, 6}
      /\ Len(Chunks(r)) \in {1, 2}
    BY <1>2, Agreement
<1>4. c = "SET" => b \in Bytes(r) /\ b # <<>>
  <2>1. c = "SET" => b \in Bytes(r)
    BY <1>1, <1>3 DEF Usage, Sized, Bytes
  <2> QED
    BY <1>3, <2>1 DEF Bytes
<1>5. ASSUME NEW q \in Procs, q # p, cmd[q] # "none" PROVE reg[q] # r
    BY <1>2, <1>5 DEF Inv, Running
<1>6. TypeOK'
    BY <1>1, <1>3 DEF Start, Inv, TypeOK
<1>7. /\ cmd'[p] = c /\ reg'[p] = r /\ next'[p] = 1 /\ buf'[p] = b
      /\ \A q \in Procs : q # p => /\ cmd'[q] = cmd[q] /\ reg'[q] = reg[q]
                                  /\ next'[q] = next[q] /\ buf'[q] = buf[q]
      /\ UNCHANGED <<board, regs>> /\ DOMAIN buf' = Procs
    BY <1>1 DEF Start, Inv, TypeOK, Shape
<1>8. /\ DOMAIN wanted' = RegNames
      /\ wanted'[r] = IF c = "SET" THEN b ELSE wanted[r]
      /\ \A q \in RegNames : q # r => wanted'[q] = wanted[q]
    BY <1>1, <1>3 DEF Inv, Shape
<1>9. Shape'
    BY <1>3, <1>4, <1>7, <1>8 DEF Inv, Shape
<1>10. Running'
    BY <1>3, <1>7 DEF Inv, Running
<1>11. ASSUME NEW q \in Procs, q # p, cmd[q] # "none"
       PROVE  wanted'[reg[q]] = wanted[reg[q]]
    BY <1>5, <1>8, <1>11 DEF Inv, TypeOK
<1>12. \A i \in Int : ~(Part(i) < 1)
    BY DEF Part
<1>13. Writing'
    BY <1>3, <1>4, <1>7, <1>8, <1>11, <1>12 DEF Inv, Writing
<1>14. Reading'
    BY <1>1, <1>3, <1>7, <1>12 DEF Inv, Reading, Blank
<1>15. Holding'
  <2>1. SUFFICES ASSUME NEW x \in RegNames, wanted'[x] # <<>>,
                        \A q \in Procs : cmd'[q] = "SET" => reg'[q] # x
                 PROVE  \A i \in 1..RegLen[x] : regs'[x][i] = wanted'[x][i]
    BY DEF Holding
  <2>2. wanted'[x] = wanted[x]
    BY <1>7, <1>8, <2>1
  <2>3. cmd[p] = "none"
    BY <1>1 DEF Start
  <2>4. \A q \in Procs : cmd[q] = "SET" => reg[q] # x
    BY <1>7, <2>1, <2>3
  <2> QED
    BY <1>7, <2>1, <2>2, <2>4 DEF Inv, Holding
<1> QED
    BY <1>6, <1>9, <1>10, <1>13, <1>14, <1>15 DEF Inv

\* One access of a SET: a dword goes to the board.
LEMMA WriteInv ==
    ASSUME Usage, Inv, NEW p \in Procs, Access(p), cmd[p] = "SET"
    PROVE  Inv'
<1> DEFINE r == reg[p]
           k == next[p]
<1> HIDE DEF r, k
<1>1. /\ board \in Boards /\ r \in AgreedRegs(board) /\ r \in RegNames
      /\ RegLen[r] \in {4, 6} /\ Len(Chunks(r)) = Part(RegLen[r])
      /\ Len(Chunks(r)) \in {1, 2}
    BY RunningAgreed DEF Inv, TypeOK, Part, r
<1>2. k \in 1..Len(Chunks(r)) /\ k \in 1..2
    BY <1>1 DEF Access, Inv, TypeOK, r, k
<1>3. /\ UNCHANGED <<board, cmd, reg, wanted, buf>>
      /\ next' = [next EXCEPT ![p] = k + 1]
    BY DEF Access, r, k
<1>4. regs' = [q \in RegNames |-> [i \in 1..RegLen[q] |->
                 IF q = r /\ Part(i) = k THEN buf[p][i] ELSE regs[q][i]]]
  <2>1. Put(r, k, buf[p])
    BY DEF Access, Put, r, k
  <2>2. board \in Boards /\ r \in AgreedRegs(board)
    BY <1>1
  <2> QED
    BY <1>2, <2>1, <2>2, WriteEffect
<1>5. /\ buf[p] = wanted[r] /\ buf[p] \in Bytes(r)
      /\ \A i \in 1..RegLen[r] : Part(i) < k => regs[r][i] = buf[p][i]
    BY DEF Inv, Writing, r, k
<1>6. /\ \A q \in RegNames : q # r => regs'[q] = regs[q]
      /\ \A i \in 1..RegLen[r] :
           regs'[r][i] = IF Part(i) = k THEN buf[p][i] ELSE regs[r][i]
  <2>1. ASSUME NEW q \in RegNames, q # r PROVE regs'[q] = regs[q]
    <3>1. regs[q] \in [1..RegLen[q] -> 0..255]
      BY DEF Inv, TypeOK
    <3> QED
      BY <1>4, <2>1, <3>1
  <2> QED
    BY <1>1, <1>4, <2>1
<1>7. TypeOK'
  <2>1. ASSUME NEW q \in RegNames PROVE regs'[q] \in [1..RegLen[q] -> 0..255]
    <3>1. regs[q] \in [1..RegLen[q] -> 0..255]
      BY DEF Inv, TypeOK
    <3> QED
      BY <1>4, <1>5, <3>1 DEF Bytes
  <2>2. next' \in [Procs -> 1..3]
    BY <1>2, <1>3 DEF Inv, TypeOK
  <2> QED
    BY <1>3, <2>1, <2>2 DEF Inv, TypeOK
<1>8. Shape'
    BY <1>3 DEF Inv, Shape
<1>9. /\ next'[p] = k + 1
      /\ \A q \in Procs : q # p => next'[q] = next[q]
    BY <1>3 DEF Inv, TypeOK
<1>10. Running'
    BY <1>1, <1>2, <1>3, <1>9 DEF Inv, Running, r
<1>11. ASSUME NEW q \in Procs, q # p, cmd[q] # "none"
       PROVE  reg[q] # r /\ regs'[reg[q]] = regs[reg[q]]
  <2>1. reg[q] # r
    BY <1>11, RunningApart DEF Inv, r
  <2> QED
    BY <1>6, <2>1 DEF Inv, TypeOK
<1>12. \A i \in 1..RegLen[r] : Part(i) < k + 1 => regs'[r][i] = buf[p][i]
  <2>1. \A i \in Int : Part(i) \in {1, 2}
    BY DEF Part
  <2> QED
    BY <1>1, <1>2, <1>5, <1>6, <2>1
<1>13. Writing'
    BY <1>3, <1>5, <1>9, <1>11, <1>12 DEF Inv, Writing, r
<1>14. Reading'
    BY <1>3, <1>9, <1>11 DEF Inv, Reading
<1>15. Holding'
    BY <1>3, <1>6 DEF Inv, Holding, r
<1> QED
    BY <1>7, <1>8, <1>10, <1>13, <1>14, <1>15 DEF Inv

\* One access of a GET: a dword comes from the board.
LEMMA ReadInv ==
    ASSUME Usage, Inv, NEW p \in Procs, Access(p), cmd[p] = "GET"
    PROVE  Inv'
<1> DEFINE r == reg[p]
           k == next[p]
<1> HIDE DEF r, k
<1>1. /\ board \in Boards /\ r \in AgreedRegs(board) /\ r \in RegNames
      /\ RegLen[r] \in {4, 6} /\ Len(Chunks(r)) = Part(RegLen[r])
      /\ Len(Chunks(r)) \in {1, 2}
    BY RunningAgreed DEF Inv, TypeOK, Part, r
<1>2. k \in 1..Len(Chunks(r)) /\ k \in 1..2
    BY <1>1 DEF Access, Inv, TypeOK, r, k
<1>3. /\ Chunks(r)[k].at = Base(r) + 4 * (k - 1)
      /\ Chunks(r)[k].from = 4 * (k - 1) + 1
      /\ Chunks(r)[k].n = IF k = 1 THEN 4 ELSE 2
      /\ Base(r) \in Nat
  <2>1. Base(r) \in {0, 4, 16, 20}
    BY <1>1, <1>2, AgreedAccess
  <2>2. Base(r) \in Nat
    BY <2>1
  <2> QED
    BY <1>1, <1>2, <2>2, AgreedAccess
<1>4. /\ UNCHANGED <<board, cmd, reg, wanted, regs>>
      /\ next' = [next EXCEPT ![p] = k + 1]
      /\ buf' = [buf EXCEPT ![p] =
                   [i \in DOMAIN @ |->
                      IF i - Chunks(r)[k].from \in 0..(Chunks(r)[k].n - 1)
                        THEN RegByte(Chunks(r)[k].at + i - Chunks(r)[k].from)
                        ELSE @[i]]]
    BY DEF Access, r, k
<1>5. /\ DOMAIN buf[p] = 1..8 /\ DOMAIN buf = Procs
      /\ \A i \in 1..RegLen[r] : Part(i) < k => buf[p][i] = regs[r][i]
    BY DEF Inv, Reading, Shape, r, k
<1>6. /\ DOMAIN buf' = Procs /\ DOMAIN buf'[p] = 1..8
      /\ \A q \in Procs : q # p => buf'[q] = buf[q]
      /\ \A i \in 1..8 :
           buf'[p][i] =
             IF i - Chunks(r)[k].from \in 0..(Chunks(r)[k].n - 1)
               THEN RegByte(Chunks(r)[k].at + i - Chunks(r)[k].from)
               ELSE buf[p][i]
    BY <1>4, <1>5
<1>7. ASSUME NEW i \in 1..RegLen[r], Part(i) < k + 1
      PROVE  buf'[p][i] = regs[r][i]
  <2>1. i \in 1..8 /\ i \in 1..6 /\ Part(i) \in {1, 2}
    BY <1>1 DEF Part
  <2>2. CASE Part(i) = k
    <3>1. i - Chunks(r)[k].from \in 0..(Chunks(r)[k].n - 1)
      <4>1. i - (4 * (k - 1) + 1) \in 0..((IF k = 1 THEN 4 ELSE 2) - 1)
        BY <1>2, <2>1, <2>2 DEF Part
      <4> QED
        BY <1>3, <4>1
    <3>2. Chunks(r)[k].at + i - Chunks(r)[k].from = Base(r) + i - 1
      BY <1>2, <1>3, <2>1
    <3>3. RegByte(Base(r) + i - 1) = regs[r][i]
      BY <1>1, ReadEffect
    <3> QED
      BY <1>6, <2>1, <3>1, <3>2, <3>3
  <2>3. CASE Part(i) < k
    <3>1. ~(i - Chunks(r)[k].from \in 0..(Chunks(r)[k].n - 1))
      BY <1>2, <1>3, <2>1, <2>3 DEF Part
    <3> QED
      BY <1>5, <1>6, <2>1, <2>3, <3>1
  <2> QED
    BY <1>2, <1>7, <2>1, <2>2, <2>3
<1>8. next' \in [Procs -> 1..3] /\ next'[p] = k + 1
      /\ \A q \in Procs : q # p => next'[q] = next[q]
    BY <1>2, <1>4 DEF Inv, TypeOK
<1>9. TypeOK'
    BY <1>4, <1>8 DEF Inv, TypeOK
<1>10. Shape'
    BY <1>4, <1>6 DEF Inv, Shape
<1>11. Running'
    BY <1>1, <1>2, <1>4, <1>8 DEF Inv, Running, r
<1>12. Writing'
    BY <1>4, <1>6, <1>8 DEF Inv, Writing
<1>13. Reading'
  <2>1. ASSUME NEW q \in Procs, q # p, cmd[q] = "GET"
        PROVE  /\ DOMAIN buf'[q] = 1..8
               /\ \A i \in 1..RegLen[reg[q]] :
                    Part(i) < next'[q] => buf'[q][i] = regs[reg[q]][i]
    BY <1>6, <1>8, <2>1 DEF Inv, Reading
  <2>2. /\ DOMAIN buf'[p] = 1..8
        /\ \A i \in 1..RegLen[r] :
             Part(i) < next'[p] => buf'[p][i] = regs[r][i]
    BY <1>6, <1>7, <1>8
  <2>3. ASSUME NEW q \in Procs, cmd[q] = "GET"
        PROVE  /\ DOMAIN buf'[q] = 1..8
               /\ \A i \in 1..RegLen[reg[q]] :
                    Part(i) < next'[q] => buf'[q][i] = regs[reg[q]][i]
    BY <2>1, <2>2, <2>3 DEF r
  <2>4. UNCHANGED <<cmd, reg, regs>>
    BY <1>4
  <2> QED
    BY <2>3, <2>4 DEF Reading
<1>14. Holding'
    BY <1>4 DEF Inv, Holding
<1> QED
    BY <1>9, <1>10, <1>11, <1>12, <1>13, <1>14 DEF Inv

\* A command returns.
LEMMA ReturnInv ==
    ASSUME Usage, Inv, NEW p \in Procs, Return(p)
    PROVE  Inv'
<1>1. /\ cmd[p] # "none" /\ next[p] > Len(Chunks(reg[p]))
      /\ UNCHANGED <<board, regs, reg, buf, next, wanted>>
      /\ cmd' \in [Procs -> {"none", "SET", "GET"}] /\ cmd'[p] = "none"
      /\ \A q \in Procs : q # p => cmd'[q] = cmd[q]
    BY DEF Return, Finished, Inv, TypeOK
<1>2. TypeOK'
    BY <1>1 DEF Inv, TypeOK
<1>3. Shape' /\ Running'
    BY <1>1 DEF Inv, Shape, Running
<1>4. Writing' /\ Reading'
    BY <1>1 DEF Inv, Writing, Reading
<1>5. Holding'
  <2>1. /\ reg[p] \in RegNames /\ RegLen[reg[p]] \in {4, 6}
        /\ Len(Chunks(reg[p])) = Part(RegLen[reg[p]])
    BY <1>1, RunningAgreed DEF Inv
  <2>2. \A i \in 1..RegLen[reg[p]] : Part(i) < next[p]
    BY <1>1, <2>1 DEF Part, Inv, TypeOK
  <2>3. cmd[p] = "SET" => \A i \in 1..RegLen[reg[p]] :
                            regs[reg[p]][i] = wanted[reg[p]][i]
    BY <2>2 DEF Inv, Writing
  <2> QED
    BY <1>1, <2>3 DEF Inv, Holding
<1> QED
    BY <1>2, <1>3, <1>4, <1>5 DEF Inv

\* Every step of every process keeps the invariant.
LEMMA NextInv == Usage /\ Inv /\ [Next]_vars => Inv'
<1> SUFFICES ASSUME Usage, Inv, [Next]_vars PROVE Inv'
    OBVIOUS
<1>1. ASSUME NEW p \in Procs, Access(p) PROVE Inv'
  <2>1. cmd[p] \in {"SET", "GET"}
    BY <1>1 DEF Access, Inv, TypeOK
  <2> QED
    BY <1>1, <2>1, WriteInv, ReadInv
<1>2. CASE UNCHANGED vars
  <2>1. TypeOK' /\ Shape' /\ Running'
    BY <1>2 DEF vars, Inv, TypeOK, Shape, Running
  <2>2. Writing' /\ Reading' /\ Holding'
    BY <1>2 DEF vars, Inv, Writing, Reading, Holding
  <2> QED
    BY <2>1, <2>2 DEF Inv
<1> QED
    BY <1>1, <1>2, StartInv, ReturnInv DEF Next

\* The invariant holds always.
LEMMA Invariant == Usage => (Spec => []Inv)
<1> SUFFICES ASSUME Usage PROVE Spec => []Inv
    OBVIOUS
<1>1. Inv /\ [Next]_vars => Inv'
    BY NextInv
<1> QED
    BY <1>1, InitInv, PTL DEF Spec

\* All of a register's bytes are carried by the accesses of its command.
LEMMA AllParts ==
    ASSUME Usage, Inv, NEW p \in Procs, Finished(p)
    PROVE  \A i \in 1..RegLen[reg[p]] : Part(i) < next[p]
<1>1. /\ RegLen[reg[p]] \in {4, 6}
      /\ Len(Chunks(reg[p])) = Part(RegLen[reg[p]])
    BY RunningAgreed DEF Inv, Finished
<1> QED
    BY <1>1 DEF Finished, Part, Inv, TypeOK

\* A register that nobody is in the middle of setting equals what was set.
LEMMA InvHolds == Usage /\ Inv => RegisterHolds
<1> SUFFICES ASSUME Usage, Inv, NEW r \in RegNames, wanted[r] # <<>>,
                    ~Setting(r)
             PROVE  regs[r] = SubSeq(wanted[r], 1, RegLen[r])
    BY DEF RegisterHolds
<1>1. wanted[r] \in Bytes(r) /\ regs[r] \in Bytes(r) /\ RegLen[r] \in Nat
  <2>1. RegLen[r] \in Nat
    BY DEF RegLen, RegNames
  <2> QED
    BY <2>1 DEF Inv, Shape, TypeOK, Bytes
<1>2. \A i \in 1..RegLen[r] : regs[r][i] = wanted[r][i]
  <2>1. CASE \E p \in Procs : cmd[p] = "SET" /\ reg[p] = r
    <3>1. PICK p \in Procs : cmd[p] = "SET" /\ reg[p] = r
      BY <2>1
    <3>2. Finished(p)
      BY <3>1 DEF Setting
    <3> QED
      BY <3>1, <3>2, AllParts DEF Inv, Writing
  <2>2. CASE ~\E p \in Procs : cmd[p] = "SET" /\ reg[p] = r
    BY <2>2 DEF Inv, Holding
  <2> QED
    BY <2>1, <2>2
<1> DEFINE s == SubSeq(wanted[r], 1, RegLen[r])
<1>3. \A i \in 1..RegLen[r] : wanted[r][i] \in 0..255
    BY <1>1 DEF Bytes
<1>4. /\ s \in Seq(0..255) /\ Len(s) = RegLen[r]
      /\ \A i \in 1..RegLen[r] : s[i] = wanted[r][i]
  <2>1. /\ s \in Seq(0..255)
        /\ Len(s) = IF 1 <= RegLen[r] THEN RegLen[r] - 1 + 1 ELSE 0
        /\ \A i \in 1..(RegLen[r] - 1 + 1) : s[i] = wanted[r][1 + i - 1]
    BY <1>1, <1>3, SubSeqProperties
  <2> HIDE DEF s
  <2> QED
    BY <1>1, <2>1
<1> HIDE DEF s
<1>5. s \in [1..RegLen[r] -> 0..255]
    BY <1>4, LenProperties
<1>6. regs[r] = s
    BY <1>1, <1>2, <1>4, <1>5 DEF Bytes
<1> QED
    BY <1>6 DEF s

\* A GET that has done its accesses has what was set.
LEMMA InvReadBack == Usage /\ Inv => ReadBack
<1> SUFFICES ASSUME Usage, Inv, NEW p \in Procs, cmd[p] = "GET", Finished(p),
                    wanted[reg[p]] # <<>>
             PROVE  SubSeq(buf[p], 1, Len(wanted[reg[p]])) = wanted[reg[p]]
    BY DEF ReadBack
<1> DEFINE r == reg[p]
           n == RegLen[r]
<1> HIDE DEF r, n
<1>1. r \in RegNames /\ n \in {4, 6}
    BY RunningAgreed DEF Inv, Finished, r, n
<1>2. wanted[r] \in [1..n -> 0..255]
    BY <1>1 DEF Inv, Shape, Bytes, r, n
<1>3. \A i \in 1..n : buf[p][i] = regs[r][i]
    BY AllParts DEF Inv, Reading, r, n
<1>4. \A i \in 1..n : regs[r][i] = wanted[r][i]
  <2>1. ASSUME NEW q \in Procs, cmd[q] = "SET" PROVE reg[q] # r
    BY <2>1, RunningApart DEF Inv, r
  <2> QED
    BY <1>1, <2>1 DEF Inv, Holding, r, n
<1>5. wanted[r] \in Seq(0..255) /\ Len(wanted[r]) = n
  <2>1. wanted[r] \in Seq(0..255)
    BY <1>1, <1>2, SeqDef
  <2> QED
    BY <1>1, <1>2, <2>1, LenProperties
<1> DEFINE s == SubSeq(buf[p], 1, n)
<1>6. \A i \in 1..n : buf[p][i] \in 0..255
    BY <1>2, <1>3, <1>4
<1>7. /\ s \in Seq(0..255) /\ Len(s) = n
      /\ \A i \in 1..n : s[i] = buf[p][i]
  <2>1. /\ s \in Seq(0..255)
        /\ Len(s) = IF 1 <= n THEN n - 1 + 1 ELSE 0
        /\ \A i \in 1..(n - 1 + 1) : s[i] = buf[p][1 + i - 1]
    BY <1>1, <1>6, SubSeqProperties
  <2> HIDE DEF s
  <2> QED
    BY <1>1, <2>1
<1> HIDE DEF s
<1>8. s \in [1..n -> 0..255]
    BY <1>7, LenProperties
<1>9. s = wanted[r]
    BY <1>2, <1>3, <1>4, <1>7, <1>8
<1> QED
    BY <1>5, <1>9 DEF s, r

\* Types, on both boards, whatever the processes do at the same time.
THEOREM TypeCorrect == Usage => (Spec => []TypeOK)
<1>1. Inv => TypeOK
    BY DEF Inv
<1> QED
    BY <1>1, Invariant, PTL

\* A register keeps what a SET put there although there is no lock and the
\* accesses of all the processes interleave, as long as no two processes use
\* the same register.
THEOREM SetSticks == Usage => (Spec => []RegisterHolds)
<1> SUFFICES ASSUME Usage PROVE Spec => []RegisterHolds
    OBVIOUS
<1>1. Inv => RegisterHolds
    BY InvHolds
<1>2. Spec => []Inv
    BY Invariant
<1> QED
    BY <1>1, <1>2, PTL

\* A GET returns what the last SET of the register put there.
THEOREM GetReturnsSet == Usage => (Spec => []ReadBack)
<1> SUFFICES ASSUME Usage PROVE Spec => []ReadBack
    OBVIOUS
<1>1. Inv => ReadBack
    BY InvReadBack
<1>2. Spec => []Inv
    BY Invariant
<1> QED
    BY <1>1, <1>2, PTL

=============================================================================
