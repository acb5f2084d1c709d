------------------------ MODULE SocketPingPongProofs -------------------------
(***************************************************************************)
(* Proofs about SocketPingPong, for every Limit.                           *)
(*                                                                         *)
(* InStep is not inductive: it does not say which numbers a side has sent. *)
(* While no datagram is lost both sides send every number, and on the way  *)
(* to a side are the numbers that the other side has sent and this one has *)
(* not yet received (Lockstep).  After one loss, be it the first datagram  *)
(* to a side that was late or any later one, a single number goes back and *)
(* forth (OneTurn), and after a second loss both sides wait (Dead).        *)
(***************************************************************************)
EXTENDS SocketPingPong, SequenceTheorems, TLAPS

\* How many numbers a side has sent.
Sent(x) == countS[x] + (IF pc[x] = "recv" THEN 1 ELSE 0)

\* The n numbers from c on.
Numbers(c, n) == CASE n = 0 -> <<>>
                   [] n = 1 -> <<c>>
                   [] n = 2 -> <<c, c + 1>>

Lockstep ==
    \A x \in Sides :
      /\ Sent(Other(x)) - countS[x] \in 0..2
      /\ sock[x] = Numbers(countS[x], Sent(Other(x)) - countS[x])

\* Side x has the turn: w, the other one, waits for what x sends.
Turn(x, w) ==
    /\ pc[w] = "recv" /\ sock[x] = <<>>
    /\ countS[x] \in {countS[w], countS[w] + 1}
    /\ \/ pc[x] # "recv" /\ sock[w] = <<>>
       \/ /\ pc[x] = "recv"
          /\ \E k \in {countS[x] - 1, countS[x]} :
               k >= countS[w] /\ sock[w] = <<k>>

OneTurn == \E x \in Sides : Turn(x, Other(x))

\* Both sides wait and nothing is on its way.
Dead ==
    \A x \in Sides :
      /\ pc[x] = "recv" /\ sock[x] = <<>>
      /\ countS[x] - countS[Other(x)] \in -1..1

Types ==
    /\ pc \in [Sides -> {"start", "loop", "recv", "done"}]
    /\ countS \in [Sides -> 0..Limit] /\ countR \in [Sides -> 0..Limit]
    /\ DOMAIN sock = Sides
    /\ \A x \in Sides : pc[x] = "recv" => countS[x] < Limit

Inv ==
    /\ Types
    /\ \/ lost = 0 /\ Lockstep
       \/ lost = 1 /\ OneTurn
       \/ lost = 2 /\ Dead

-----------------------------------------------------------------------------
\* What sending and receiving do to a socket buffer.
LEMMA Buffers ==
    ASSUME NEW c \in Nat, NEW d \in Nat
    PROVE  /\ Append(<<>>, d) = <<d>> /\ Append(<<c>>, d) = <<c, d>>
           /\ Head(<<c>>) = c /\ Tail(<<c>>) = <<>>
           /\ Head(<<c, d>>) = c /\ Tail(<<c, d>>) = <<d>>
           /\ <<c>> # <<>> /\ <<c, d>> # <<>>
<1>1. Append(<<>>, d) = <<d>>
    OBVIOUS
<1>2. Append(<<c>>, d) = <<c, d>>
  <2>1. <<c>> \in Seq(Nat) /\ <<c, d>> \in Seq(Nat)
    OBVIOUS
  <2>2. /\ Append(<<c>>, d) \in Seq(Nat)
        /\ Len(Append(<<c>>, d)) = 2
        /\ Append(<<c>>, d)[1] = c /\ Append(<<c>>, d)[2] = d
    BY <2>1, AppendProperties
  <2> DEFINE s == Append(<<c>>, d)
             t == <<c, d>>
  <2>3. Len(t) = 2 /\ t[1] = c /\ t[2] = d
    OBVIOUS
  <2> HIDE DEF s, t
  <2>4. s \in Seq(Nat) /\ t \in Seq(Nat) /\ Len(s) = 2 /\ Len(t) = 2
        /\ s[1] = t[1] /\ s[2] = t[2]
    BY <2>1, <2>2, <2>3 DEF s, t
  <2>5. s = t
    BY <2>4, SeqEqual
  <2> QED
    BY <2>5 DEF s, t
<1>3. Head(<<c>>) = c /\ Tail(<<c>>) = <<>> /\ <<c>> # <<>>
    OBVIOUS
<1>4. Head(<<c, d>>) = c /\ <<c, d>> # <<>>
    OBVIOUS
<1>5. Tail(<<c, d>>) = <<d>>
    OBVIOUS
<1> QED
    BY <1>1, <1>2, <1>3, <1>4, <1>5

\* Short buffers are sequences.
LEMMA ShortSeqs ==
    ASSUME NEW S, NEW c \in S, NEW d \in S
    PROVE  <<>> \in Seq(S) /\ <<c>> \in Seq(S) /\ <<c, d>> \in Seq(S)
    OBVIOUS

\* Numbers, one by one.
LEMMA NumbersAre ==
    ASSUME NEW c \in Nat
    PROVE  /\ Numbers(c, 0) = <<>> /\ Numbers(c, 1) = <<c>>
           /\ Numbers(c, 2) = <<c, c + 1>>
    BY DEF Numbers

\* Sending adds the next number, receiving takes the first.
LEMMA NumbersMove ==
    ASSUME NEW c \in Nat
    PROVE  /\ \A n \in {0, 1} : Append(Numbers(c, n), c + n) = Numbers(c, n + 1)
           /\ \A n \in {1, 2} : /\ Numbers(c, n) # <<>>
                                /\ Head(Numbers(c, n)) = c
                                /\ Tail(Numbers(c, n)) = Numbers(c + 1, n - 1)
<1>1. /\ Append(<<>>, c) = <<c>> /\ Append(<<c>>, c + 1) = <<c, c + 1>>
      /\ Head(<<c>>) = c /\ Tail(<<c>>) = <<>>
      /\ Head(<<c, c + 1>>) = c /\ Tail(<<c, c + 1>>) = <<c + 1>>
      /\ <<c>> # <<>> /\ <<c, c + 1>> # <<>>
    BY Buffers
<1>2. Numbers(c + 1, 0) = <<>> /\ Numbers(c + 1, 1) = <<c + 1>>
    BY NumbersAre
<1>3. /\ Numbers(c, 0) = <<>> /\ Numbers(c, 1) = <<c>>
      /\ Numbers(c, 2) = <<c, c + 1>>
    BY NumbersAre
<1>4. /\ Append(Numbers(c, 0), c) = Numbers(c, 1)
      /\ Append(Numbers(c, 1), c + 1) = Numbers(c, 2)
    BY <1>1, <1>3
<1>5. /\ Numbers(c, 1) # <<>> /\ Numbers(c, 2) # <<>>
      /\ Head(Numbers(c, 1)) = c /\ Head(Numbers(c, 2)) = c
      /\ Tail(Numbers(c, 1)) = Numbers(c + 1, 0)
      /\ Tail(Numbers(c, 2)) = Numbers(c + 1, 1)
    BY <1>1, <1>2, <1>3
<1> QED
    BY <1>4, <1>5

\* The other side.
LEMMA OtherSide ==
    ASSUME NEW x \in Sides
    PROVE  /\ Other(x) \in Sides /\ Other(x) # x /\ Other(Other(x)) = x
           /\ \A y \in Sides : y = x \/ y = Other(x)
    BY DEF Sides, Other

\* Before either side has bound its socket.
LEMMA InitInv == Init => Inv
<1> SUFFICES ASSUME Init PROVE Inv
    OBVIOUS
<1>1. Types
    BY LimitAssumption DEF Init, Types
<1>2. Lockstep
    BY OtherSide, NumbersAre DEF Init, Lockstep, Sent
<1> QED
    BY <1>1, <1>2 DEF Inv, Init

-----------------------------------------------------------------------------
\* Lockstep, said of one side x and the other side y.
Step(x, y) ==
    /\ Sent(y) - countS[x] \in 0..2
    /\ sock[x] = Numbers(countS[x], Sent(y) - countS[x])

\* Lockstep is Step of either side, now and after a step.
LEMMA BothSteps ==
    ASSUME NEW x \in Sides
    PROVE  /\ Lockstep <=> Step(x, Other(x)) /\ Step(Other(x), x)
           /\ Lockstep' <=> Step(x, Other(x))' /\ Step(Other(x), x)'
<1>1. Other(x) \in Sides /\ \A y \in Sides : y = x \/ y = Other(x)
    BY OtherSide
<1>2. Other(Other(x)) = x
    BY OtherSide
<1> QED
    BY <1>1, <1>2 DEF Lockstep, Step

\* Sizes of the numbers in lockstep.
LEMMA Ranges ==
    ASSUME Types, NEW x \in Sides
    PROVE  /\ countS[x] \in Nat /\ countS[x] <= Limit /\ Limit \in Nat
           /\ pc[x] = "recv" => Sent(x) = countS[x] + 1
           /\ pc[x] # "recv" => Sent(x) = countS[x]
           /\ Sent(x) \in Nat
    BY LimitAssumption DEF Types, Sent

\* A side binds its socket.
LEMMA BindStep ==
    ASSUME Types, NEW x \in Sides, Bind(x)
    PROVE  /\ Types' /\ (Lockstep => Lockstep') /\ (OneTurn => OneTurn')
           /\ ~Dead /\ lost' = lost
<1> DEFINE y == Other(x)
<1>0. y \in Sides /\ y # x /\ Other(y) = x
    BY OtherSide
<1> HIDE DEF y
<1>1. /\ pc[x] = "start" /\ UNCHANGED <<countS, countR, sock, lost>>
      /\ pc' = [pc EXCEPT ![x] = "loop"]
    BY DEF Bind
<1>2. pc'[x] = "loop" /\ pc'[y] = pc[y]
    BY <1>0, <1>1 DEF Types
<1>3. Types'
    BY <1>1 DEF Types
<1>4. Sent(x)' = Sent(x) /\ Sent(y)' = Sent(y)
    BY <1>1, <1>2 DEF Sent
<1>5. ASSUME Lockstep PROVE Lockstep'
  <2>1. Step(x, y) /\ Step(y, x)
    BY <1>5, BothSteps DEF y
  <2>2. Step(x, y)' /\ Step(y, x)'
    BY <1>1, <1>2, <1>4, <2>1 DEF Step
  <2> QED
    BY <2>2, BothSteps DEF y
<1>6. ASSUME OneTurn PROVE OneTurn'
  <2>1. PICK z \in Sides : Turn(z, Other(z))
    BY <1>6 DEF OneTurn
  <2>2. z = x
    BY <1>1, <2>1, OtherSide DEF Turn
  <2>3. Turn(x, y)
    BY <2>1, <2>2 DEF y
  <2>4. Turn(x, y)'
    BY <1>1, <1>2, <2>3 DEF Turn
  <2> QED
    BY <2>4 DEF OneTurn, y
<1>7. ~Dead
    BY <1>1 DEF Dead
<1> QED
    BY <1>1, <1>3, <1>5, <1>6, <1>7

\* A side leaves its loop.
LEMMA ExitStep ==
    ASSUME Types, NEW x \in Sides, Exit(x)
    PROVE  /\ Types' /\ (Lockstep => Lockstep') /\ (OneTurn => OneTurn')
           /\ ~Dead /\ lost' = lost
<1> DEFINE y == Other(x)
<1>0. y \in Sides /\ y # x /\ Other(y) = x
    BY OtherSide
<1> HIDE DEF y
<1>1. /\ pc[x] = "loop" /\ UNCHANGED <<countS, countR, sock, lost>>
      /\ pc' = [pc EXCEPT ![x] = "done"] /\ countS[x] = Limit
    BY Ranges DEF Exit
<1>2. pc'[x] = "done" /\ pc'[y] = pc[y]
    BY <1>0, <1>1 DEF Types
<1>3. Types'
    BY <1>1 DEF Types
<1>4. Sent(x)' = Sent(x) /\ Sent(y)' = Sent(y)
    BY <1>1, <1>2 DEF Sent
<1>5. ASSUME Lockstep PROVE Lockstep'
  <2>1. Step(x, y) /\ Step(y, x)
    BY <1>5, BothSteps DEF y
  <2>2. Step(x, y)' /\ Step(y, x)'
    BY <1>1, <1>2, <1>4, <2>1 DEF Step
  <2> QED
    BY <2>2, BothSteps DEF y
<1>6. ASSUME OneTurn PROVE OneTurn'
  <2>1. PICK z \in Sides : Turn(z, Other(z))
    BY <1>6 DEF OneTurn
  <2>2. z = x
    BY <1>1, <2>1, OtherSide DEF Turn
  <2>3. Turn(x, y)
    BY <2>1, <2>2 DEF y
  <2>4. Turn(x, y)'
    BY <1>1, <1>2, <2>3 DEF Turn
  <2> QED
    BY <2>4 DEF OneTurn, y
<1>7. ~Dead
    BY <1>1 DEF Dead
<1> QED
    BY <1>1, <1>3, <1>5, <1>6, <1>7

\* A side sends its number and the number joins those that are on their
\* way, or it is lost.
LEMMA SendStep ==
    ASSUME Types, NEW x \in Sides, SendTo(x)
    PROVE  /\ Types' /\ ~Dead
           /\ \/ /\ lost' = lost
                 /\ (Lockstep => Lockstep') /\ (OneTurn => OneTurn')
              \/ /\ lost' = lost + 1
                 /\ (Lockstep => OneTurn') /\ (OneTurn => Dead')
<1> DEFINE y == Other(x)
<1>0. y \in Sides /\ y # x /\ Other(y) = x
    BY OtherSide
<1> HIDE DEF y
<1>1. /\ pc[x] = "loop" /\ UNCHANGED <<countS, countR>>
      /\ pc' = [pc EXCEPT ![x] = "recv"] /\ countS[x] < Limit
      /\ \/ /\ sock' = [sock EXCEPT ![y] = Append(sock[y], countS[x])]
            /\ UNCHANGED lost
         \/ lost' = lost + 1 /\ UNCHANGED sock
    BY DEF SendTo, y
<1>2. pc'[x] = "recv" /\ pc'[y] = pc[y]
    BY <1>0, <1>1 DEF Types
<1>3. Types' /\ ~Dead
    BY <1>1 DEF Types, Dead
<1>4. /\ Sent(x) = countS[x] /\ Sent(x)' = countS[x] + 1 /\ Sent(y)' = Sent(y)
      /\ Sent(y) \in Nat /\ countS[x] \in Nat /\ countS[y] \in Nat
      /\ pc[y] = "recv" => Sent(y) = countS[y] + 1
      /\ pc[y] # "recv" => Sent(y) = countS[y]
    BY <1>0, <1>1, <1>2, Ranges DEF Sent
<1>5. ASSUME OneTurn PROVE Turn(x, y)
  <2>1. PICK z \in Sides : Turn(z, Other(z))
    BY <1>5 DEF OneTurn
  <2>2. z = x
    BY <1>1, <2>1, OtherSide DEF Turn
  <2> QED
    BY <2>1, <2>2 DEF y
<1> DEFINE n == countS[x] - countS[y]
<1>6. ASSUME Lockstep
      PROVE  /\ Step(x, y) /\ Step(y, x)
             /\ n \in {0, 1} /\ countS[x] = countS[y] + n
             /\ sock[y] = Numbers(countS[y], n)
  <2>1. Step(x, y) /\ Step(y, x)
    BY <1>6, BothSteps DEF y
  <2>2. n \in {0, 1} /\ countS[x] = countS[y] + n
    BY <1>4, <2>1 DEF Step
  <2> QED
    BY <1>4, <2>1, <2>2 DEF Step
<1>7. Sent(x)' - countS[y] = n + 1
    BY <1>4
<1>8. CASE /\ sock' = [sock EXCEPT ![y] = Append(sock[y], countS[x])]
           /\ UNCHANGED lost
  <2>1. sock'[x] = sock[x] /\ sock'[y] = Append(sock[y], countS[x])
    BY <1>0, <1>8 DEF Types
  <2>2. ASSUME Lockstep PROVE Lockstep'
    <3>1. n \in {0, 1} /\ countS[x] = countS[y] + n
      BY <1>6, <2>2
    <3> HIDE DEF n
    <3>2. sock'[y] = Numbers(countS[y], n + 1)
      BY <1>4, <1>6, <2>1, <2>2, <3>1, NumbersMove
    <3>3. Step(y, x)'
      BY <1>1, <1>7, <3>1, <3>2 DEF Step
    <3>4. Step(x, y)'
      BY <1>1, <1>4, <1>6, <2>1, <2>2 DEF Step
    <3> QED
      BY <3>3, <3>4, BothSteps DEF y
  <2>3. ASSUME OneTurn PROVE OneTurn'
    <3>1. Turn(x, y)
      BY <1>5, <2>3
    <3>2. sock'[y] = <<countS[x]>>
      BY <1>1, <1>4, <2>1, <3>1, Buffers DEF Turn
    <3>3. countS[x] >= countS[y] /\ countS[x] \in {countS[x] - 1, countS[x]}
      BY <1>4, <3>1 DEF Turn
    <3>4. Turn(x, y)'
      BY <1>1, <1>2, <2>1, <3>1, <3>2, <3>3 DEF Turn
    <3> QED
      BY <3>4 DEF OneTurn, y
  <2> QED
    BY <1>3, <1>8, <2>2, <2>3
<1>9. CASE lost' = lost + 1 /\ UNCHANGED sock
  <2>1. ASSUME Lockstep PROVE OneTurn'
    <3>1. /\ Step(x, y) /\ n \in {0, 1} /\ countS[x] = countS[y] + n
          /\ sock[y] = Numbers(countS[y], n)
      BY <1>6, <2>1
    <3>2. CASE n = 0
      <4>0. sock[y] = Numbers(countS[y], 0) /\ countS[y] = countS[x]
        BY <1>4, <3>1, <3>2
      <4>1. sock[y] = <<>> /\ countS[y] = countS[x]
        BY <1>4, <4>0, NumbersAre
      <4>2. CASE pc[y] = "recv"
        <5>1. sock[x] = Numbers(countS[x], 1)
          <6>1. Sent(y) - countS[x] = 1
            BY <1>4, <4>1, <4>2
          <6> QED
            BY <3>1, <6>1 DEF Step
        <5>2. sock[x] = <<countS[y]>>
          BY <1>4, <4>1, <5>1, NumbersAre
        <5>3. countS[y] \in {countS[y] - 1, countS[y]} /\ countS[y] >= countS[x]
          BY <1>4, <4>1
        <5> QED
          BY <1>0, <1>1, <1>2, <1>9, <4>1, <4>2, <5>2, <5>3 DEF OneTurn, Turn
      <4>3. CASE pc[y] # "recv"
        <5>1. sock[x] = Numbers(countS[x], 0)
          <6>1. Sent(y) - countS[x] = 0
            BY <1>4, <4>1, <4>3
          <6> QED
            BY <3>1, <6>1 DEF Step
        <5>2. sock[x] = <<>>
          BY <1>4, <5>1, NumbersAre
        <5> QED
          BY <1>0, <1>1, <1>2, <1>9, <4>1, <4>3, <5>2 DEF OneTurn, Turn
      <4> QED
        BY <4>2, <4>3
    <3>3. CASE n = 1
      <4>1. /\ countS[x] = countS[y] + 1 /\ countS[y] = countS[x] - 1
            /\ countS[y] >= countS[y]
        BY <1>4, <3>1, <3>3
      <4>2. sock[y] = <<countS[y]>>
        BY <1>4, <3>1, <3>3, NumbersAre
      <4>3. pc[y] = "recv" /\ Sent(y) - countS[x] = 0
        <5>1. Sent(y) - countS[x] \in 0..2
          BY <3>1 DEF Step
        <5> QED
          BY <1>4, <4>1, <5>1
      <4>4. sock[x] = Numbers(countS[x], 0)
        BY <3>1, <4>3 DEF Step
      <4>5. sock[x] = <<>>
        BY <1>4, <4>4, NumbersAre
      <4>6. Turn(x, y)'
        BY <1>1, <1>2, <1>9, <4>1, <4>2, <4>3, <4>5 DEF Turn
      <4> QED
        BY <4>6 DEF OneTurn, y
    <3> QED
      BY <3>1, <3>2, <3>3
  <2>2. ASSUME OneTurn PROVE Dead'
    <3>1. Turn(x, y)
      BY <1>5, <2>2
    <3>2. pc'[y] = "recv" /\ sock'[y] = <<>> /\ sock'[x] = <<>>
      BY <1>1, <1>2, <1>9, <3>1 DEF Turn
    <3>3. countS[x] - countS[y] \in -1..1 /\ countS[y] - countS[x] \in -1..1
      BY <1>4, <3>1 DEF Turn
    <3> QED
      BY <1>0, <1>1, <1>2, <3>2, <3>3, OtherSide DEF Dead, y
  <2> QED
    BY <1>3, <1>9, <2>1, <2>2
<1> QED
    BY <1>1, <1>8, <1>9

\* What the other side sent last, or the one before, is received.
LEMMA RecvNumber ==
    ASSUME Inv, NEW x \in Sides, Recv(x)
    PROVE  /\ Head(sock[x]) \in {countS[Other(x)], countS[Other(x)] - 1}
           /\ Head(sock[x]) \in Nat /\ Head(sock[x]) >= countS[x]
           /\ Head(sock[x]) < Limit
<1> DEFINE y == Other(x)
<1>0. y \in Sides /\ y # x /\ Other(y) = x
    BY OtherSide
<1> HIDE DEF y
<1>1. pc[x] = "recv" /\ sock[x] # <<>>
    BY DEF Recv
<1>2. /\ countS[x] \in Nat /\ countS[y] \in Nat /\ countS[x] < Limit
      /\ Sent(x) = countS[x] + 1 /\ Sent(y) \in Nat
      /\ Sent(y) \in {countS[y], countS[y] + 1}
    BY <1>0, <1>1, Ranges DEF Inv, Types
<1>3. CASE Lockstep
  <2>1. Step(x, y) /\ Step(y, x)
    BY <1>3, BothSteps DEF y
  <2> DEFINE n == Sent(y) - countS[x]
  <2>2. n \in 0..2 /\ sock[x] = Numbers(countS[x], n)
    BY <2>1 DEF Step
  <2>3. n \in {1, 2}
    <3> HIDE DEF n
    <3>1. ASSUME n = 0 PROVE FALSE
      <4>1. sock[x] = Numbers(countS[x], 0)
        BY <2>2, <3>1
      <4> QED
        BY <1>1, <1>2, <4>1, NumbersAre
    <3> QED
      BY <2>2, <3>1
  <2>4. Head(sock[x]) = countS[x]
    <3> HIDE DEF n
    <3> QED
      BY <1>2, <2>2, <2>3, NumbersMove
  <2>5. countS[x] \in {countS[y], countS[y] - 1}
    BY <1>2, <2>1, <2>3 DEF Step
  <2> QED
    BY <1>2, <2>4, <2>5 DEF y
<1>4. CASE OneTurn
  <2>1. PICK z \in Sides : Turn(z, Other(z))
    BY <1>4 DEF OneTurn
  <2>2. z = y
    BY <1>0, <1>1, <2>1, OtherSide DEF Turn, y
  <2>3. Turn(y, x)
    BY <1>0, <2>1, <2>2
  <2>4. /\ pc[y] = "recv"
        /\ \E k \in {countS[y] - 1, countS[y]} :
             k >= countS[x] /\ sock[x] = <<k>>
    BY <1>1, <2>3 DEF Turn
  <2>5. PICK k \in {countS[y] - 1, countS[y]} :
             k >= countS[x] /\ sock[x] = <<k>>
    BY <2>4
  <2>6. k \in Nat /\ k < Limit
    BY <1>0, <1>2, <2>4, <2>5, Ranges DEF Inv, Types
  <2>7. Head(sock[x]) = k
    BY <2>5, <2>6, Buffers
  <2> QED
    BY <2>5, <2>6, <2>7 DEF y
<1>5. ~Dead
    BY <1>1 DEF Dead
<1> QED
    BY <1>3, <1>4, <1>5 DEF Inv

\* A side receives a number.
LEMMA RecvStep ==
    ASSUME Inv, NEW x \in Sides, Recv(x)
    PROVE  /\ Types' /\ (Lockstep => Lockstep') /\ (OneTurn => OneTurn')
           /\ ~Dead /\ lost' = lost
<1> DEFINE y == Other(x)
           h == Head(sock[x])
<1>0. y \in Sides /\ y # x /\ Other(y) = x
    BY OtherSide
<1> HIDE DEF y, h
<1>1. /\ pc[x] = "recv" /\ sock[x] # <<>>
      /\ countR' = [countR EXCEPT ![x] = h]
      /\ countS' = [countS EXCEPT ![x] = h + 1]
      /\ sock' = [sock EXCEPT ![x] = Tail(sock[x])]
      /\ pc' = [pc EXCEPT ![x] = "loop"] /\ lost' = lost
    BY DEF Recv, h
<1>2. h \in Nat /\ h < Limit /\ Limit \in Nat
    BY RecvNumber, LimitAssumption DEF h
<1>3. Types'
    BY <1>1, <1>2 DEF Inv, Types
<1>4. /\ pc'[x] = "loop" /\ pc'[y] = pc[y]
      /\ countS'[x] = h + 1 /\ countS'[y] = countS[y]
      /\ sock'[x] = Tail(sock[x]) /\ sock'[y] = sock[y]
    BY <1>0, <1>1 DEF Inv, Types
<1>5. /\ countS[x] \in Nat /\ countS[y] \in Nat
      /\ Sent(x) = countS[x] + 1 /\ Sent(y) \in Nat
      /\ Sent(x)' = h + 1 /\ Sent(y)' = Sent(y)
  <2>1. /\ countS[x] \in Nat /\ countS[y] \in Nat
        /\ Sent(x) = countS[x] + 1 /\ Sent(y) \in Nat
    BY <1>0, <1>1, Ranges DEF Inv
  <2>2. Sent(x)' = h + 1 /\ Sent(y)' = Sent(y)
    BY <1>2, <1>4 DEF Sent
  <2> QED
    BY <2>1, <2>2
<1>6. ASSUME Lockstep PROVE Lockstep'
  <2>1. Step(x, y) /\ Step(y, x)
    BY <1>6, BothSteps DEF y
  <2> DEFINE n == Sent(y) - countS[x]
  <2>2. n \in 0..2 /\ sock[x] = Numbers(countS[x], n)
    BY <2>1 DEF Step
  <2>3. n \in {1, 2}
    <3> HIDE DEF n
    <3>1. ASSUME n = 0 PROVE FALSE
      <4>1. sock[x] = Numbers(countS[x], 0)
        BY <2>2, <3>1
      <4> QED
        BY <1>1, <1>5, <4>1, NumbersAre
    <3> QED
      BY <2>2, <3>1
  <2>4. h = countS[x] /\ sock'[x] = Numbers(countS[x] + 1, n - 1)
    <3> HIDE DEF n
    <3>1. /\ Head(Numbers(countS[x], n)) = countS[x]
          /\ Tail(Numbers(countS[x], n)) = Numbers(countS[x] + 1, n - 1)
      BY <1>5, <2>3, NumbersMove
    <3> QED
      BY <1>4, <2>2, <3>1 DEF h
  <2>5. Sent(y) - (h + 1) = n - 1 /\ n - 1 \in 0..2
    BY <1>5, <2>3, <2>4
  <2>6. Step(x, y)'
    BY <1>4, <1>5, <2>4, <2>5 DEF Step
  <2>7. Sent(x)' = Sent(x)
    BY <1>5, <2>4
  <2>8. Step(y, x)'
    BY <1>4, <2>1, <2>7 DEF Step
  <2> QED
    BY <2>6, <2>8, BothSteps DEF y
<1>7. ASSUME OneTurn PROVE OneTurn'
  <2>1. PICK z \in Sides : Turn(z, Other(z))
    BY <1>7 DEF OneTurn
  <2>2. z = y
    BY <1>0, <1>1, <2>1, OtherSide DEF Turn, y
  <2>3. Turn(y, x)
    BY <1>0, <2>1, <2>2
  <2>4. /\ pc[y] = "recv" /\ sock[y] = <<>>
        /\ \E k \in {countS[y] - 1, countS[y]} :
             k >= countS[x] /\ sock[x] = <<k>>
    BY <1>1, <2>3 DEF Turn
  <2>5. PICK k \in {countS[y] - 1, countS[y]} :
             k >= countS[x] /\ sock[x] = <<k>>
    BY <2>4
  <2>6. k \in Nat
    BY <1>5, <2>5
  <2>7. h = k /\ sock'[x] = <<>>
    BY <1>4, <2>5, <2>6, Buffers DEF h
  <2>8. h + 1 \in {countS[y], countS[y] + 1}
    BY <1>5, <2>5, <2>7
  <2>9. Turn(x, y)'
    BY <1>4, <2>4, <2>7, <2>8 DEF Turn
  <2> QED
    BY <2>9 DEF OneTurn, y
<1>8. ~Dead
    BY <1>1 DEF Dead
<1> QED
    BY <1>1, <1>3, <1>6, <1>7, <1>8

-----------------------------------------------------------------------------
\* Every step keeps the invariant, whatever is lost.
LEMMA NextInv == Inv /\ [Next]_vars => Inv'
<1> SUFFICES ASSUME Inv, [Next]_vars PROVE Inv'
    OBVIOUS
<1>1. ASSUME NEW x \in Sides, Bind(x) \/ Recv(x) \/ Exit(x) PROVE Inv'
    BY <1>1, BindStep, RecvStep, ExitStep DEF Inv
<1>2. ASSUME NEW x \in Sides, SendTo(x) PROVE Inv'
  <2>1. /\ Types' /\ ~Dead
        /\ \/ /\ lost' = lost
              /\ (Lockstep => Lockstep') /\ (OneTurn => OneTurn')
           \/ /\ lost' = lost + 1
              /\ (Lockstep => OneTurn') /\ (OneTurn => Dead')
    BY <1>2, SendStep DEF Inv
  <2> QED
    BY <2>1 DEF Inv
<1>3. CASE UNCHANGED vars
    BY <1>3 DEF vars, Inv, Types, Lockstep, OneTurn, Turn, Sent, Dead
<1> QED
    BY <1>1, <1>2, <1>3 DEF Next, Side

\* The invariant holds always.
LEMMA Invariant == Spec => []Inv
    BY InitInv, NextInv, PTL DEF Spec

\* What may wait for a side.
LEMMA Waiting ==
    ASSUME Inv, NEW x \in Sides
    PROVE  LET c == countS[x] IN
           \/ sock[x] = <<>>
           \/ sock[x] = <<c>> /\ c < Limit
           \/ sock[x] = <<c + 1>> /\ c + 1 < Limit
           \/ sock[x] = <<c, c + 1>> /\ c + 1 < Limit
<1> DEFINE y == Other(x)
<1>0. y \in Sides /\ y # x /\ Other(y) = x
    BY OtherSide
<1> HIDE DEF y
<1>1. /\ countS[x] \in Nat /\ countS[y] \in Nat /\ Sent(y) \in Nat
      /\ Sent(y) <= Limit /\ Limit \in Nat
    BY <1>0, Ranges DEF Inv, Types
<1>2. CASE Lockstep
  <2> DEFINE n == Sent(y) - countS[x]
  <2>1. n \in 0..2 /\ sock[x] = Numbers(countS[x], n)
    BY <1>2, BothSteps DEF Step, y
  <2>2. countS[x] + n <= Limit
    BY <1>1
  <2> HIDE DEF n
  <2>3. CASE n = 0
    BY <1>1, <2>1, <2>3, NumbersAre
  <2>4. CASE n = 1
    <3>1. sock[x] = Numbers(countS[x], 1) /\ countS[x] < Limit
      BY <1>1, <2>1, <2>2, <2>4
    <3> QED
      BY <1>1, <3>1, NumbersAre
  <2>5. CASE n = 2
    <3>1. sock[x] = Numbers(countS[x], 2) /\ countS[x] + 1 < Limit
      BY <1>1, <2>1, <2>2, <2>5
    <3> QED
      BY <1>1, <3>1, NumbersAre
  <2> QED
    BY <2>1, <2>3, <2>4, <2>5
<1>3. CASE OneTurn
  <2>1. PICK z \in Sides : Turn(z, Other(z))
    BY <1>3 DEF OneTurn
  <2>2. CASE z = x
    BY <2>1, <2>2 DEF Turn
  <2>3. CASE z = y
    <3>1. Turn(y, x)
      BY <1>0, <2>1, <2>3
    <3>2. CASE pc[y] = "recv"
      <4>1. PICK k \in {countS[y] - 1, countS[y]} :
                 k >= countS[x] /\ sock[x] = <<k>>
        BY <3>1, <3>2 DEF Turn
      <4>2. countS[y] < Limit
        BY <1>0, <3>2 DEF Inv, Types
      <4>3. k \in {countS[x], countS[x] + 1} /\ k < Limit
        BY <1>1, <3>1, <4>1, <4>2 DEF Turn
      <4> QED
        BY <4>1, <4>3
    <3>3. CASE pc[y] # "recv"
      BY <3>1, <3>3 DEF Turn
    <3> QED
      BY <3>2, <3>3
  <2> QED
    BY <2>2, <2>3, OtherSide DEF y
<1>4. CASE Dead
    BY <1>4 DEF Dead
<1> QED
    BY <1>2, <1>3, <1>4 DEF Inv

\* Types, for every number of rounds, whatever is lost.
THEOREM TypeCorrect == Spec => []TypeOK
<1>1. Inv => TypeOK
  <2> SUFFICES ASSUME Inv PROVE TypeOK
    OBVIOUS
  <2>1. ASSUME NEW x \in Sides PROVE sock[x] \in Seq(0..Limit)
    <3> DEFINE c == countS[x]
    <3>1. \/ sock[x] = <<>>
          \/ sock[x] = <<c>> /\ c < Limit
          \/ sock[x] = <<c + 1>> /\ c + 1 < Limit
          \/ sock[x] = <<c, c + 1>> /\ c + 1 < Limit
      BY Waiting
    <3>2. c \in Nat /\ Limit \in Nat
      BY Ranges DEF Inv
    <3> HIDE DEF c
    <3>3. 0 \in 0..Limit /\ (c < Limit => c \in 0..Limit)
      BY <3>2
    <3>4. c + 1 < Limit => c \in 0..Limit /\ c + 1 \in 0..Limit
      BY <3>2
    <3>5. CASE sock[x] = <<>>
      BY <3>3, <3>5, ShortSeqs
    <3>6. CASE sock[x] = <<c>> /\ c < Limit
      BY <3>3, <3>6, ShortSeqs
    <3>7. CASE sock[x] = <<c + 1>> /\ c + 1 < Limit
      BY <3>4, <3>7, ShortSeqs
    <3>8. CASE sock[x] = <<c, c + 1>> /\ c + 1 < Limit
      BY <3>4, <3>8, ShortSeqs
    <3> QED
      BY <3>1, <3>5, <3>6, <3>7, <3>8
  <2> QED
    BY <2>1 DEF Inv, Types, TypeOK
<1> QED
    BY <1>1, Invariant, PTL

(***************************************************************************)
(* The two sides stay within a round of each other, and no side is sent an *)
(* old number: for every number of rounds, whoever starts first and        *)
(* whatever is lost.                                                       *)
(***************************************************************************)
THEOREM StaysInStep == Spec => []InStep
<1>1. Inv => InStep
  <2> SUFFICES ASSUME Inv PROVE InStep
    OBVIOUS
  <2>1. countS["a"] - countS["b"] \in -1..1
    <3>0. /\ "a" \in Sides /\ "b" \in Sides
          /\ Other("a") = "b" /\ Other("b") = "a"
      BY DEF Sides, Other
    <3>1. countS["a"] \in Nat /\ countS["b"] \in Nat
      BY <3>0, Ranges DEF Inv
    <3>2. CASE Lockstep
      <4>1. Step("a", "b") /\ Step("b", "a")
        BY <3>0, <3>2, BothSteps
      <4>2. /\ Sent("a") \in {countS["a"], countS["a"] + 1}
            /\ Sent("b") \in {countS["b"], countS["b"] + 1}
        BY <3>0, <3>1, Ranges DEF Inv
      <4> QED
        BY <3>1, <4>1, <4>2 DEF Step
    <3>3. CASE OneTurn
      <4>1. PICK z \in Sides : Turn(z, Other(z))
        BY <3>3 DEF OneTurn
      <4>2. Turn("a", "b") \/ Turn("b", "a")
        BY <3>0, <4>1 DEF Sides
      <4> QED
        BY <3>1, <4>2 DEF Turn
    <3>4. CASE Dead
      BY <3>0, <3>4 DEF Dead
    <3> QED
      BY <3>2, <3>3, <3>4 DEF Inv
  <2> QED
    BY <2>1, Waiting DEF InStep
<1> QED
    BY <1>1, Invariant, PTL

(***************************************************************************)
(* The two programs implement Exchange, whatever is lost on the way:       *)
(* recv is the abstract Receive, every other step leaves *count_s alone.   *)
(***************************************************************************)
THEOREM ImplementsExchange == Spec => Exchanges
<1> DEFINE got == [x \in Sides |-> countS[x] - 1]
<1>1. Init => Numbering!Init
    BY DEF Init, Numbering!Init, Sides
<1>2. Inv /\ [Next]_vars => [Numbering!Next]_got
  <2> SUFFICES ASSUME Inv, [Next]_vars PROVE [Numbering!Next]_got
    OBVIOUS
  <2>1. ASSUME NEW x \in Sides, Recv(x) PROVE Numbering!Next
    <3> DEFINE h == Head(sock[x])
               y == Other(x)
    <3>1. y \in Sides /\ y # x
      BY OtherSide
    <3>2. h \in {countS[y], countS[y] - 1} /\ h \in Nat /\ h >= countS[x]
      BY <2>1, RecvNumber
    <3>3. countS' = [countS EXCEPT ![x] = h + 1]
      BY <2>1 DEF Recv
    <3> HIDE DEF h, y
    <3>4. countS[x] \in Nat /\ countS[y] \in Nat /\ DOMAIN countS = Sides
      BY <3>1 DEF Inv, Types
    <3>5. got' = [got EXCEPT ![x] = h]
      <4>1. \A z \in Sides : countS'[z] - 1 = IF z = x THEN h
                                              ELSE countS[z] - 1
        BY <3>2, <3>3, <3>4
      <4> QED
        BY <4>1
    <3>6. h \in {got[y], got[y] + 1} /\ h > got[x]
      BY <3>1, <3>2, <3>4
    <3>7. Numbering!Receive(x, y)
      BY <3>5, <3>6 DEF Numbering!Receive
    <3> QED
      BY <3>1, <3>7 DEF Numbering!Next
  <2>2. CASE UNCHANGED countS
    BY <2>2
  <2> QED
    BY <2>1, <2>2 DEF Next, Side, Bind, SendTo, Exit, vars
<1> QED
    BY <1>1, <1>2, Invariant, PTL DEF Spec, Exchanges, Numbering!Spec

=============================================================================
