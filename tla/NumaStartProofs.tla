--------------------------- MODULE NumaStartProofs ---------------------------
(***************************************************************************)
(* Proofs about PingPong and NumaStart, which extends it.                  *)
(*                                                                         *)
(* Part 1 is about the exchange of numbers.  Part 2 is about the start of  *)
(* the programs, for all pairs of programs and every Limit: where they     *)
(* store, and that two started pingpong programs behave as PingPong says,  *)
(* however the two sides start and whichever calls fail.                   *)
(***************************************************************************)
EXTENDS NumaStart, TLAPS, SequenceTheorems

-----------------------------------------------------------------------------
(***************************************************************************)
(* Part 1.  The exchange, PingPong, for every Limit, whatever is lost.     *)
(*                                                                         *)
(* NoOverrun is not inductive: it says nothing of a write before it is     *)
(* sent.  The invariant follows the turn.  It is with a host that has a    *)
(* number it has not answered (Busy), or it is one write in the network,   *)
(* or, after a loss or the server's end, it is gone.                       *)
(***************************************************************************)
Busy(h) == \/ pc[h] \in {"loop", "send"}
           \/ pc[h] = "spin" /\ rdata[h] # rdata2[h]
           \/ pc[h] = "wait" /\ rdata[h] >= 0

\* The turn is in at most one place.
OneTurn ==
    /\ \A h \in Hosts :
         Busy(h) => ~Busy(Other(h)) /\ net[h] = <<>> /\ net[Other(h)] = <<>>
    /\ \A h \in Hosts :
         net[h] # <<>> => ~Busy(h) /\ ~Busy(Other(h)) /\ net[Other(h)] = <<>>

\* A write in the network is alone and new to the host it goes to.
Write(h, v) ==
    /\ net[h] = <<v>>
    /\ v > rdata[h] /\ v >= rdata[Other(h)] /\ v <= rdata[Other(h)] + 1
    /\ pc[h] \in {"wait", "spin"}

Writes == \A h \in Hosts : net[h] # <<>> => \E v \in Nat : Write(h, v)

\* What a host will send is new to the other one.
Numbers ==
    /\ \A h \in Hosts : pc[h] \in {"loop", "send"} =>
         /\ sdata[h] > rdata[Other(h)]
         /\ sdata[h] >= rdata[h] /\ sdata[h] <= rdata[h] + 1
    /\ \A h \in Hosts : pc[h] = "send" => rdata2[h] = rdata[h]
    /\ \A h \in Hosts : Busy(h) /\ pc[h] = "spin" => rdata[h] >= rdata[Other(h)]

\* Before the server has its first number, and after it has stopped.
Ends ==
    /\ pc["s"] = "wait" =>
         /\ sdata["s"] = 0 /\ rdata2["s"] = -1 /\ rdata["c"] = -1
         /\ rdata["s"] \in {-1, 0}
         /\ net["s"] # <<>> => net["s"] = <<0>>
         /\ net["c"] = <<>>
         /\ pc["c"] # "spin" => sdata["c"] = 0
    /\ pc["s"] = "done" => ~Busy("c") /\ net["s"] = <<>> /\ net["c"] = <<>>
    /\ pc["c"] \notin {"wait", "done"}

Inv == TypeOK /\ OneTurn /\ Writes /\ Numbers /\ Ends

-----------------------------------------------------------------------------
\* Sending into an empty network puts one write there; taking it empties it.
LEMMA OneWrite ==
    ASSUME NEW v \in Nat
    PROVE  /\ Append(<<>>, v) = <<v>>
           /\ Head(<<v>>) = v /\ Tail(<<v>>) = <<>> /\ Len(<<v>>) = 1
           /\ <<v>> # <<>> /\ <<v>> \in Seq(Nat) /\ <<>> \in Seq(Nat)
    OBVIOUS

\* The invariant holds when both programs start.
LEMMA InitInv == Init => Inv
<1> SUFFICES ASSUME Init PROVE Inv
    OBVIOUS
<1>1. TypeOK
  <2>1. net \in [Hosts -> Seq(Nat)]
    BY OneWrite DEF Init
  <2>2. lost \in BOOLEAN
    BY DEF Init
  <2> QED
    BY <2>1, <2>2 DEF Init, TypeOK, Hosts
<1>2. OneTurn /\ Writes /\ Numbers /\ Ends
    BY DEF Init, OneTurn, Writes, Numbers, Ends, Busy, Hosts, Other
<1> QED
    BY <1>1, <1>2 DEF Inv

\* Every step of the two programs and of the network keeps the types.
LEMMA NextTypeOK == TypeOK /\ [Next]_vars => TypeOK'
<1> SUFFICES ASSUME TypeOK, [Next]_vars PROVE TypeOK'
    OBVIOUS
<1> USE DEF TypeOK, Hosts, Other
<1>1. CASE Wait
    BY <1>1 DEF Wait, Goto
<1>2. CASE Stop
    BY <1>2 DEF Stop, Goto
<1>3. ASSUME NEW h \in Hosts, Loop(h) PROVE TypeOK'
    BY <1>3 DEF Loop, Goto
<1>4. ASSUME NEW h \in Hosts, Send(h) PROVE TypeOK'
    BY <1>4 DEF Send, Goto
<1>5. ASSUME NEW h \in Hosts, Spin(h) PROVE TypeOK'
    BY <1>5 DEF Spin, Goto
<1>6. ASSUME NEW h \in Hosts, Deliver(h) PROVE TypeOK'
    BY <1>6 DEF Deliver
<1>7. ASSUME NEW h \in Hosts, Lose(h) PROVE TypeOK'
    BY <1>7 DEF Lose
<1>8. CASE UNCHANGED vars
    BY <1>8 DEF vars
<1> QED
    BY <1>1, <1>2, <1>3, <1>4, <1>5, <1>6, <1>7, <1>8 DEF Next, Program

\* Every step of the two programs and of the network keeps the invariant.
LEMMA NextInv == Inv /\ [Next]_vars => Inv'
<1> SUFFICES ASSUME Inv, [Next]_vars PROVE Inv'
    OBVIOUS
<1>0. TypeOK' /\ TypeOK
    BY NextTypeOK DEF Inv
<1> USE <1>0, OneWrite DEF Inv, TypeOK, OneTurn, Writes, Write, Numbers, Ends,
        Busy, Hosts, Other
<1>1. CASE Wait
    BY <1>1 DEF Wait, Goto
<1>2. CASE Stop
    BY <1>2 DEF Stop, Goto
<1>3. ASSUME NEW h \in Hosts, Loop(h) PROVE Inv'
    BY <1>3 DEF Loop, Goto
<1>4. ASSUME NEW h \in Hosts, Send(h) PROVE Inv'
  <2>1. /\ pc[h] = "send" /\ pc' = [pc EXCEPT ![h] = "spin"]
        /\ UNCHANGED <<rdata, rdata2, sdata>>
        /\ net' = [net EXCEPT ![Other(h)] = <<sdata[h]>>]
        /\ net[h] = <<>> /\ net[Other(h)] = <<>>
    BY <1>4 DEF Send, Goto
  <2>2. CASE h = "s"
    BY <2>1, <2>2
  <2>3. CASE h = "c"
    BY <2>1, <2>3
  <2> QED
    BY <2>2, <2>3
<1>5. ASSUME NEW h \in Hosts, Spin(h) PROVE Inv'
    BY <1>5 DEF Spin, Goto
<1>6. ASSUME NEW h \in Hosts, Deliver(h) PROVE Inv'
  <2>1. PICK v \in Nat : Write(h, v)
    BY <1>6 DEF Deliver
  <2>2. /\ rdata' = [rdata EXCEPT ![h] = v]
        /\ net' = [net EXCEPT ![h] = <<>>]
        /\ UNCHANGED <<pc, rdata2, sdata>>
        /\ net[h] # <<>> /\ net[Other(h)] = <<>>
    BY <1>6, <2>1 DEF Deliver
  <2>3. CASE h = "s"
    <3>1. pc["s"] = "wait" => v = 0
      <4>1. pc["s"] = "wait" => <<v>> = <<0>>
        BY <2>1, <2>2, <2>3
      <4> QED
        BY <4>1
    <3> QED
      BY <2>1, <2>2, <2>3, <3>1
  <2>4. CASE h = "c"
    BY <2>1, <2>2, <2>4
  <2> QED
    BY <2>3, <2>4
<1>7. ASSUME NEW h \in Hosts, Lose(h) PROVE Inv'
  <2>1. PICK v \in Nat : Write(h, v)
    BY <1>7 DEF Lose
  <2>2. /\ net' = [net EXCEPT ![h] = <<>>]
        /\ UNCHANGED <<pc, rdata, rdata2, sdata>>
        /\ net[h] # <<>> /\ net[Other(h)] = <<>>
    BY <1>7, <2>1 DEF Lose
  <2>3. CASE h = "s"
    BY <2>1, <2>2, <2>3
  <2>4. CASE h = "c"
    BY <2>1, <2>2, <2>4
  <2> QED
    BY <2>3, <2>4
<1>8. CASE UNCHANGED vars
    BY <1>8 DEF vars
<1> QED
    BY <1>1, <1>2, <1>3, <1>4, <1>5, <1>6, <1>7, <1>8 DEF Next, Program

\* The invariant says what NoOverrun says, and more.
LEMMA InvNoOverrun == Inv => NoOverrun
<1> SUFFICES ASSUME Inv, NEW h \in Hosts, net[h] # <<>>
             PROVE  /\ Len(net[h]) = 1 /\ net[Other(h)] = <<>>
                    /\ pc[h] \in {"wait", "spin"}
                    /\ rdata[h] = rdata2[h]
                    /\ Head(net[h]) > rdata[h]
    BY DEF NoOverrun
<1>1. PICK v \in Nat : Write(h, v)
    BY DEF Inv, Writes
<1>2. ~Busy(h) /\ net[Other(h)] = <<>>
    BY DEF Inv, OneTurn
<1>3. rdata[h] = rdata2[h]
    BY <1>1, <1>2 DEF Inv, TypeOK, Write, Busy, Ends, Hosts
<1> QED
    BY <1>1, <1>2, <1>3, OneWrite DEF Write

\* Types, for every number of rounds and whatever is lost.
THEOREM TypeCorrect == Spec => []TypeOK
<1>1. Init => TypeOK
    BY InitInv DEF Inv
<1> QED
    BY <1>1, NextTypeOK, PTL DEF Spec

\* The inductive invariant holds always.
LEMMA Invariant == Spec => []Inv
    BY InitInv, NextInv, PTL DEF Spec

\* rdata is never written before the program has used what it holds, and
\* what is written is new, so that the spin loop sees it.
THEOREM OverrunFree == Spec => []NoOverrun
    BY Invariant, InvNoOverrun, PTL

\* A delivery is the abstract Receive, every other step leaves rdata as it
\* is.
LEMMA ExchangeStep == Inv /\ [Next]_vars => [Numbering!Next]_rdata
<1> SUFFICES ASSUME Inv, [Next]_vars PROVE [Numbering!Next]_rdata
    OBVIOUS
<1>1. ASSUME NEW h \in Hosts, Deliver(h) PROVE Numbering!Next
  <2>1. PICK v \in Nat : Write(h, v)
    BY <1>1 DEF Deliver, Inv, Writes
  <2>2. rdata' = [rdata EXCEPT ![h] = v] /\ v > rdata[h]
    BY <1>1, <2>1, OneWrite DEF Deliver, Write
  <2>3. Other(h) \in Hosts /\ Other(h) # h
    BY DEF Hosts, Other
  <2>4. v \in {rdata[Other(h)], rdata[Other(h)] + 1}
    <3>1. rdata[Other(h)] \in Int
      BY <2>3 DEF Inv, TypeOK
    <3>2. v >= rdata[Other(h)] /\ v <= rdata[Other(h)] + 1
      BY <2>1 DEF Write
    <3> QED
      BY <3>1, <3>2
  <2>5. Numbering!Receive(h, Other(h))
    BY <2>2, <2>4 DEF Numbering!Receive
  <2> QED
    BY <2>3, <2>5 DEF Numbering!Next
<1>2. CASE \E h \in Hosts : Deliver(h)
    BY <1>1, <1>2
<1>3. CASE UNCHANGED rdata
    BY <1>3
<1> QED
    BY <1>2, <1>3
       DEF Next, Wait, Stop, Program, Loop, Send, Spin, Lose, vars

\* Nothing has been received at first.
LEMMA ExchangeInit == Init => Numbering!Init
    BY DEF Init, Numbering!Init

\* The programs implement Exchange, whatever is lost.
THEOREM ImplementsExchange == Spec => Exchanges
    BY ExchangeInit, ExchangeStep, Invariant, PTL
       DEF Spec, Exchanges, Numbering!Spec

-----------------------------------------------------------------------------
(***************************************************************************)
(* Part 2.  The programs' calls.  Asking programs look for the driver:     *)
(* Boot is the last call of init_numa, MapAt the mmap, Last the last call. *)
(***************************************************************************)
Asking == {"pingpong", "rmem"}

Boot(p)  == IF p = "pingpong" THEN 8 ELSE 3
MapAt(p) == IF p = "pingpong" THEN 11 ELSE 5
Last(p)  == IF p = "pingpong" THEN 13 ELSE 6

Programs == {"pingpong", "rmem", "user", "mem", "demo1"}

\* All the calls of a program.
Script(p) == InitSteps[p] \o MainSteps[p]

\* The calls of ipnuma_pingpong.c.
IsPingPong(s) ==
    /\ Len(s) = 13
    /\ s[1] = "open" /\ s[2] = "GETPADDR" /\ s[3] = "SETIFV4ADDR"
    /\ s[4] = "SETIFMACADDR" /\ s[5] = "SETDESTV4ADDR"
    /\ s[6] = "SETDESTMACADDR" /\ s[7] = "GETMEM0PADDR"
    /\ s[8] = "GETBARADDR" /\ s[9] = "rdata" /\ s[10] = "devmem"
    /\ s[11] = "mmap" /\ s[12] = "prompt" /\ s[13] = "SETMEM0PADDR"

\* init_numa makes the first eight of them.
LEMMA PingPongCalls ==
    IsPingPong(Script("pingpong")) /\ Len(InitSteps["pingpong"]) = 8
<1>1. /\ InitSteps["pingpong"] = PingPongInit
      /\ MainSteps["pingpong"] = PingPongMain
    BY DEF InitSteps, MainSteps
<1> QED
    BY <1>1, ConcatProperties DEF IsPingPong, Script, PingPongInit,
                                   PingPongMain

\* The calls of rmem.c.
IsRmem(s) ==
    /\ Len(s) = 6
    /\ s[1] = "open" /\ s[2] = "GETIFV4ADDR" /\ s[3] = "GETBARADDR"
    /\ s[4] = "devmem" /\ s[5] = "mmap" /\ s[6] = "SETIFV4ADDR"

\* init_numa makes the first three of them.
LEMMA RmemCalls == IsRmem(Script("rmem")) /\ Len(InitSteps["rmem"]) = 3
<1>1. InitSteps["rmem"] = RmemInit /\ MainSteps["rmem"] = RmemMain
    BY DEF InitSteps, MainSteps
<1> QED
    BY <1>1, ConcatProperties DEF IsRmem, Script, RmemInit, RmemMain

\* The calls of mem.c and demo1.c.
LEMMA FixedCalls ==
    ASSUME NEW p \in Fixed
    PROVE  /\ Len(Script(p)) = 2 /\ Len(InitSteps[p]) = 0
           /\ Script(p)[1] = "devmem" /\ Script(p)[2] = "mmap"
<1>1. InitSteps[p] = <<>> /\ MainSteps[p] = <<"devmem", "mmap">>
    BY DEF InitSteps, MainSteps, MemMain, Demo1Main, Fixed
<1> QED
    BY <1>1 DEF Script

\* The calls of user.c, none of which is a prompt.
IsUser(s) ==
    /\ Len(s) = 6 /\ s[1] = "open" /\ s[2] = "GETPADDR"
    /\ s[3] = "GETIFV4ADDR" /\ s[4] = "GETIFMACADDR"
    /\ s[5] = "GETMEM0PADDR" /\ s[6] = "GETBARADDR"

\* These are all of them.
LEMMA UserCalls == IsUser(Script("user"))
<1>1. InitSteps["user"] = <<>> /\ MainSteps["user"] = UserMain
    BY DEF InitSteps, MainSteps
<1> QED
    BY <1>1, ConcatProperties DEF IsUser, Script, UserMain

\* The calls of an asking program, where the argument needs them.
LEMMA AskingCalls ==
    ASSUME NEW p \in Asking
    PROVE  /\ Len(Script(p)) = Last(p) /\ Len(InitSteps[p]) = Boot(p)
           /\ Script(p)[1] = "open"
           /\ \A i \in 2..Boot(p) : Script(p)[i] \in Ioctls
           /\ \A i \in 2..Last(p) : Script(p)[i] # "open"
           /\ Script(p)[Boot(p)] = "GETBARADDR"
           /\ \A i \in 1..Last(p) : Script(p)[i] = "mmap" <=> i = MapAt(p)
           /\ Script(p)[Last(p)] \in Ioctls
<1>1. CASE p = "pingpong"
  <2>1. Boot(p) = 8 /\ MapAt(p) = 11 /\ Last(p) = 13
    BY <1>1 DEF Boot, MapAt, Last
  <2>2. IsPingPong(Script(p)) /\ Len(InitSteps[p]) = 8
    BY <1>1, PingPongCalls
  <2> QED
    BY <2>1, <2>2 DEF IsPingPong, Ioctls
<1>2. CASE p = "rmem"
  <2>1. Boot(p) = 3 /\ MapAt(p) = 5 /\ Last(p) = 6
    BY <1>2 DEF Boot, MapAt, Last
  <2>2. IsRmem(Script(p)) /\ Len(InitSteps[p]) = 3
    BY <1>2, RmemCalls
  <2> QED
    BY <2>1, <2>2 DEF IsRmem, Ioctls
<1> QED
    BY <1>1, <1>2 DEF Asking

\* Only pingpong prompts, at its call 12.
LEMMA PromptCall ==
    ASSUME NEW p \in Programs, NEW i \in 1..Len(Script(p)),
           Script(p)[i] = "prompt"
    PROVE  p = "pingpong" /\ i = 12
<1>1. CASE p = "pingpong"
  <2>1. IsPingPong(Script(p))
    BY <1>1, PingPongCalls
  <2>2. i \in {1, 2, 3, 4, 5, 6, 7, 8, 9, 10, 11, 12, 13}
    BY <2>1 DEF IsPingPong
  <2> QED
    BY <1>1, <2>1, <2>2 DEF IsPingPong
<1>2. CASE p = "rmem"
  <2>1. IsRmem(Script(p))
    BY <1>2, RmemCalls
  <2>2. i \in {1, 2, 3, 4, 5, 6}
    BY <2>1 DEF IsRmem
  <2> QED
    BY <2>1, <2>2 DEF IsRmem
<1>3. CASE p = "user"
  <2>1. IsUser(Script(p))
    BY <1>3, UserCalls
  <2>2. i \in {1, 2, 3, 4, 5, 6}
    BY <2>1 DEF IsUser
  <2> QED
    BY <2>1, <2>2 DEF IsUser
<1>4. CASE p \in Fixed
  <2>1. i \in {1, 2}
    BY <1>4, FixedCalls
  <2> QED
    BY <1>4, <2>1, FixedCalls
<1> QED
    BY <1>1, <1>2, <1>3, <1>4 DEF Programs, Fixed

-----------------------------------------------------------------------------
(***************************************************************************)
(* The inductive invariant, host by host.  The file that init_numa opens   *)
(* is what ties its ignored failure to the later one: without it the ioctl *)
(* after the mmap fails, with it all the ioctls of init_numa succeed and   *)
(* baraddr is known before the mmap.                                       *)
(***************************************************************************)
AskHost(h) ==
    prog[h] \in Asking =>
      /\ at[h] \in 0..(Last(prog[h]) + 1)
      /\ at[h] = 1 => ~fd[h]
      /\ at[h] \in 2..Boot(prog[h]) => fd[h]
      /\ fd[h] /\ at[h] > Boot(prog[h]) => baraddr[h] = "bar2"
      /\ fd[h] /\ at[h] > MapAt(prog[h]) => window[h] = "bar2"
      /\ at[h] = Last(prog[h]) + 1 => fd[h]
      /\ stored[h] \in {"none", "bar2"}

FixedHost(h) ==
    prog[h] \in Fixed =>
      /\ at[h] \in 0..3
      /\ at[h] = 3 => window[h] = "fixed"
      /\ stored[h] \in {"none", "fixed"}

UserHost(h) == prog[h] = "user" => at[h] \in 0..7 /\ stored[h] = "none"

\* h has printed its address and cannot fail any more.
Known(h) == prog[h] = "pingpong" /\ fd[h] /\ at[h] >= 12

\* A number is on its way, or is going to be, only to such a host.
Reach ==
    \A h \in Hosts :
      /\ net[h] # <<>> => Known(h)
      /\ prog[h] = "pingpong" /\ at[h] >= 13 => Known(Other(h))

StartTypes ==
    /\ prog \in [Hosts -> Programs] /\ at \in [Hosts -> Nat]
    /\ fd \in [Hosts -> BOOLEAN]
    /\ DOMAIN baraddr = Hosts /\ DOMAIN window = Hosts
    /\ DOMAIN stored = Hosts /\ DOMAIN net = Hosts

HostsOK == \A h \in Hosts : AskHost(h) /\ FixedHost(h) /\ UserHost(h)

StartInv == StartTypes /\ HostsOK /\ Reach

\* The order of the marked calls.
LEMMA Order ==
    ASSUME NEW p \in Asking
    PROVE  /\ Boot(p) \in Nat /\ MapAt(p) \in Nat /\ Last(p) \in Nat
           /\ 2 < Boot(p) /\ Boot(p) < MapAt(p) /\ MapAt(p) < Last(p)
    BY DEF Asking, Boot, MapAt, Last

\* Steps, in terms of the program.
LEMMA StepsAre == \A h : Steps(h) = Script(prog[h])
    BY DEF Steps, Script

\* Nothing is open, mapped or stored when the programs start.
LEMMA StartInitInv == StartInit => StartInv
<1> SUFFICES ASSUME StartInit PROVE StartInv
    OBVIOUS
<1>1. DOMAIN MainSteps = Programs
    BY DEF MainSteps, Programs
<1>2. StartTypes
    BY <1>1, PairingsAssumption DEF StartInit, Init, StartTypes
<1>3. HostsOK
  <2> SUFFICES ASSUME NEW h \in Hosts
               PROVE  AskHost(h) /\ FixedHost(h) /\ UserHost(h)
    BY DEF HostsOK
  <2>1. at[h] = 1 /\ fd[h] = FALSE /\ stored[h] = "none"
    BY DEF StartInit
  <2> QED
    BY <2>1, Order DEF AskHost, FixedHost, UserHost
<1>4. Reach
    BY DEF StartInit, Init, Reach
<1> QED
    BY <1>2, <1>3, <1>4 DEF StartInv

\* A call of an asking program.
LEMMA AskCall ==
    ASSUME StartTypes, NEW h \in Hosts, AskHost(h), prog[h] \in Asking, Call(h)
    PROVE  AskHost(h)'
<1> DEFINE p == prog[h]
           a == at[h]
<1>1. /\ Boot(p) \in Nat /\ MapAt(p) \in Nat /\ Last(p) \in Nat
      /\ 2 < Boot(p) /\ Boot(p) < MapAt(p) /\ MapAt(p) < Last(p)
    BY Order
<1>2. /\ Len(Steps(h)) = Last(p) /\ Len(InitSteps[p]) = Boot(p)
      /\ Steps(h)[1] = "open"
      /\ \A i \in 2..Boot(p) : Steps(h)[i] \in Ioctls
      /\ \A i \in 2..Last(p) : Steps(h)[i] # "open"
      /\ Steps(h)[Boot(p)] = "GETBARADDR"
      /\ \A i \in 1..Last(p) : Steps(h)[i] = "mmap" <=> i = MapAt(p)
      /\ Steps(h)[Last(p)] \in Ioctls
    BY AskingCalls, StepsAre
<1>3. /\ a \in Nat /\ fd[h] \in BOOLEAN
      /\ a = 1 => ~fd[h]
      /\ a \in 2..Boot(p) => fd[h]
      /\ fd[h] /\ a > Boot(p) => baraddr[h] = "bar2"
      /\ fd[h] /\ a > MapAt(p) => window[h] = "bar2"
      /\ stored[h] \in {"none", "bar2"}
    BY DEF StartTypes, AskHost
<1>4. {"open", "devmem", "mmap", "rdata", "prompt"} \intersect Ioctls = {}
    BY DEF Ioctls
<1> HIDE DEF p, a
<1>5. CASE Open(h)
  <2>1. a \in 1..Last(p) /\ Steps(h)[a] = "open"
    BY <1>2, <1>5 DEF Open, At, a
  <2>2. a = 1
    BY <1>1, <1>2, <2>1
  <2>3. /\ at'[h] = 2 /\ fd'[h] = TRUE /\ prog'[h] = p
        /\ stored'[h] = stored[h]
    BY <1>5, <2>2 DEF Open, Advance, StartTypes, a, p
  <2> QED
    BY <1>1, <1>3, <2>3 DEF AskHost
<1>6. CASE Ioctl(h)
  <2>1. PICK c \in Ioctls :
          /\ At(h, c) /\ fd[h]
          /\ baraddr' = [baraddr EXCEPT ![h] = IF c = "GETBARADDR" THEN "bar2"
                                               ELSE @]
    BY <1>6 DEF Ioctl
  <2>2. a \in 1..Last(p) /\ Steps(h)[a] = c
    BY <1>2, <2>1 DEF At, a
  <2>3. /\ at'[h] = a + 1 /\ fd'[h] = fd[h] /\ prog'[h] = p
        /\ window'[h] = window[h] /\ stored'[h] = stored[h]
        /\ baraddr'[h] = IF c = "GETBARADDR" THEN "bar2" ELSE baraddr[h]
    BY <1>6, <2>1 DEF Ioctl, Advance, StartTypes, a, p
  <2>4. a # MapAt(p)
    BY <1>1, <1>2, <1>4, <2>2
  <2>5. a >= Boot(p) => baraddr'[h] = "bar2"
    BY <1>1, <1>2, <1>3, <2>1, <2>2, <2>3
  <2>6. fd'[h]
    BY <2>1, <2>3
  <2>7. a + 1 > MapAt(p) => window'[h] = "bar2"
    BY <1>1, <1>3, <2>1, <2>2, <2>3, <2>4
  <2> QED
    BY <1>1, <1>3, <2>2, <2>3, <2>5, <2>6, <2>7 DEF AskHost
<1>7. CASE CallFails(h)
  <2>1. /\ at'[h] = IF a <= Boot(p) THEN Boot(p) + 1 ELSE 0
        /\ fd'[h] = fd[h] /\ prog'[h] = p /\ stored'[h] = stored[h]
    BY <1>2, <1>7 DEF CallFails, Fail, StartTypes, a, p
  <2>2. a \in 1..Last(p)
    BY <1>2, <1>7 DEF CallFails, At, a
  <2>3. a <= Boot(p) => ~fd[h]
    <3>1. CASE a = 1
      BY <1>3, <3>1
    <3>2. CASE a \in 2..Boot(p)
      <4>1. Steps(h)[a] \in Ioctls
        BY <1>2, <3>2
      <4> QED
        BY <1>4, <1>7, <4>1 DEF CallFails, At, a
    <3> QED
      BY <1>1, <2>2, <3>1, <3>2
  <2> QED
    BY <1>1, <1>3, <2>1, <2>2, <2>3 DEF AskHost
<1>8. CASE Clear(h) \/ OpenMem(h) \/ Prompt(h)
  <2>1. /\ a \in 1..Last(p)
        /\ Steps(h)[a] \in {"rdata", "devmem", "prompt"}
    BY <1>2, <1>8 DEF Clear, OpenMem, Prompt, At, a
  <2>2. a > Boot(p) /\ a # MapAt(p) /\ a # Last(p)
    BY <1>1, <1>2, <1>4, <2>1
  <2>3. /\ at'[h] = a + 1 /\ fd'[h] = fd[h] /\ prog'[h] = p
        /\ window'[h] = window[h] /\ stored'[h] = stored[h]
        /\ baraddr'[h] = baraddr[h]
    BY <1>8 DEF Clear, OpenMem, Prompt, Advance, StartTypes, a, p
  <2> QED
    BY <1>1, <1>3, <2>1, <2>2, <2>3 DEF AskHost
<1>9. CASE Map(h)
  <2>1. a \in 1..Last(p) /\ Steps(h)[a] = "mmap"
    BY <1>2, <1>9 DEF Map, At, a
  <2>2. a = MapAt(p)
    BY <1>2, <2>1
  <2>3. prog[h] \notin Fixed
    BY DEF Asking, Fixed
  <2>4. /\ at'[h] = a + 1 /\ fd'[h] = fd[h] /\ prog'[h] = p
        /\ window'[h] = baraddr[h] /\ stored'[h] = stored[h]
        /\ baraddr'[h] = baraddr[h]
    BY <1>9, <2>3 DEF Map, Advance, StartTypes, a, p
  <2> QED
    BY <1>1, <1>3, <2>1, <2>2, <2>4 DEF AskHost
<1> QED
    BY <1>5, <1>6, <1>7, <1>8, <1>9 DEF Call

\* A call of mem.c or demo1.c.
LEMMA FixedCall ==
    ASSUME StartTypes, NEW h \in Hosts, FixedHost(h), prog[h] \in Fixed, Call(h)
    PROVE  FixedHost(h)'
<1> DEFINE p == prog[h]
           a == at[h]
<1>1. /\ Len(Steps(h)) = 2 /\ Len(InitSteps[p]) = 0
      /\ Steps(h)[1] = "devmem" /\ Steps(h)[2] = "mmap"
    BY FixedCalls, StepsAre
<1>2. {"open", "devmem", "mmap", "rdata", "prompt"} \intersect Ioctls = {}
    BY DEF Ioctls
<1>3. a \in Nat /\ stored[h] \in {"none", "fixed"}
    BY DEF StartTypes, FixedHost
<1> HIDE DEF p, a
<1>4. a \in {1, 2}
    BY <1>1 DEF Call, Open, Ioctl, CallFails, Clear, OpenMem, Map, Prompt, At, a
<1>5. CASE CallFails(h)
  <2>1. /\ at'[h] = IF a <= 0 THEN 1 ELSE 0
        /\ prog'[h] = p /\ stored'[h] = stored[h]
    BY <1>1, <1>5 DEF CallFails, Fail, StartTypes, a, p
  <2> QED
    BY <1>3, <1>4, <2>1 DEF FixedHost
<1>6. CASE OpenMem(h)
  <2>1. a = 1
    BY <1>1, <1>4, <1>6 DEF OpenMem, At, a
  <2>2. at'[h] = 2 /\ prog'[h] = p /\ stored'[h] = stored[h]
    BY <1>6, <2>1 DEF OpenMem, Advance, StartTypes, a, p
  <2> QED
    BY <1>3, <2>2 DEF FixedHost
<1>7. CASE Map(h)
  <2>1. a = 2
    BY <1>1, <1>4, <1>7 DEF Map, At, a
  <2>2. /\ at'[h] = 3 /\ prog'[h] = p /\ stored'[h] = stored[h]
        /\ window'[h] = "fixed"
    BY <1>7, <2>1 DEF Map, Advance, StartTypes, a, p
  <2> QED
    BY <1>3, <2>2 DEF FixedHost
<1>8. ~Open(h) /\ ~Ioctl(h) /\ ~Clear(h) /\ ~Prompt(h)
    BY <1>1, <1>2, <1>4 DEF Open, Ioctl, Clear, Prompt, At, a
<1> QED
    BY <1>5, <1>6, <1>7, <1>8 DEF Call

\* A call of user.c.
LEMMA UserCall ==
    ASSUME StartTypes, NEW h \in Hosts, UserHost(h), prog[h] = "user", Call(h)
    PROVE  UserHost(h)'
<1>1. Len(Steps(h)) = 6
    BY UserCalls, StepsAre DEF IsUser
<1>2. at[h] \in 1..6 /\ stored[h] = "none"
    BY <1>1 DEF Call, Open, Ioctl, CallFails, Clear, OpenMem, Map, Prompt, At,
                UserHost
<1>3. CASE CallFails(h)
  <2>1. Len(InitSteps[prog[h]]) = 0
    BY DEF InitSteps
  <2>2. at'[h] = 0 /\ stored'[h] = stored[h]
    BY <1>2, <1>3, <2>1 DEF CallFails, Fail, StartTypes
  <2> QED
    BY <1>2, <2>2 DEF UserHost
<1>4. CASE ~CallFails(h)
  <2>1. at'[h] = at[h] + 1 /\ stored'[h] = stored[h]
    BY <1>4 DEF Call, Open, Ioctl, Clear, OpenMem, Map, Prompt, Advance,
                StartTypes
  <2> QED
    BY <1>2, <2>1 DEF UserHost
<1> QED
    BY <1>3, <1>4

\* A step leaves the other host's program alone.
Untouched(x) ==
    /\ prog'[x] = prog[x] /\ at'[x] = at[x] /\ fd'[x] = fd[x]
    /\ baraddr'[x] = baraddr[x] /\ window'[x] = window[x]
    /\ stored'[x] = stored[x]

\* A call changes one host and no number.
LEMMA CallLocal ==
    ASSUME StartTypes, NEW h \in Hosts, Call(h)
    PROVE  /\ StartTypes' /\ UNCHANGED vars /\ UNCHANGED prog
           /\ stored'[h] = stored[h]
           /\ \A x \in Hosts : x # h => Untouched(x)
<1>1. CASE Open(h)
    BY <1>1 DEF Open, Advance, StartTypes, Untouched, vars
<1>2. CASE Ioctl(h)
    BY <1>2 DEF Ioctl, Advance, StartTypes, Untouched, vars
<1>3. CASE CallFails(h)
  <2>1. /\ at' = [at EXCEPT ![h] = IF @ <= Len(InitSteps[prog[h]])
                                     THEN Len(InitSteps[prog[h]]) + 1 ELSE 0]
        /\ UNCHANGED <<prog, bound, fd, baraddr, window, stored, vars>>
    BY <1>3 DEF CallFails, Fail
  <2>2. Len(InitSteps[prog[h]]) \in Nat
    <3>1. \A p \in Programs : InitSteps[p] \in
            {PingPongInit, RmemInit, <<>>}
      BY DEF InitSteps, Programs
    <3>2. Len(PingPongInit) = 8 /\ Len(RmemInit) = 3 /\ Len(<<>>) = 0
      BY DEF PingPongInit, RmemInit
    <3> QED
      BY <3>1, <3>2 DEF StartTypes
  <2> QED
    BY <2>1, <2>2 DEF StartTypes, Untouched, vars
<1>4. CASE Clear(h) \/ OpenMem(h) \/ Prompt(h)
    BY <1>4 DEF Clear, OpenMem, Prompt, Advance, StartTypes, Untouched, vars
<1>5. CASE Map(h)
    BY <1>5 DEF Map, Advance, StartTypes, Untouched, vars
<1> QED
    BY <1>1, <1>2, <1>3, <1>4, <1>5 DEF Call

\* What a step leaves alone stays right.
LEMMA UntouchedOK ==
    ASSUME NEW x, Untouched(x)
    PROVE  /\ AskHost(x) => AskHost(x)'
           /\ FixedHost(x) => FixedHost(x)'
           /\ UserHost(x) => UserHost(x)'
           /\ Known(x) <=> Known(x)'
    BY DEF Untouched, AskHost, FixedHost, UserHost, Known

\* A call keeps all hosts right.
LEMMA CallHosts ==
    ASSUME StartTypes, HostsOK, NEW h \in Hosts, Call(h)
    PROVE  HostsOK'
<1> SUFFICES ASSUME NEW x \in Hosts
             PROVE  AskHost(x)' /\ FixedHost(x)' /\ UserHost(x)'
    BY DEF HostsOK
<1>1. CASE x # h
    BY <1>1, CallLocal, UntouchedOK DEF HostsOK
<1>2. CASE x = h
  <2>1. UNCHANGED prog /\ stored'[h] = stored[h]
    BY CallLocal
  <2>2. AskHost(h)'
    <3>1. CASE prog[h] \in Asking
      BY <3>1, AskCall DEF HostsOK
    <3>2. CASE prog[h] \notin Asking
      BY <2>1, <3>2 DEF AskHost
    <3> QED
      BY <3>1, <3>2
  <2>3. FixedHost(h)'
    <3>1. CASE prog[h] \in Fixed
      BY <3>1, FixedCall DEF HostsOK
    <3>2. CASE prog[h] \notin Fixed
      BY <2>1, <3>2 DEF FixedHost
    <3> QED
      BY <3>1, <3>2
  <2>4. UserHost(h)'
    <3>1. CASE prog[h] = "user"
      BY <3>1, UserCall DEF HostsOK
    <3>2. CASE prog[h] # "user"
      BY <2>1, <3>2 DEF UserHost
    <3> QED
      BY <3>1, <3>2
  <2> QED
    BY <1>2, <2>2, <2>3, <2>4
<1> QED
    BY <1>1, <1>2

\* A host that is known has rdata behind it, and its calls succeed.
LEMMA KnownCall ==
    ASSUME StartTypes, NEW h \in Hosts, Known(h)
    PROVE  Past(h, "rdata") /\ (Call(h) => Known(h)')
<1>1. IsPingPong(Steps(h)) /\ at[h] \in Nat /\ at[h] >= 12
    BY PingPongCalls, StepsAre DEF Known, StartTypes
<1>2. Past(h, "rdata")
  <2>1. 9 \in 1..(at[h] - 1) /\ Steps(h)[9] = "rdata"
    BY <1>1 DEF IsPingPong
  <2> QED
    BY <2>1 DEF Past
<1>3. ASSUME Call(h) PROVE Known(h)'
  <2>1. at[h] \in 1..13
    BY <1>1, <1>3 DEF IsPingPong, Call, Open, Ioctl, CallFails, Clear, OpenMem,
                      Map, Prompt, At
  <2>2. Steps(h)[at[h]] \in {"prompt", "SETMEM0PADDR"}
    BY <1>1, <2>1 DEF IsPingPong
  <2>3. fd[h] /\ fd[h] \in BOOLEAN /\ prog[h] = "pingpong"
    BY DEF Known, StartTypes
  <2>4. CASE Ioctl(h)
    <3>1. at'[h] = at[h] + 1 /\ fd'[h] = fd[h] /\ prog'[h] = prog[h]
      BY <2>4 DEF Ioctl, Advance, StartTypes
    <3> QED
      BY <1>1, <2>3, <3>1 DEF Known
  <2>5. CASE Prompt(h)
    <3>1. at'[h] = at[h] + 1 /\ fd'[h] = fd[h] /\ prog'[h] = prog[h]
      BY <2>5 DEF Prompt, Advance, StartTypes
    <3> QED
      BY <1>1, <2>3, <3>1 DEF Known
  <2>6. ~Open(h) /\ ~Clear(h) /\ ~OpenMem(h) /\ ~Map(h)
    BY <2>2 DEF Open, Clear, OpenMem, Map, At
  <2>7. ~CallFails(h)
    <3>1. "prompt" \notin Ioctls
      BY DEF Ioctls
    <3> QED
      BY <2>2, <2>3, <3>1 DEF CallFails, At
  <2> QED
    BY <1>3, <2>4, <2>5, <2>6, <2>7 DEF Call
<1> QED
    BY <1>2, <1>3

\* A call keeps Reach: a prompt is answered with the address of a host that
\* is known.
LEMMA CallReach ==
    ASSUME StartTypes, HostsOK, Reach, NEW h \in Hosts, Call(h)
    PROVE  Reach'
<1>1. /\ StartTypes' /\ UNCHANGED vars /\ UNCHANGED prog
      /\ \A x \in Hosts : x # h => Untouched(x)
    BY CallLocal
<1>2. ASSUME NEW x \in Hosts, Known(x) PROVE Known(x)'
    BY <1>1, <1>2, KnownCall, UntouchedOK
<1>3. Other(h) \in Hosts /\ Other(h) # h /\ \A x \in Hosts : Other(x) \in Hosts
    BY DEF Other, Hosts
<1>4. ASSUME prog[h] = "pingpong", at'[h] >= 13 PROVE Known(Other(h))
  <2>1. CASE at[h] >= 13
    BY <1>4, <2>1 DEF Reach
  <2>2. CASE at[h] < 13
    <3>1. IsPingPong(Steps(h)) /\ Len(InitSteps[prog[h]]) = 8 /\ at[h] \in Nat
      BY <1>4, PingPongCalls, StepsAre DEF StartTypes
    <3>2. ~CallFails(h)
      BY <1>4, <3>1 DEF CallFails, Fail, StartTypes
    <3>3. at'[h] = at[h] + 1 /\ at[h] \in 1..13
      BY <3>1, <3>2 DEF Call, Open, Ioctl, Clear, OpenMem, Map, Prompt,
                        Advance, StartTypes, At, IsPingPong
    <3>4. at[h] = 12
      BY <1>4, <2>2, <3>3
    <3>5. Steps(h)[at[h]] = "prompt" /\ "prompt" \notin Ioctls
      BY <3>1, <3>4 DEF IsPingPong, Ioctls
    <3>6. Prompt(h)
      BY <3>2, <3>5 DEF Call, Open, Ioctl, Clear, OpenMem, Map, At
    <3>7. /\ fd[Other(h)]
          /\ At(Other(h), "prompt") \/ Past(Other(h), "prompt")
      BY <3>6 DEF Prompt
    <3> DEFINE o == Other(h)
    <3>8. prog[o] \in Programs /\ at[o] \in Nat
      BY <1>3 DEF StartTypes
    <3> HIDE DEF o
    <3>9. CASE At(o, "prompt")
      <4>1. /\ at[o] \in 1..Len(Script(prog[o]))
            /\ Script(prog[o])[at[o]] = "prompt"
        BY <3>9, StepsAre DEF At
      <4>2. prog[o] = "pingpong" /\ at[o] = 12
        BY <3>8, <4>1, PromptCall
      <4> QED
        BY <3>7, <4>2 DEF Known, o
    <3>10. CASE Past(o, "prompt")
      <4>1. PICK i \in 1..(at[o] - 1) : Script(prog[o])[i] = "prompt"
        BY <3>10, StepsAre DEF Past
      <4>2. at[o] <= Len(Script(prog[o])) + 1
        <5>1. CASE prog[o] \in Asking
          <6>1. AskHost(o)
            BY <1>3 DEF HostsOK, o
          <6>2. at[o] \in 0..(Last(prog[o]) + 1)
            BY <5>1, <6>1 DEF AskHost
          <6>3. Len(Script(prog[o])) = Last(prog[o]) /\ Last(prog[o]) \in Nat
            BY <5>1, AskingCalls, Order
          <6> QED
            BY <6>2, <6>3
        <5>2. CASE prog[o] \in Fixed
          <6>1. FixedHost(o)
            BY <1>3 DEF HostsOK, o
          <6>2. at[o] \in 0..3
            BY <5>2, <6>1 DEF FixedHost
          <6> QED
            BY <5>2, <6>2, FixedCalls
        <5>3. CASE prog[o] = "user"
          <6>1. UserHost(o)
            BY <1>3 DEF HostsOK, o
          <6>2. at[o] \in 0..7
            BY <5>3, <6>1 DEF UserHost
          <6>3. Len(Script(prog[o])) = 6
            BY <5>3, UserCalls DEF IsUser
          <6> QED
            BY <6>2, <6>3
        <5> QED
          BY <3>8, <5>1, <5>2, <5>3 DEF Programs, Asking, Fixed
      <4>3. i \in 1..Len(Script(prog[o]))
        BY <3>8, <4>1, <4>2
      <4>4. prog[o] = "pingpong" /\ i = 12
        BY <3>8, <4>1, <4>3, PromptCall
      <4> QED
        BY <3>7, <3>8, <4>1, <4>4 DEF Known, o
    <3> QED
      BY <3>7, <3>9, <3>10 DEF o
  <2> QED
    BY <2>1, <2>2 DEF StartTypes
<1>5. ASSUME NEW x \in Hosts, prog'[x] = "pingpong", at'[x] >= 13
      PROVE  Known(Other(x))
  <2>1. CASE x = h
    BY <1>1, <1>4, <1>5, <2>1
  <2>2. CASE x # h
    BY <1>1, <1>5, <2>2 DEF Untouched, Reach
  <2> QED
    BY <2>1, <2>2
<1>6. UNCHANGED net
    BY <1>1 DEF vars
<1> QED
    BY <1>2, <1>3, <1>5, <1>6 DEF Reach

\* A step of a started pingpong program is one of PingPong and keeps the
\* invariant: its window is BAR2, and the host it sends to is known.
LEMMA PlayStep ==
    ASSUME StartInv, NEW h \in Hosts, Play(h)
    PROVE  StartInv' /\ Next
<1>1. /\ prog[h] = "pingpong" /\ UNCHANGED <<prog, at, fd, baraddr, window>>
      /\ Program(h) \/ (h = "s" /\ (Wait \/ Stop))
      /\ stored' = [stored EXCEPT ![h] = IF pc[h] = "send" THEN window[h]
                                         ELSE @]
    BY DEF Play
<1>2. Next
    BY <1>1 DEF Next
<1>3. at[h] = 14
  <2>1. Len(Steps(h)) = 13
    BY <1>1, PingPongCalls, StepsAre DEF IsPingPong
  <2> QED
    BY <2>1 DEF Play, Started
<1>4. window[h] = "bar2" /\ stored[h] \in {"none", "bar2"}
  <2>1. AskHost(h) /\ prog[h] \in Asking
    BY <1>1 DEF StartInv, HostsOK, Asking
  <2>2. Boot(prog[h]) = 8 /\ MapAt(prog[h]) = 11 /\ Last(prog[h]) = 13
    BY <1>1 DEF Boot, MapAt, Last
  <2> QED
    BY <1>3, <2>1, <2>2 DEF AskHost
<1>5. Other(h) \in Hosts /\ Other(h) # h
    BY DEF Other, Hosts
<1>6. /\ DOMAIN net' = Hosts
      /\ \A x \in Hosts : x # Other(h) => net'[x] = net[x]
  <2>1. CASE UNCHANGED net
    BY <2>1 DEF StartInv, StartTypes
  <2>2. CASE Send(h)
    BY <2>2 DEF Send, StartInv, StartTypes
  <2> QED
    BY <1>1, <2>1, <2>2 DEF Program, Loop, Spin, Wait, Stop
<1>7. StartTypes'
    BY <1>1, <1>6 DEF StartInv, StartTypes
<1>8. /\ stored'[h] \in {"none", "bar2"}
      /\ \A x \in Hosts : x # h => stored'[x] = stored[x]
    BY <1>1, <1>4 DEF StartInv, StartTypes
<1>9. ASSUME NEW x \in Hosts
      PROVE  AskHost(x)' /\ FixedHost(x)' /\ UserHost(x)'
  <2>1. CASE x # h
    <3>1. Untouched(x)
      BY <1>1, <1>8, <2>1 DEF Untouched
    <3> QED
      BY <3>1, UntouchedOK DEF StartInv, HostsOK
  <2>2. CASE x = h
    <3>1. AskHost(h)
      BY DEF StartInv, HostsOK
    <3>2. AskHost(h)'
      BY <1>1, <1>8, <3>1 DEF AskHost
    <3>3. FixedHost(h)' /\ UserHost(h)'
      BY <1>1 DEF FixedHost, UserHost, Fixed
    <3> QED
      BY <2>2, <3>2, <3>3
  <2> QED
    BY <2>1, <2>2
<1>10. \A x \in Hosts : Known(x) <=> Known(x)'
    BY <1>1 DEF Known
<1>11. Reach'
  <2>1. ASSUME NEW x \in Hosts, net'[x] # <<>> PROVE Known(x)
    <3>1. CASE x = Other(h)
      BY <1>1, <1>3, <3>1 DEF StartInv, Reach
    <3>2. CASE x # Other(h)
      BY <1>6, <2>1, <3>2 DEF StartInv, Reach
    <3> QED
      BY <3>1, <3>2
  <2>2. ASSUME NEW x \in Hosts, prog'[x] = "pingpong", at'[x] >= 13
        PROVE  Known(Other(x))
    BY <1>1, <2>2 DEF StartInv, Reach
  <2>3. \A x \in Hosts : Other(x) \in Hosts
    BY DEF Other, Hosts
  <2> QED
    BY <1>10, <2>1, <2>2, <2>3 DEF Reach
<1> QED
    BY <1>2, <1>7, <1>9, <1>11 DEF StartInv, HostsOK

\* A store of one of the other programs.
LEMMA StoreStep ==
    ASSUME StartInv, NEW h \in Hosts, Store(h)
    PROVE  StartInv' /\ UNCHANGED vars
<1>1. PICK ends \in BOOLEAN :
        prog[h] \in {"rmem", "mem", "demo1"} /\ StoreOnce(h, ends)
    BY DEF Store, RmemStore, MemStore, Demo1Store
<1>2. /\ UNCHANGED <<prog, fd, baraddr, window, vars>> /\ Started(h)
      /\ stored' = [stored EXCEPT ![h] = window[h]]
      /\ at' = [at EXCEPT ![h] = IF ends THEN 0 ELSE @]
    BY <1>1 DEF StoreOnce
<1>3. StartTypes'
    BY <1>2 DEF StartInv, StartTypes, vars
<1>4. /\ at'[h] \in {0, at[h]} /\ stored'[h] = window[h]
      /\ \A x \in Hosts : x # h => Untouched(x)
    BY <1>2 DEF StartInv, StartTypes, Untouched
<1>5. AskHost(h)'
  <2>1. CASE prog[h] = "rmem"
    <3>1. AskHost(h) /\ prog[h] \in Asking
      BY <2>1 DEF StartInv, HostsOK, Asking
    <3>2. Boot(prog[h]) = 3 /\ MapAt(prog[h]) = 5 /\ Last(prog[h]) = 6
      BY <2>1 DEF Boot, MapAt, Last
    <3>3. at[h] = 7
      <4>1. Len(Steps(h)) = 6
        BY <2>1, RmemCalls, StepsAre DEF IsRmem
      <4> QED
        BY <1>2, <4>1 DEF Started
    <3>4. window[h] = "bar2"
      BY <3>1, <3>2, <3>3 DEF AskHost
    <3> QED
      BY <1>2, <1>4, <3>1, <3>2, <3>3, <3>4 DEF AskHost
  <2>2. CASE prog[h] # "rmem"
    BY <1>1, <1>2, <2>2 DEF AskHost, Asking
  <2> QED
    BY <2>1, <2>2
<1>6. FixedHost(h)'
  <2>1. CASE prog[h] \in Fixed
    <3>1. FixedHost(h)
      BY DEF StartInv, HostsOK
    <3>2. at[h] = 3
      <4>1. Len(Steps(h)) = 2
        BY <2>1, FixedCalls, StepsAre
      <4> QED
        BY <1>2, <4>1 DEF Started
    <3> QED
      BY <1>2, <1>4, <2>1, <3>1, <3>2 DEF FixedHost
  <2>2. CASE prog[h] \notin Fixed
    BY <1>2, <2>2 DEF FixedHost
  <2> QED
    BY <2>1, <2>2
<1>7. UserHost(h)'
    BY <1>1, <1>2 DEF UserHost
<1>8. HostsOK'
    BY <1>4, <1>5, <1>6, <1>7, UntouchedOK DEF StartInv, HostsOK
<1>9. ASSUME NEW x \in Hosts PROVE Known(x) <=> Known(x)'
  <2>1. CASE x = h
    BY <1>1, <1>2, <2>1 DEF Known
  <2>2. CASE x # h
    BY <1>4, <2>2, UntouchedOK
  <2> QED
    BY <2>1, <2>2
<1>10. Reach'
  <2>1. UNCHANGED net
    BY <1>2 DEF vars
  <2>2. ASSUME NEW x \in Hosts, prog'[x] = "pingpong", at'[x] >= 13
        PROVE  Known(Other(x))
    <3>1. x # h
      BY <1>1, <1>2, <2>2
    <3> QED
      BY <1>4, <2>2, <3>1 DEF StartInv, Reach, Untouched
  <2>3. \A x \in Hosts : Other(x) \in Hosts
    BY DEF Other, Hosts
  <2> QED
    BY <1>9, <2>1, <2>2, <2>3 DEF StartInv, Reach
<1> QED
    BY <1>2, <1>3, <1>8, <1>10 DEF StartInv

\* A number that leaves the network: it never comes before rdata = -1.
LEMMA ArriveStep ==
    ASSUME StartInv, NEW h \in Hosts, Arrive(h) \/ Drop(h)
    PROVE  StartInv' /\ Next
<1>1. net[h] # <<>>
    BY DEF Arrive, Drop, Deliver, Lose
<1>2. Past(h, "rdata")
    BY <1>1, KnownCall DEF StartInv, Reach
<1>3. Deliver(h) \/ Lose(h)
    BY <1>2 DEF Arrive, Drop
<1>4. net' = [net EXCEPT ![h] = Tail(@)] /\ UNCHANGED startVars
    BY <1>3 DEF Arrive, Drop, Deliver, Lose
<1>5. StartTypes'
    BY <1>4 DEF StartInv, StartTypes, startVars
<1>6. \A x \in Hosts : Untouched(x)
    BY <1>4 DEF Untouched, startVars
<1>7. HostsOK'
    BY <1>6, UntouchedOK DEF StartInv, HostsOK
<1>8. \A x \in Hosts : net'[x] # <<>> => net[x] # <<>>
    BY <1>1, <1>4 DEF StartInv, StartTypes
<1>9. UNCHANGED <<prog, at>> /\ \A x \in Hosts : Other(x) \in Hosts
    BY <1>4 DEF startVars, Other, Hosts
<1>10. Reach'
    BY <1>6, <1>8, <1>9, UntouchedOK DEF StartInv, Reach
<1> QED
    BY <1>3, <1>5, <1>7, <1>10 DEF StartInv, Next

\* Every step keeps the invariant and is a step of PingPong, or none.
LEMMA StartStep == StartInv /\ [StartNext]_allVars => StartInv' /\ [Next]_vars
<1> SUFFICES ASSUME StartInv, [StartNext]_allVars
             PROVE  StartInv' /\ [Next]_vars
    OBVIOUS
<1>1. ASSUME UNCHANGED <<startVars, vars>> PROVE StartInv'
  <2>1. UNCHANGED <<prog, at, fd, baraddr, window, stored, net>>
    BY <1>1 DEF startVars, vars
  <2>2. StartTypes'
    BY <2>1 DEF StartInv, StartTypes
  <2>3. \A x \in Hosts : Untouched(x)
    BY <2>1 DEF Untouched
  <2>4. HostsOK'
    BY <2>3, UntouchedOK DEF StartInv, HostsOK
  <2>5. Reach'
    BY <2>1 DEF StartInv, Reach, Known
  <2> QED
    BY <2>2, <2>4, <2>5 DEF StartInv
<1>2. ASSUME NEW h \in Hosts, BindDriver(h)
      PROVE  StartInv' /\ UNCHANGED vars
  <2>1. UNCHANGED <<prog, at, fd, baraddr, window, stored, vars>>
    BY <1>2 DEF BindDriver
  <2>2. UNCHANGED net
    BY <2>1 DEF vars
  <2>3. StartTypes'
    BY <2>1, <2>2 DEF StartInv, StartTypes
  <2>4. \A x \in Hosts : Untouched(x)
    BY <2>1 DEF Untouched
  <2>5. HostsOK'
    BY <2>4, UntouchedOK DEF StartInv, HostsOK
  <2>6. Reach'
    BY <2>1, <2>2 DEF StartInv, Reach, Known
  <2> QED
    BY <2>1, <2>3, <2>5, <2>6 DEF StartInv
<1>3. ASSUME NEW h \in Hosts, Call(h) PROVE StartInv' /\ UNCHANGED vars
    BY <1>3, CallLocal, CallHosts, CallReach DEF StartInv
<1> QED
    BY <1>1, <1>2, <1>3, PlayStep, StoreStep, ArriveStep
       DEF StartNext, allVars

\* StartInv holds from the start of the programs on.
LEMMA StartInvariant == StartSpec => []StartInv
    BY StartInitInv, StartStep, PTL DEF StartSpec

-----------------------------------------------------------------------------
(***************************************************************************)
(* No program that asks the driver stores anywhere but through BAR2,       *)
(* although main ignores the result of init_numa.                          *)
(***************************************************************************)
THEOREM StoresGoThroughBar == StartSpec => []StoresThroughBar
<1>1. StartInv => StoresThroughBar
  <2> SUFFICES ASSUME StartInv, NEW h \in Hosts
               PROVE  stored[h] \in {"none", IF prog[h] \in Fixed THEN "fixed"
                                             ELSE "bar2"}
    BY DEF StoresThroughBar
  <2>1. /\ AskHost(h) /\ FixedHost(h) /\ UserHost(h)
        /\ prog[h] \in Programs
    BY DEF StartInv, HostsOK, StartTypes
  <2> QED
    BY <2>1 DEF AskHost, FixedHost, UserHost, Programs, Asking, Fixed
<1> QED
    BY <1>1, StartInvariant, PTL

(***************************************************************************)
(* However the two sides start, they implement PingPong: every number that *)
(* arrives comes after rdata = -1.                                         *)
(***************************************************************************)
THEOREM StartImplementsPingPong == StartSpec => StartsExchange
<1>1. StartInit => Init
    BY DEF StartInit
<1> QED
    BY <1>1, StartInvariant, StartStep, PTL DEF StartSpec, StartsExchange

\* Its inductive invariant holds from the start on.
LEMMA StartPingPongInv == StartSpec => []Inv
    BY InitInv, NextInv, StartImplementsPingPong, PTL DEF StartsExchange

\* So what PingPong promises holds from the programs' start on: no number is
\* overwritten before it is used,
THEOREM StartOverrunFree == StartSpec => []NoOverrun
    BY StartPingPongInv, InvNoOverrun, PTL

\* and the two sides exchange numbers in turn.
THEOREM StartImplementsExchange == StartSpec => Exchanges
    BY ExchangeInit, ExchangeStep, StartPingPongInv, StartImplementsPingPong,
       PTL DEF StartsExchange, Exchanges, Numbering!Spec

=============================================================================
