------------------------------ MODULE NumaStart ------------------------------
(***************************************************************************)
(* How the programs that use remote memory start, and the exchange of      *)
(* PingPong that ipnuma_pingpong.c goes into then.  A program opens        *)
(* /dev/ipnuma/0, asks the driver for what it needs, maps physical memory  *)
(* through /dev/mem and stores into it.  Any of these calls may fail, and  *)
(* the two sides start at any time: one may be storing while the other is  *)
(* still at its prompt.                                                    *)
(*                                                                         *)
(* The address of rdata is carried by hand from the line "local physical   *)
(* address" of one side to the prompt of the other; nobody types one from  *)
(* a side that has complained that it cannot open the device.              *)
(***************************************************************************)
EXTENDS PingPong

CONSTANT
    Pairings    \* which program runs on which host

(***************************************************************************)
(* pingpong/ipnuma_pingpong.c, driver/user.c and, of kc705_test, rmem.c,   *)
(* mem.c and demo1.c.  InitSteps are the calls of init_numa, whose result  *)
(* is ignored; a call of MainSteps that fails ends the program.            *)
(***************************************************************************)
PingPongInit == <<"open", "GETPADDR", "SETIFV4ADDR", "SETIFMACADDR",
                  "SETDESTV4ADDR", "SETDESTMACADDR", "GETMEM0PADDR",
                  "GETBARADDR">>

RmemInit == <<"open", "GETIFV4ADDR", "GETBARADDR">>

InitSteps == [pingpong |-> PingPongInit, rmem |-> RmemInit,
              user |-> <<>>, mem |-> <<>>, demo1 |-> <<>>]

\* Faulty: rdata is set to -1 after the other side's address was read.
PingPongMainLate == <<"devmem", "mmap", "prompt", "rdata", "SETMEM0PADDR">>

PingPongMain == <<"rdata", "devmem", "mmap", "prompt", "SETMEM0PADDR">>

\* Faulty: the program goes straight on to its stores.
RmemMainNoIoctl == <<"devmem", "mmap">>

RmemMain == <<"devmem", "mmap", "SETIFV4ADDR">>

UserMain == <<"open", "GETPADDR", "GETIFV4ADDR", "GETIFMACADDR",
              "GETMEM0PADDR", "GETBARADDR">>

MemMain == <<"devmem", "mmap">>

Demo1Main == <<"devmem", "mmap">>

MainSteps == [pingpong |-> PingPongMain, rmem |-> RmemMain,
              user |-> UserMain, mem |-> MemMain, demo1 |-> Demo1Main]

\* The programs that map an address of their own, 0x80000000.
Fixed == {"mem", "demo1"}

ASSUME PairingsAssumption == Pairings \subseteq [Hosts -> DOMAIN MainSteps]

VARIABLES
    prog,       \* host -> the program it runs
    at,         \* host -> its next step, 0 when it has ended
    bound,      \* host -> the driver is bound: /dev/ipnuma/0 exists
    fd,         \* host -> numa_fd is open
    baraddr,    \* host -> baraddr: "zero" or "bar2"
    window,     \* host -> what mmapped shows, "none" before mmap
    stored      \* host -> where its last store went

startVars == <<prog, at, bound, fd, baraddr, window, stored>>
allVars   == <<startVars, vars>>

Steps(h)   == InitSteps[prog[h]] \o MainSteps[prog[h]]
Started(h) == at[h] = Len(Steps(h)) + 1
At(h, s)   == at[h] \in 1..Len(Steps(h)) /\ Steps(h)[at[h]] = s

\* h has executed s.
Past(h, s) == \E i \in 1..(at[h] - 1) : Steps(h)[i] = s

StartInit ==
    /\ Init
    /\ prog \in Pairings
    /\ at = [h \in Hosts |-> 1]
    /\ bound \in [Hosts -> BOOLEAN]
    /\ fd = [h \in Hosts |-> FALSE]
    /\ baraddr = [h \in Hosts |-> "zero"]
    /\ window = [h \in Hosts |-> "none"]
    /\ stored = [h \in Hosts |-> "none"]

\* The driver is loaded, or finds its board, while a program runs.
BindDriver(h) ==
    /\ ~bound[h]
    /\ bound' = [bound EXCEPT ![h] = TRUE]
    /\ UNCHANGED <<prog, at, fd, baraddr, window, stored, vars>>

Advance(h) == at' = [at EXCEPT ![h] = @ + 1]

\* Leaves init_numa, or the program.
Fail(h) ==
    /\ at' = [at EXCEPT ![h] = IF @ <= Len(InitSteps[prog[h]])
                                 THEN Len(InitSteps[prog[h]]) + 1 ELSE 0]
    /\ UNCHANGED <<prog, bound, fd, baraddr, window, stored, vars>>

Open(h) ==
    /\ At(h, "open") /\ bound[h]
    /\ fd' = [fd EXCEPT ![h] = TRUE]
    /\ Advance(h)
    /\ UNCHANGED <<prog, bound, baraddr, window, stored, vars>>

\* The driver knows all the commands: an ioctl fails only without a file.
Ioctls == {"GETPADDR", "SETIFV4ADDR", "SETIFMACADDR", "SETDESTV4ADDR",
           "SETDESTMACADDR", "GETIFV4ADDR", "GETIFMACADDR", "GETMEM0PADDR",
           "GETBARADDR", "SETMEM0PADDR"}

Ioctl(h) ==
    /\ \E s \in Ioctls :
         /\ At(h, s) /\ fd[h]
         /\ baraddr' = [baraddr EXCEPT ![h] =
                          IF s = "GETBARADDR" THEN "bar2" ELSE @]
    /\ Advance(h)
    /\ UNCHANGED <<prog, bound, fd, window, stored, vars>>

CallFails(h) ==
    \/ At(h, "open") /\ ~bound[h] /\ Fail(h)
    \/ (\E s \in Ioctls : At(h, s) /\ ~fd[h]) /\ Fail(h)
    \/ (At(h, "devmem") \/ At(h, "mmap")) /\ Fail(h)

\* rdata = -1: whatever was there before is gone.  PingPong has the -1 from
\* the start.
Clear(h) ==
    /\ At(h, "rdata")
    /\ Advance(h)
    /\ UNCHANGED <<prog, bound, fd, baraddr, window, stored, vars>>

OpenMem(h) ==
    /\ At(h, "devmem")
    /\ Advance(h)
    /\ UNCHANGED <<prog, bound, fd, baraddr, window, stored, vars>>

Map(h) ==
    /\ At(h, "mmap")
    /\ window' = [window EXCEPT ![h] = IF prog[h] \in Fixed THEN "fixed"
                                       ELSE baraddr[h]]
    /\ Advance(h)
    /\ UNCHANGED <<prog, bound, fd, baraddr, stored, vars>>

\* Faulty: scanf does not wait for the other side.
PromptNoWait(h) ==
    /\ At(h, "prompt")
    /\ Advance(h)
    /\ UNCHANGED <<prog, bound, fd, baraddr, window, stored, vars>>

\* The other side's address is typed, once that side has printed it.
Prompt(h) ==
    /\ At(h, "prompt")
    /\ fd[Other(h)] /\ (At(Other(h), "prompt") \/ Past(Other(h), "prompt"))
    /\ Advance(h)
    /\ UNCHANGED <<prog, bound, fd, baraddr, window, stored, vars>>

Call(h) == \/ Open(h) \/ Ioctl(h) \/ CallFails(h) \/ Clear(h) \/ OpenMem(h)
           \/ Map(h) \/ Prompt(h)

\* The loops of the started programs.
Play(h) ==
    /\ Started(h) /\ prog[h] = "pingpong"
    /\ Program(h) \/ (h = "s" /\ (Wait \/ Stop))
    /\ stored' = [stored EXCEPT ![h] = IF pc[h] = "send" THEN window[h] ELSE @]
    /\ UNCHANGED <<prog, at, bound, fd, baraddr, window>>

\* rmem.c stores for ever, mem.c once, demo1.c again and again until it
\* has counted to 1000.
StoreOnce(h, ends) ==
    /\ Started(h)
    /\ stored' = [stored EXCEPT ![h] = window[h]]
    /\ at' = [at EXCEPT ![h] = IF ends THEN 0 ELSE @]
    /\ UNCHANGED <<prog, bound, fd, baraddr, window, vars>>

RmemStore(h)  == prog[h] = "rmem" /\ StoreOnce(h, FALSE)
MemStore(h)   == prog[h] = "mem" /\ StoreOnce(h, TRUE)
Demo1Store(h) == prog[h] = "demo1" /\ \E ends \in BOOLEAN : StoreOnce(h, ends)
Store(h)      == RmemStore(h) \/ MemStore(h) \/ Demo1Store(h)

\* A write that comes before rdata = -1 leaves no trace.
Arrive(h) ==
    /\ IF Past(h, "rdata") THEN Deliver(h)
       ELSE /\ net[h] # <<>>
            /\ net' = [net EXCEPT ![h] = Tail(@)]
            /\ UNCHANGED <<pc, rdata, rdata2, sdata, lost>>
    /\ UNCHANGED startVars

Drop(h) == Lose(h) /\ UNCHANGED startVars

StartNext ==
    \E h \in Hosts : \/ BindDriver(h) \/ Call(h) \/ Play(h) \/ Store(h)
                     \/ Arrive(h) \/ Drop(h)

\* The programs run; nobody has to load a driver.
StartSpec ==
    /\ StartInit /\ [][StartNext]_allVars
    /\ \A h \in Hosts : /\ WF_allVars(Call(h)) /\ WF_allVars(Play(h))
                        /\ WF_allVars(Arrive(h) \/ Drop(h))

-----------------------------------------------------------------------------
(***************************************************************************)
(* Properties.                                                             *)
(***************************************************************************)

(***************************************************************************)
(* Although main ignores that init_numa failed, and then maps physical     *)
(* address 0, no store of a program that asks the driver goes anywhere but *)
(* through BAR2: the ioctl after the mmap fails as well and ends it.       *)
(***************************************************************************)
StoresThroughBar ==
    \A h \in Hosts : stored[h] \in {"none", IF prog[h] \in Fixed THEN "fixed"
                                            ELSE "bar2"}

(***************************************************************************)
(* However the two sides start, their exchange is one of PingPong: no      *)
(* number arrives before the other side has set rdata to -1, which would   *)
(* wipe it out.                                                            *)
(***************************************************************************)
StartsExchange == Init /\ [][Next]_vars

\* Once both sides have started, the server comes to its end, unless a frame
\* is lost: neither side waits for a number that was already there.
StartedFinish ==
    (\A h \in Hosts : Started(h) /\ prog[h] = "pingpong")
      ~> (pc["s"] = "done" \/ lost)

=============================================================================
