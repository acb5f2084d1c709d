------------------------------ MODULE PingPong -------------------------------
(***************************************************************************)
(* The two programs of software/pingpong/ipnuma_pingpong.c.  Each stores a *)
(* number through BAR2, which the cards turn into a write to rdata in the  *)
(* other host's memory, and spins until its own rdata has changed.  The    *)
(* model starts when both sides know each other's address: rdata was set   *)
(* to -1 before the address was printed.                                   *)
(*                                                                         *)
(* Between the hosts the cards and the network deliver writes in order; a  *)
(* frame may disappear, as nothing acknowledges it.                        *)
(***************************************************************************)
EXTENDS Integers, Sequences

CONSTANT
    Limit       \* rounds until the server stops (2000000 in the code)

ASSUME LimitAssumption == Limit \in Nat

VARIABLES
    pc,         \* host -> where its program is
    rdata,      \* host -> rdata, written by the other side
    rdata2,     \* host -> rdata2
    sdata,      \* host -> sdata
    net,        \* host -> writes on their way to it
    lost        \* a frame was lost

vars == <<pc, rdata, rdata2, sdata, net, lost>>

Hosts == {"s", "c"}
Other(h) == IF h = "s" THEN "c" ELSE "s"

Init ==
    /\ pc = [h \in Hosts |-> IF h = "s" THEN "wait" ELSE "loop"]
    /\ rdata = [h \in Hosts |-> -1]
    /\ rdata2 = [h \in Hosts |-> -1]
    /\ sdata = [h \in Hosts |-> 0]
    /\ net = [h \in Hosts |-> <<>>]
    /\ lost = FALSE

Goto(h, label) == pc' = [pc EXCEPT ![h] = label]

\* The server waits for the first number.
Wait ==
    /\ pc["s"] = "wait" /\ rdata["s"] >= 0
    /\ Goto("s", "loop")
    /\ UNCHANGED <<rdata, rdata2, sdata, net, lost>>

\* while (rdata < 2000000), in the server; the client loops for ever.
Stop ==
    /\ pc["s"] = "loop" /\ rdata["s"] >= Limit
    /\ Goto("s", "done")
    /\ UNCHANGED <<rdata, rdata2, sdata, net, lost>>

Loop(h) ==
    /\ pc[h] = "loop" /\ (h = "s" => rdata["s"] < Limit)
    /\ rdata2' = [rdata2 EXCEPT ![h] = rdata[h]]
    /\ Goto(h, "send")
    /\ UNCHANGED <<rdata, sdata, net, lost>>

Send(h) ==
    /\ pc[h] = "send"
    /\ net' = [net EXCEPT ![Other(h)] = Append(@, sdata[h])]
    /\ Goto(h, "spin")
    /\ UNCHANGED <<rdata, rdata2, sdata, lost>>

\* Faulty: the program does not wait for the answer.
SpinNoWait(h) ==
    /\ pc[h] = "spin"
    /\ sdata' = [sdata EXCEPT ![h] = rdata[h] + 1]
    /\ Goto(h, "loop")
    /\ UNCHANGED <<rdata, rdata2, net, lost>>

\* Faulty: the programs count down.
SpinDown(h) ==
    /\ pc[h] = "spin" /\ rdata[h] # rdata2[h]
    /\ sdata' = [sdata EXCEPT ![h] = rdata[h] - 1]
    /\ Goto(h, "loop")
    /\ UNCHANGED <<rdata, rdata2, net, lost>>

\* Faulty: the programs count in steps of two.
SpinTwo(h) ==
    /\ pc[h] = "spin" /\ rdata[h] # rdata2[h]
    /\ sdata' = [sdata EXCEPT ![h] = rdata[h] + 2]
    /\ Goto(h, "loop")
    /\ UNCHANGED <<rdata, rdata2, net, lost>>

\* The do loop, and the assignment after it.
Spin(h) ==
    /\ pc[h] = "spin" /\ rdata[h] # rdata2[h]
    /\ sdata' = [sdata EXCEPT ![h] = rdata[h] + 1]
    /\ Goto(h, "loop")
    /\ UNCHANGED <<rdata, rdata2, net, lost>>

Deliver(h) ==
    /\ net[h] # <<>>
    /\ rdata' = [rdata EXCEPT ![h] = Head(net[h])]
    /\ net' = [net EXCEPT ![h] = Tail(@)]
    /\ UNCHANGED <<pc, rdata2, sdata, lost>>

Lose(h) ==
    /\ net[h] # <<>>
    /\ net' = [net EXCEPT ![h] = Tail(@)]
    /\ lost' = TRUE
    /\ UNCHANGED <<pc, rdata, rdata2, sdata>>

Program(h) == Loop(h) \/ Send(h) \/ Spin(h)

Next == Wait \/ Stop \/ \E h \in Hosts : Program(h) \/ Deliver(h) \/ Lose(h)

\* Both programs run and a frame is delivered or lost at last.
Spec ==
    /\ Init /\ [][Next]_vars
    /\ WF_vars(Wait) /\ WF_vars(Stop)
    /\ \A h \in Hosts : WF_vars(Program(h))
                      /\ WF_vars(Deliver(h) \/ Lose(h))

-----------------------------------------------------------------------------
(***************************************************************************)
(* Properties.                                                             *)
(***************************************************************************)

\* Types of the two programs' variables: only -1, which both put into rdata
\* before they start, is negative.
TypeOK ==
    /\ pc \in [Hosts -> {"wait", "loop", "send", "spin", "done"}]
    /\ rdata \in [Hosts -> Nat \union {-1}]
    /\ rdata2 \in [Hosts -> Nat \union {-1}]
    /\ sdata \in [Hosts -> Nat]
    /\ net \in [Hosts -> Seq(Nat)]
    /\ lost \in BOOLEAN

(***************************************************************************)
(* rdata holds one number: a write may arrive only when the program has    *)
(* used the one before.  So a host to which a write is on its way is       *)
(* waiting, still has the number it last looked at, and the write is the   *)
(* only one in the network; and the number is new to it, so the spin loop  *)
(* does end.                                                               *)
(***************************************************************************)
NoOverrun ==
    \A h \in Hosts : net[h] # <<>> =>
      /\ Len(net[h]) = 1 /\ net[Other(h)] = <<>>
      /\ pc[h] \in {"wait", "spin"}
      /\ rdata[h] = rdata2[h]
      /\ Head(net[h]) > rdata[h]

(***************************************************************************)
(* The programs implement Exchange: whatever is lost, a host receives only *)
(* the answer to what the other one received last, and in turn.            *)
(***************************************************************************)
Numbering == INSTANCE Exchange WITH Sides <- Hosts, got <- rdata

Exchanges == Numbering!Spec

=============================================================================
