--------------------------- MODULE SocketPingPong ----------------------------
(***************************************************************************)
(* Two instances of software/pingpong/socket_pingpong.c, the same exchange *)
(* over UDP sockets.  Both sides run the same loop: send count_s, block in *)
(* recv, set count_s to the number received plus one.  Neither waits for   *)
(* the other to be there, nothing is repeated and recv has no timeout.     *)
(*                                                                         *)
(* A datagram arrives, in order, or is lost: on the way, because the other *)
(* side has not bound its socket when it arrives (the side started last    *)
(* misses the first one) or failed to, or because sendto failed, which is  *)
(* only reported.  The sender goes on to recv in each case and nobody can  *)
(* tell when the datagram was lost, so SendTo decides it.                  *)
(***************************************************************************)
EXTENDS Integers, Sequences

CONSTANT
    Limit           \* where both sides stop (2000000 in the code)

ASSUME LimitAssumption == Limit \in Nat \ {0}

VARIABLES
    pc,             \* side -> "start", "loop", "recv" or "done"
    countS,         \* side -> *count_s
    countR,         \* side -> *count_r
    sock,           \* side -> datagrams on their way to it or in its buffer
    lost            \* how many datagrams were lost so far

vars == <<pc, countS, countR, sock, lost>>

Sides == {"a", "b"}
Other(x) == IF x = "a" THEN "b" ELSE "a"

Init ==
    /\ pc = [x \in Sides |-> "start"]
    /\ countS = [x \in Sides |-> 0] /\ countR = [x \in Sides |-> 0]
    /\ sock = [x \in Sides |-> <<>>] /\ lost = 0

Bind(x) ==
    /\ pc[x] = "start"
    /\ pc' = [pc EXCEPT ![x] = "loop"]
    /\ UNCHANGED <<countS, countR, sock, lost>>

SendTo(x) ==
    /\ pc[x] = "loop" /\ countS[x] < Limit
    /\ \/ /\ sock' = [sock EXCEPT ![Other(x)] = Append(@, countS[x])]
          /\ UNCHANGED lost
       \/ lost' = lost + 1 /\ UNCHANGED sock
    /\ pc' = [pc EXCEPT ![x] = "recv"]
    /\ UNCHANGED <<countS, countR>>

\* Faulty: the programs count in steps of two.
RecvTwo(x) ==
    /\ pc[x] = "recv" /\ sock[x] # <<>>
    /\ countR' = [countR EXCEPT ![x] = Head(sock[x])]
    /\ countS' = [countS EXCEPT ![x] = Head(sock[x]) + 2]
    /\ sock' = [sock EXCEPT ![x] = Tail(@)]
    /\ pc' = [pc EXCEPT ![x] = "loop"] /\ UNCHANGED lost

\* Faulty: recv does not block.
RecvNoWait(x) ==
    /\ pc[x] = "recv"
    /\ countS' = [countS EXCEPT ![x] = @ + 1]
    /\ pc' = [pc EXCEPT ![x] = "loop"]
    /\ UNCHANGED <<countR, sock, lost>>

\* Faulty: the number is sent back as it came.
RecvNoIncrement(x) ==
    /\ pc[x] = "recv" /\ sock[x] # <<>>
    /\ countR' = [countR EXCEPT ![x] = Head(sock[x])]
    /\ countS' = [countS EXCEPT ![x] = Head(sock[x])]
    /\ sock' = [sock EXCEPT ![x] = Tail(@)]
    /\ pc' = [pc EXCEPT ![x] = "loop"] /\ UNCHANGED lost

\* Faulty: a number other than the expected one is thrown away.
RecvExpected(x) ==
    /\ pc[x] = "recv" /\ sock[x] # <<>>
    /\ countR' = [countR EXCEPT ![x] = Head(sock[x])]
    /\ sock' = [sock EXCEPT ![x] = Tail(@)]
    /\ \/ /\ Head(sock[x]) = countS[x]
          /\ countS' = [countS EXCEPT ![x] = @ + 1]
          /\ pc' = [pc EXCEPT ![x] = "loop"]
       \/ Head(sock[x]) # countS[x] /\ UNCHANGED <<countS, pc>>
    /\ UNCHANGED lost

Recv(x) ==
    /\ pc[x] = "recv" /\ sock[x] # <<>>
    /\ countR' = [countR EXCEPT ![x] = Head(sock[x])]
    /\ countS' = [countS EXCEPT ![x] = Head(sock[x]) + 1]
    /\ sock' = [sock EXCEPT ![x] = Tail(@)]
    /\ pc' = [pc EXCEPT ![x] = "loop"] /\ UNCHANGED lost

Exit(x) ==
    /\ pc[x] = "loop" /\ countS[x] >= Limit
    /\ pc' = [pc EXCEPT ![x] = "done"]
    /\ UNCHANGED <<countS, countR, sock, lost>>

Side(x) == Bind(x) \/ SendTo(x) \/ Recv(x) \/ Exit(x)

Next == \E x \in Sides : Side(x)

Spec == Init /\ [][Next]_vars /\ \A x \in Sides : WF_vars(Side(x))

-----------------------------------------------------------------------------
(***************************************************************************)
(* Properties.                                                             *)
(***************************************************************************)

\* Types of the counters and of the socket buffers.  Two numbers at most go
\* back and forth, so no more than two datagrams can be lost.
TypeOK ==
    /\ pc \in [Sides -> {"start", "loop", "recv", "done"}]
    /\ countS \in [Sides -> 0..Limit] /\ countR \in [Sides -> 0..Limit]
    /\ \A x \in Sides : sock[x] \in Seq(0..Limit)
    /\ lost \in 0..2

(***************************************************************************)
(* The two sides stay in step, whatever is lost and whoever starts first:  *)
(* neither is more than one round ahead of the other, and what waits for a *)
(* side is the number it expects, the next one, or both in this order;     *)
(* never an old number, although recv takes whatever comes first.          *)
(***************************************************************************)
InStep ==
    /\ countS["a"] - countS["b"] \in -1..1
    /\ \A x \in Sides :
         LET c == countS[x] IN
         sock[x] \in {<<>>, <<c>>, <<c + 1>>, <<c, c + 1>>}

(***************************************************************************)
(* The two sides implement Exchange: *count_s is the number received last  *)
(* plus one, from the first round on.                                      *)
(***************************************************************************)
Numbering == INSTANCE Exchange WITH got <- [x \in Sides |-> countS[x] - 1]

Exchanges == Numbering!Spec

\* Both sides come to their end unless a datagram is lost: neither is left
\* in recv because the other has left the loop.
BothFinish == <>(lost > 0) \/ \A x \in Sides : <>(pc[x] = "done")

(***************************************************************************)
(* One lost datagram, the usual case when one host is started after the    *)
(* other, leaves one side in recv at the end but does not stop the         *)
(* exchange: the number that is left goes back and forth until one side    *)
(* comes to its end.  Only a second loss leaves both sides in recv.        *)
(***************************************************************************)
OneFinishes == <>(lost > 1) \/ <>(\E x \in Sides : pc[x] = "done")

=============================================================================
