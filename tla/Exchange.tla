------------------------------ MODULE Exchange -------------------------------
(***************************************************************************)
(* What the two pingpong programs promise, whatever carries the numbers:   *)
(* ipnuma_pingpong.c over the cards (PingPong) and socket_pingpong.c over  *)
(* UDP (SocketPingPong) both implement this specification.                 *)
(*                                                                         *)
(* got is the last number each side has received, -1 at first.  A side     *)
(* only ever receives the number that follows the other side's last one,   *)
(* or that number itself when the other side has answered a round ahead,   *)
(* and never one that is not new to it.                                    *)
(***************************************************************************)
EXTENDS Integers

CONSTANT
    Sides       \* the two programs

VARIABLE
    got         \* side -> the last number it received

Init == got = [x \in Sides |-> -1]

Receive(x, y) ==
    \E n \in {got[y], got[y] + 1} :
      n > got[x] /\ got' = [got EXCEPT ![x] = n]

Next == \E x, y \in Sides : x # y /\ Receive(x, y)

Spec == Init /\ [][Next]_got

=============================================================================
