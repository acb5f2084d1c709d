----------------------------- MODULE MCNumaStart -----------------------------
(***************************************************************************)
(* A small instance of NumaStart.                                          *)
(***************************************************************************)
EXTENDS NumaStart

\* The two pingpong programs, and the others side by side.
Pairs == {[s |-> "pingpong", c |-> "pingpong"],
          [s |-> "user", c |-> "rmem"], [s |-> "mem", c |-> "rmem"],
          [s |-> "rmem", c |-> "demo1"]}

=============================================================================
