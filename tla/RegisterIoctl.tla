---------------------------- MODULE RegisterIoctl ----------------------------
(***************************************************************************)
(* The register commands of ipnuma_ioctl (software/driver/ipnuma.c) on the *)
(* registers of a board.  A command is one or two memcpy calls between the *)
(* caller's buffer and mmio0_ptr; a memcpy of 4 bytes is one dword access, *)
(* one of 6 bytes a dword and a half.  There is no lock: the accesses of   *)
(* two processes interleave.                                               *)
(***************************************************************************)
EXTENDS BoardRegisters

CONSTANTS
    Procs,          \* processes
    Owns(_, _),     \* on a board, the registers a process sets and gets
    Values(_)       \* the values a register is set to

VARIABLES
    cmd,            \* process -> its command, "SET", "GET" or "none"
    reg,            \* process -> the command's register
    buf,            \* process -> the caller's buffer
    next,           \* process -> its next access
    wanted          \* register -> value of the last SET, or <<>>

vars == <<board, regs, cmd, reg, buf, next, wanted>>

(***************************************************************************)
(* The accesses of a command: offset in BAR0, first byte in the buffer,    *)
(* number of bytes.                                                        *)
(***************************************************************************)
Chunks(r) ==
    CASE r = "if_v4addr"    -> <<[at |-> 0, from |-> 1, n |-> 4]>>
      [] r = "if_macaddr"   -> <<[at |-> 4, from |-> 1, n |-> 4],
                                 [at |-> 8, from |-> 5, n |-> 2]>>
      [] r = "dest_v4addr"  -> <<[at |-> 16, from |-> 1, n |-> 4]>>
      [] r = "dest_macaddr" -> <<[at |-> 20, from |-> 1, n |-> 4],
                                 [at |-> 24, from |-> 5, n |-> 2]>>
      [] r = "mem0_paddr"   -> <<[at |-> 40, from |-> 1, n |-> 4],
                                 [at |-> 44, from |-> 1, n |-> 4]>>

Blank == <<0, 0, 0, 0, 0, 0, 0, 0>>

Init ==
    /\ board \in Boards /\ RegsInit
    /\ cmd = [p \in Procs |-> "none"]
    /\ reg = [p \in Procs |-> CHOOSE r \in RegNames : TRUE]
    /\ buf = [p \in Procs |-> Blank]
    /\ next = [p \in Procs |-> 1]
    /\ wanted = [r \in RegNames |-> <<>>]

Start(p, c, r, b) ==
    /\ cmd[p] = "none"
    /\ cmd' = [cmd EXCEPT ![p] = c]
    /\ reg' = [reg EXCEPT ![p] = r]
    /\ buf' = [buf EXCEPT ![p] = b]
    /\ next' = [next EXCEPT ![p] = 1]
    /\ UNCHANGED <<board, regs>>

StartSet(p) ==
    \E r \in Owns(board, p) : \E v \in Values(r) :
      /\ Start(p, "SET", r, v)
      /\ wanted' = [wanted EXCEPT ![r] = v]

StartGet(p) ==
    \E r \in Owns(board, p) : Start(p, "GET", r, Blank) /\ UNCHANGED wanted

Access(p) ==
    LET c == Chunks(reg[p])[next[p]] IN
    /\ cmd[p] # "none" /\ next[p] <= Len(Chunks(reg[p]))
    /\ IF cmd[p] = "SET"
         THEN /\ RegWrite(c.at \div 4,
                          [lane \in 0..(c.n - 1) |-> buf[p][c.from + lane]])
              /\ UNCHANGED buf
         ELSE /\ buf' = [buf EXCEPT ![p] =
                           [i \in DOMAIN @ |->
                              IF i - c.from \in 0..(c.n - 1)
                                THEN RegByte(c.at + i - c.from) ELSE @[i]]]
              /\ UNCHANGED regs
    /\ next' = [next EXCEPT ![p] = @ + 1]
    /\ UNCHANGED <<board, cmd, reg, wanted>>

Finished(p) == cmd[p] # "none" /\ next[p] > Len(Chunks(reg[p]))

Return(p) ==
    /\ Finished(p)
    /\ cmd' = [cmd EXCEPT ![p] = "none"]
    /\ UNCHANGED <<board, regs, reg, buf, next, wanted>>

Next == \E p \in Procs : StartSet(p) \/ StartGet(p) \/ Access(p) \/ Return(p)

Spec == Init /\ [][Next]_vars

-----------------------------------------------------------------------------
(***************************************************************************)
(* Properties.                                                             *)
(***************************************************************************)

\* Types of the registers and of the commands in progress.
TypeOK ==
    /\ board \in Boards
    /\ \A r \in RegNames : regs[r] \in [1..RegLen[r] -> 0..255]
    /\ cmd \in [Procs -> {"none", "SET", "GET"}]
    /\ reg \in [Procs -> RegNames]
    /\ next \in [Procs -> 1..3]

Setting(r) == \E p \in Procs : cmd[p] = "SET" /\ reg[p] = r /\ ~Finished(p)

(***************************************************************************)
(* After a SET command the board's register holds the value that was set,  *)
(* whatever other registers were set or read by other processes meanwhile. *)
(***************************************************************************)
RegisterHolds ==
    \A r \in RegNames :
      wanted[r] # <<>> /\ ~Setting(r)
        => regs[r] = SubSeq(wanted[r], 1, RegLen[r])

\* A GET command returns what the last SET command of that register set.
ReadBack ==
    \A p \in Procs :
      cmd[p] = "GET" /\ Finished(p) /\ wanted[reg[p]] # <<>>
        => SubSeq(buf[p], 1, Len(wanted[reg[p]])) = wanted[reg[p]]

=============================================================================
