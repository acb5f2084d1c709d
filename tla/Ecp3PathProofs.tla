--------------------------- MODULE Ecp3PathProofs ----------------------------
(***************************************************************************)
(* Proofs about Ecp3Path: the parser of the server core is in step with    *)
(* every frame, whichever programs send, with any addresses, data and      *)
(* check sequences, and every register keeps its type.                     *)
(*                                                                         *)
(* The parser has no length of its own to go by: it is back in IDLE at the *)
(* end of a frame only because each command says how long it is and the    *)
(* last one is followed by the delimiter.                                  *)
(***************************************************************************)
EXTENDS Ecp3Path, TLAPS, SequenceTheorems

-----------------------------------------------------------------------------
(***************************************************************************)
(* Frames, as far as the parser looks at them.  The header and the magic   *)
(* code take bytes 0 to 45; the commands are of the same kind and length.  *)
(***************************************************************************)
CommandLen(wide, dw) == (IF wide THEN 7 ELSE 6) + 4 * dw

\* The two places at which a command may begin.
Starts(wide, dw) == {46, 46 + CommandLen(wide, dw)}

\* f has commands up to its byte number end, which is the delimiter.
Ours(f, wide, dw, end) ==
    /\ wide \in BOOLEAN /\ dw \in 1..31
    /\ end \in {46 + CommandLen(wide, dw), 46 + 2 * CommandLen(wide, dw)}
    /\ Len(f) > end
    /\ \A x \in Fields : f[x + 1] = Wanted[x]
    /\ f[46] = 0
    /\ \A s \in Starts(wide, dw) : s < end => f[s + 1] = CommandByte(wide, dw)
    /\ f[end + 1] = 0

Others(f) ==
    Len(f) > 45 /\ (f[46] # 0 \/ \E x \in Fields : f[x + 1] # Wanted[x])

Proper(f) ==
    /\ f \in Seq(Byte) /\ Len(f) < 4096
    /\ Others(f) \/ \E wide, dw, end : Ours(f, wide, dw, end)

\* Bytes after one another.
LEMMA Joined ==
    ASSUME NEW s \in Seq(Byte), NEW t \in Seq(Byte)
    PROVE  /\ s \o t \in Seq(Byte) /\ Len(s \o t) = Len(s) + Len(t)
           /\ Len(s) \in Nat /\ Len(t) \in Nat
           /\ \A i \in 1..Len(s) : (s \o t)[i] = s[i]
           /\ \A i \in 1..Len(t) : (s \o t)[Len(s) + i] = t[i]
<1>1. s \o t \in Seq(Byte) /\ Len(s \o t) = Len(s) + Len(t)
    BY ConcatProperties
<1>2. Len(s) \in Nat /\ Len(t) \in Nat
    OBVIOUS
<1>3. \A i \in 1..Len(s) : (s \o t)[i] = s[i]
    BY <1>2, ConcatProperties
<1>4. \A i \in 1..Len(t) : (s \o t)[Len(s) + i] = t[i]
  <2> SUFFICES ASSUME NEW i \in 1..Len(t) PROVE (s \o t)[Len(s) + i] = t[i]
    OBVIOUS
  <2>1. Len(s) + i \in 1..(Len(s) + Len(t)) /\ ~(Len(s) + i <= Len(s))
        /\ (Len(s) + i) - Len(s) = i
    BY <1>2
  <2> QED
    BY <2>1, ConcatProperties
<1> QED
    BY <1>1, <1>2, <1>3, <1>4

\* A function on 1..n is a sequence.
LEMMA SeqOf ==
    ASSUME NEW S, NEW n \in Nat, NEW f \in [1..n -> S]
    PROVE  f \in Seq(S) /\ Len(f) = n
    OBVIOUS

\* The lengths of a command in dwords.
DwLens == 1..31

IsCommand(s, wide, addr, dw) ==
    /\ s \in Seq(Byte) /\ Len(s) = 2 + Len(addr) + 4 * dw
    /\ s[1] = CommandByte(wide, dw)

\* A command: its first byte and its length.
LEMMA CommandIs ==
    ASSUME NEW wide \in BOOLEAN, NEW addr \in Seq(Byte), NEW data \in Seq(Byte),
           NEW dw \in DwLens, Len(data) = 4 * dw
    PROVE  IsCommand(Command(wide, addr, data), wide, addr, dw)
<1> DEFINE b == CommandByte(wide, dw)
           head == <<b, 255>>
<1> dw \in 1..31
    BY DEF DwLens
<1>1. Len(data) \div 4 = dw
  <2>1. \A k \in Nat : (4 * k) \div 4 = k
    OBVIOUS
  <2> QED
    BY <2>1
<1>2. b \in Byte
    BY DEF CommandByte, Byte
<1> HIDE DEF b
<1>3. head \in Seq(Byte) /\ Len(head) = 2 /\ head[1] = b
  <2>1. 255 \in Byte
    BY DEF Byte
  <2>2. \A x, y \in Byte : /\ <<x, y>> \in Seq(Byte) /\ Len(<<x, y>>) = 2
                           /\ <<x, y>>[1] = x
    OBVIOUS
  <2> QED
    BY <1>2, <2>1, <2>2
<1> HIDE DEF head
<1>4. /\ head \o addr \in Seq(Byte) /\ Len(head \o addr) = 2 + Len(addr)
      /\ (head \o addr)[1] = b /\ Len(addr) \in Nat
  <2>1. 1 \in 1..Len(head)
    BY <1>3
  <2>2. /\ head \o addr \in Seq(Byte) /\ Len(addr) \in Nat
        /\ Len(head \o addr) = Len(head) + Len(addr)
        /\ \A i \in 1..Len(head) : (head \o addr)[i] = head[i]
    BY <1>3, Joined
  <2>3. (head \o addr)[1] = b
    BY <1>3, <2>1, <2>2
  <2> QED
    BY <1>3, <2>2, <2>3
<1>5. /\ (head \o addr) \o data \in Seq(Byte)
      /\ Len((head \o addr) \o data) = 2 + Len(addr) + 4 * dw
      /\ ((head \o addr) \o data)[1] = b
  <2>1. 1 \in 1..Len(head \o addr)
    BY <1>4
  <2>2. /\ (head \o addr) \o data \in Seq(Byte)
        /\ Len((head \o addr) \o data) = Len(head \o addr) + Len(data)
        /\ ((head \o addr) \o data)[1] = (head \o addr)[1]
    BY <1>4, <2>1, Joined
  <2> QED
    BY <1>4, <2>2
<1>6. Command(wide, addr, data) = (head \o addr) \o data
    BY <1>1 DEF Command, head, b
<1> QED
    BY <1>5, <1>6 DEF IsCommand, b

\* The bytes a program puts into a command are bytes.
LEMMA PatternIs ==
    ASSUME NEW j \in Nat
    PROVE  Pattern(j) \in Seq(Byte) /\ Len(Pattern(j)) = 4 * DwLen
<1>1. 4 * DwLen \in Nat
    BY DwLenAssumption
<1>2. \A n \in 1..(4 * DwLen) :
        16 * (((n - 1) \div 4 + j) % 16) + ((n - 1) % 4) \in Byte
  <2> SUFFICES ASSUME NEW n \in 1..(4 * DwLen)
               PROVE  16 * (((n - 1) \div 4 + j) % 16) + ((n - 1) % 4) \in Byte
    OBVIOUS
  <2>1. n - 1 \in Nat
    BY <1>1
  <2>2. \A k \in Nat : k \div 4 \in Nat /\ k % 4 \in 0..3 /\ k % 16 \in 0..15
    OBVIOUS
  <2>3. (n - 1) \div 4 + j \in Nat /\ (n - 1) % 4 \in 0..3
    BY <2>1, <2>2
  <2>4. ((n - 1) \div 4 + j) % 16 \in 0..15
    BY <2>2, <2>3
  <2>5. \A x \in 0..15, y \in 0..3 : 16 * x + y \in 0..255
    OBVIOUS
  <2> QED
    BY <2>3, <2>4, <2>5 DEF Byte
<1>3. Pattern(j) \in [1..(4 * DwLen) -> Byte]
    BY <1>2 DEF Pattern
<1> QED
    BY <1>1, <1>3, SeqOf

\* The bytes of a number.
LEMMA BytesAre ==
    ASSUME NEW d \in Nat
    PROVE  Bytes(d) \in Seq(Byte) /\ Len(Bytes(d)) = 4
<1>1. 2^8 \in Nat \ {0} /\ 2^16 \in Nat \ {0} /\ 2^24 \in Nat \ {0}
    OBVIOUS
<1>2. \A k \in Nat : k % 256 \in Byte
    BY DEF Byte
<1>3. \A k \in Nat, m \in Nat \ {0} : k \div m \in Nat
    OBVIOUS
<1>4. /\ d \div 2^8 \in Nat /\ d \div 2^16 \in Nat /\ d \div 2^24 \in Nat
    BY <1>1, <1>3
<1>5. /\ d % 256 \in Byte /\ (d \div 2^8) % 256 \in Byte
      /\ (d \div 2^16) % 256 \in Byte /\ (d \div 2^24) % 256 \in Byte
    BY <1>2, <1>4
<1> QED
    BY <1>5 DEF Bytes

\* The commands of a packet: one, or two of the same length.
Commands(body, wide, dw) ==
    LET len == CommandLen(wide, dw)
    IN  /\ wide \in BOOLEAN /\ dw \in 1..31 /\ body \in Seq(Byte)
        /\ Len(body) \in {len, 2 * len}
        /\ body[1] = CommandByte(wide, dw)
        /\ Len(body) = 2 * len => body[1 + len] = CommandByte(wide, dw)

\* A program that is given an address sends one dword.
LEMMA OneCommand ==
    ASSUME NEW c \in Clients, NEW n \in Nat
    PROVE  \E wide :
             Commands(Command(c.prog # "a32", AddrBytes(c.prog, c.addr),
                              Bytes(Count(c, n))), wide, 1)
<1> DEFINE wide == c.prog # "a32"
           addr == AddrBytes(c.prog, c.addr)
           data == Bytes(Count(c, n))
<1>1. wide \in BOOLEAN
    OBVIOUS
<1>2. /\ addr \in Seq(Byte) /\ Len(addr) = IF wide THEN 5 ELSE 4
  <2>1. c.addr \in Seq(Byte) /\ Len(c.addr) = 6
    <3>1. c.addr \in [1..6 -> Byte] /\ 6 \in Nat
      BY ClientsAssumption
    <3> QED
      BY <3>1, SeqOf
  <2>2. \A m \in {2, 3} : /\ SubSeq(c.addr, m, 6) \in Seq(Byte)
                          /\ Len(SubSeq(c.addr, m, 6)) = 7 - m
    BY <2>1
  <2> QED
    BY <2>2 DEF AddrBytes
<1>3. data \in Seq(Byte) /\ Len(data) = 4 * 1
  <2>1. Count(c, n) \in Nat
    BY ClientsAssumption DEF Count
  <2> QED
    BY <2>1, BytesAre
<1> HIDE DEF addr, data
<1>4. /\ Command(wide, addr, data) \in Seq(Byte)
      /\ Len(Command(wide, addr, data)) = 2 + Len(addr) + 4 * 1
      /\ Command(wide, addr, data)[1] = CommandByte(wide, 1)
  <2> HIDE DEF wide
  <2>1. PICK dw \in 1..31 : dw = 1
    OBVIOUS
  <2>2. Len(data) = 4 * dw
    BY <1>3, <2>1
  <2>3. \A w \in BOOLEAN :
          /\ Command(w, addr, data) \in Seq(Byte)
          /\ Len(Command(w, addr, data)) = 2 + Len(addr) + 4 * dw
          /\ Command(w, addr, data)[1] = CommandByte(w, dw)
    <3>1. /\ addr \in Seq(Byte) /\ data \in Seq(Byte) /\ dw \in DwLens
          /\ TRUE \in BOOLEAN /\ FALSE \in BOOLEAN
      BY <1>2, <1>3 DEF DwLens
    <3>2. IsCommand(Command(TRUE, addr, data), TRUE, addr, dw)
      BY <2>2, <3>1, CommandIs, Zenon
    <3>3. IsCommand(Command(FALSE, addr, data), FALSE, addr, dw)
      BY <2>2, <3>1, CommandIs, Zenon
    <3> QED
      BY <3>2, <3>3 DEF IsCommand
  <2> QED
    BY <1>1, <2>1, <2>3
<1>5. Len(Command(wide, addr, data)) = CommandLen(wide, 1)
    BY <1>2, <1>4 DEF CommandLen
<1>6. CommandLen(wide, 1) # 2 * CommandLen(wide, 1) /\ 1 \in 1..31
    BY DEF CommandLen
<1>7. Commands(Command(wide, addr, data), wide, 1)
  <2> HIDE DEF wide
  <2> QED
    BY <1>1, <1>4, <1>5, <1>6 DEF Commands
<1> QED
    BY <1>7 DEF addr, data

\* Without one it sends two commands of DwLen dwords.
LEMMA TwoCommands ==
    ASSUME NEW p, NEW n \in Nat
    PROVE  Commands(Command(FALSE, FirstAddr(p), Pattern(n))
                      \o Command(FALSE, SecondAddr(p), Pattern(n + 1)),
                    FALSE, DwLen)
<1> DEFINE one == Command(FALSE, FirstAddr(p), Pattern(n))
           two == Command(FALSE, SecondAddr(p), Pattern(n + 1))
           len == CommandLen(FALSE, DwLen)
           b == CommandByte(FALSE, DwLen)
<1>1. /\ DwLen \in 1..31 /\ DwLen \in DwLens
      /\ FALSE \in BOOLEAN /\ n + 1 \in Nat
    BY DwLenAssumption DEF DwLens
<1>2. \A a1, a2, a3, a4 \in Byte : /\ <<a1, a2, a3, a4>> \in Seq(Byte)
                                   /\ Len(<<a1, a2, a3, a4>>) = 4
    OBVIOUS
<1>3. {192, 0, 208, 2, 128} \subseteq Byte
    BY DEF Byte
<1>4. FirstAddr(p) \in Seq(Byte) /\ Len(FirstAddr(p)) = 4
    BY <1>2, <1>3 DEF FirstAddr
<1>5. SecondAddr(p) \in Seq(Byte) /\ Len(SecondAddr(p)) = 4
    BY <1>2, <1>3 DEF SecondAddr
<1>6. /\ Pattern(n) \in Seq(Byte) /\ Len(Pattern(n)) = 4 * DwLen
      /\ Pattern(n + 1) \in Seq(Byte) /\ Len(Pattern(n + 1)) = 4 * DwLen
    BY <1>1, PatternIs
<1>7. len = 2 + 4 + 4 * DwLen /\ len \in Nat /\ len > 0 /\ len # 2 * len
    BY <1>1 DEF CommandLen
<1> HIDE DEF len, b, one, two
<1>8. one \in Seq(Byte) /\ Len(one) = len /\ one[1] = b
  <2>1. /\ one \in Seq(Byte) /\ one[1] = b
        /\ Len(one) = 2 + Len(FirstAddr(p)) + 4 * DwLen
    <3>1. DwLen \in DwLens /\ FALSE \in BOOLEAN
      BY <1>1
    <3>2. IsCommand(one, FALSE, FirstAddr(p), DwLen)
      BY <1>4, <1>6, <3>1, CommandIs, Zenon DEF one
    <3> QED
      BY <3>2 DEF IsCommand, b
  <2> QED
    BY <1>4, <1>7, <2>1
<1>9. two \in Seq(Byte) /\ Len(two) = len /\ two[1] = b
  <2>1. /\ two \in Seq(Byte) /\ two[1] = b
        /\ Len(two) = 2 + Len(SecondAddr(p)) + 4 * DwLen
    <3>1. DwLen \in DwLens /\ FALSE \in BOOLEAN
      BY <1>1
    <3>2. IsCommand(two, FALSE, SecondAddr(p), DwLen)
      BY <1>5, <1>6, <3>1, CommandIs, Zenon DEF two
    <3> QED
      BY <3>2 DEF IsCommand, b
  <2> QED
    BY <1>5, <1>7, <2>1
<1>10. /\ one \o two \in Seq(Byte) /\ Len(one \o two) = len + len
       /\ \A i \in 1..len : (one \o two)[i] = one[i]
       /\ \A i \in 1..len : (one \o two)[len + i] = two[i]
  <2>1. /\ one \o two \in Seq(Byte)
        /\ Len(one \o two) = Len(one) + Len(two)
        /\ \A i \in 1..Len(one) : (one \o two)[i] = one[i]
        /\ \A i \in 1..Len(two) : (one \o two)[Len(one) + i] = two[i]
    BY <1>8, <1>9, Joined, Zenon
  <2> QED
    BY <1>8, <1>9, <2>1, Zenon
<1>11. 1 \in 1..len /\ len + 1 = 1 + len /\ len + len = 2 * len
    BY <1>7
<1>12. (one \o two)[1] = b /\ (one \o two)[1 + len] = b
    BY <1>8, <1>9, <1>10, <1>11
<1> QED
    BY <1>1, <1>10, <1>11, <1>12 DEF Commands, one, two, len, b

\* A packet: the magic code, its commands and the delimiter.
LEMMA PacketIs ==
    ASSUME NEW c \in Clients, NEW n \in Nat
    PROVE  /\ Packet(c, n) \in Seq(Byte)
           /\ \E body, wide, dw :
                /\ Commands(body, wide, dw)
                /\ Len(Packet(c, n)) = Len(body) + 5
                /\ \A i \in 1..4 : Packet(c, n)[i] = Magic[i]
                /\ \A i \in 1..Len(body) : Packet(c, n)[4 + i] = body[i]
                /\ Packet(c, n)[5 + Len(body)] = 0
<1> DEFINE body ==
             IF c.test
               THEN Command(FALSE, FirstAddr(c.prog), Pattern(n))
                      \o Command(FALSE, SecondAddr(c.prog), Pattern(n + 1))
               ELSE Command(c.prog # "a32", AddrBytes(c.prog, c.addr),
                            Bytes(Count(c, n)))
           packet == (Magic \o body) \o Delimiter
<1>1. PICK wide, dw : Commands(body, wide, dw)
  <2>1. CASE c.test
    <3>1. body = Command(FALSE, FirstAddr(c.prog), Pattern(n))
                   \o Command(FALSE, SecondAddr(c.prog), Pattern(n + 1))
      BY <2>1
    <3> QED
      BY <3>1, TwoCommands
  <2>2. CASE ~c.test
    <3>1. body = Command(c.prog # "a32", AddrBytes(c.prog, c.addr),
                         Bytes(Count(c, n)))
      BY <2>2
    <3> QED
      BY <3>1, OneCommand
  <2> QED
    BY <2>1, <2>2
<1>2. Packet(c, n) = packet
    BY DEF Packet
<1> HIDE DEF body
<1>3. body \in Seq(Byte) /\ Len(body) \in Nat
    BY <1>1 DEF Commands
<1>4. Magic \in Seq(Byte) /\ Len(Magic) = 4
    BY DEF Magic, Byte
<1>5. Delimiter \in Seq(Byte) /\ Len(Delimiter) = 1 /\ Delimiter[1] = 0
    BY DEF Delimiter, Byte
<1>6. /\ Magic \o body \in Seq(Byte) /\ Len(Magic \o body) = 4 + Len(body)
      /\ \A i \in 1..4 : (Magic \o body)[i] = Magic[i]
      /\ \A i \in 1..Len(body) : (Magic \o body)[4 + i] = body[i]
  <2>1. /\ Magic \o body \in Seq(Byte)
        /\ Len(Magic \o body) = Len(Magic) + Len(body)
        /\ \A i \in 1..Len(Magic) : (Magic \o body)[i] = Magic[i]
        /\ \A i \in 1..Len(body) :
             (Magic \o body)[Len(Magic) + i] = body[i]
    BY <1>3, <1>4, Joined, Zenon
  <2> QED
    BY <1>4, <2>1, Zenon
<1> DEFINE front == Magic \o body
<1> HIDE DEF front
<1>7. /\ front \o Delimiter \in Seq(Byte)
      /\ Len(front \o Delimiter) = Len(front) + Len(Delimiter)
      /\ \A i \in 1..Len(front) : (front \o Delimiter)[i] = front[i]
      /\ \A i \in 1..Len(Delimiter) :
           (front \o Delimiter)[Len(front) + i] = Delimiter[i]
    BY <1>5, <1>6, Joined, Zenon DEF front
<1>8. packet = front \o Delimiter /\ Len(front) = 4 + Len(body)
    BY <1>6 DEF front
<1> HIDE DEF packet
<1>9. packet \in Seq(Byte) /\ Len(packet) = Len(body) + 5
    BY <1>3, <1>5, <1>7, <1>8
<1>10. \A i \in 1..4 : packet[i] = Magic[i]
  <2>1. \A i \in 1..4 : i \in 1..Len(front)
    BY <1>3, <1>8
  <2> QED
    BY <1>6, <1>7, <1>8, <2>1 DEF front
<1>11. \A i \in 1..Len(body) : packet[4 + i] = body[i]
  <2>1. \A i \in 1..Len(body) : 4 + i \in 1..Len(front)
    BY <1>3, <1>8
  <2> QED
    BY <1>6, <1>7, <1>8, <2>1 DEF front
<1>12. packet[5 + Len(body)] = 0
  <2>1. Len(front) + 1 = 5 + Len(body) /\ 1 \in 1..Len(Delimiter)
    BY <1>3, <1>5, <1>8
  <2>2. packet[Len(front) + 1] = Delimiter[1]
    BY <1>7, <1>8, <2>1
  <2> QED
    BY <1>5, <2>1, <2>2
<1> QED
    BY <1>1, <1>2, <1>9, <1>10, <1>11, <1>12

\* A frame: the header, the packet, and bytes behind it.
LEMMA FrameParts ==
    ASSUME NEW p \in Seq(Byte), NEW t \in Trailers
    PROVE  /\ Frame(p, t) \in Seq(Byte) /\ Len(p) \in Nat
           /\ Len(Frame(p, t)) \in Nat
           /\ Len(Frame(p, t)) >= 42 + Len(p)
           /\ Len(Frame(p, t)) <= 106 + Len(p)
           /\ \A i \in 1..42 : Frame(p, t)[i] = HeaderBytes[i]
           /\ \A i \in 1..Len(p) : Frame(p, t)[42 + i] = p[i]
<1> DEFINE pad == Padding(42 + Len(p))
           X == HeaderBytes \o p
           Y == X \o pad
<1>1. p \in Seq(Byte) /\ Len(p) \in Nat
    OBVIOUS
<1>2. HeaderBytes \in Seq(Byte) /\ Len(HeaderBytes) = 42
  <2>1. \A x \in Fields : Wanted[x] \in Byte
    BY DEF Fields, Wanted, Byte
  <2>2. \A n \in 1..42 :
          (IF n - 1 \in Fields THEN Wanted[n - 1] ELSE 0) \in Byte
    <3>1. 0 \in Byte
      BY DEF Byte
    <3> QED
      BY <2>1, <3>1
  <2>3. HeaderBytes \in [1..42 -> Byte]
    BY <2>2 DEF HeaderBytes
  <2>4. PICK n \in Nat : n = 42
    OBVIOUS
  <2>5. HeaderBytes \in [1..n -> Byte]
    BY <2>3, <2>4
  <2>6. HeaderBytes \in Seq(Byte) /\ Len(HeaderBytes) = n
    BY <2>5, SeqOf
  <2> QED
    BY <2>4, <2>6
<1>3. pad \in Seq(Byte) /\ Len(pad) \in Nat /\ Len(pad) <= 60
  <2> DEFINE m == IF 42 + Len(p) < 60 THEN 60 - (42 + Len(p)) ELSE 0
  <2>1. m \in Nat /\ m <= 60
    BY <1>1
  <2>2. pad \in [1..m -> Byte]
    BY DEF Padding, Byte
  <2> HIDE DEF m, pad
  <2>3. pad \in Seq(Byte) /\ Len(pad) = m
    BY <2>1, <2>2, SeqOf
  <2> QED
    BY <2>1, <2>3
<1>4. t \in Seq(Byte) /\ Len(t) = 4
  <2>1. PICK n \in Nat : n = 4
    OBVIOUS
  <2>2. t \in [1..n -> Byte]
    BY <2>1, TrailersAssumption
  <2>3. t \in Seq(Byte) /\ Len(t) = n
    BY <2>2, SeqOf
  <2> QED
    BY <2>1, <2>3
<1> HIDE DEF pad
<1>5. /\ X \in Seq(Byte) /\ Len(X) = Len(HeaderBytes) + Len(p)
      /\ \A i \in 1..Len(HeaderBytes) : X[i] = HeaderBytes[i]
      /\ \A i \in 1..Len(p) : X[Len(HeaderBytes) + i] = p[i]
  <2>1. HeaderBytes \in Seq(Byte) /\ p \in Seq(Byte)
    BY <1>1, <1>2
  <2> QED
    BY <2>1, Joined, Zenon
<1> HIDE DEF X
<1>6. /\ Y \in Seq(Byte) /\ Len(Y) = Len(X) + Len(pad)
      /\ \A i \in 1..Len(X) : Y[i] = X[i]
    BY <1>3, <1>5, Joined, Zenon
<1> HIDE DEF Y
<1>7. /\ Y \o t \in Seq(Byte) /\ Len(Y \o t) = Len(Y) + Len(t)
      /\ \A i \in 1..Len(Y) : (Y \o t)[i] = Y[i]
    BY <1>4, <1>6, Joined, Zenon
<1>8. Frame(p, t) = Y \o t
    BY DEF Frame, Y, X, pad
<1>9. /\ Len(X) = 42 + Len(p) /\ Len(Y) >= Len(X) /\ Len(Y) \in Nat
      /\ Len(Y) <= 102 + Len(p)
  <2>1. PICK a \in Nat, k \in Nat : a = Len(p) /\ k = Len(pad) /\ k <= 60
    BY <1>1, <1>3
  <2>2. Len(X) = 42 + a
    BY <1>2, <1>5, <2>1
  <2>3. Len(Y) = (42 + a) + k
    BY <1>6, <2>1, <2>2
  <2> QED
    BY <2>1, <2>2, <2>3
<1>10. \A i \in 1..(42 + Len(p)) : Frame(p, t)[i] = X[i]
  <2>1. \A i \in 1..(42 + Len(p)) : i \in 1..Len(X) /\ i \in 1..Len(Y)
    BY <1>1, <1>9
  <2> QED
    BY <1>6, <1>7, <1>8, <2>1
<1>11. \A i \in 1..42 : Frame(p, t)[i] = HeaderBytes[i]
  <2>1. \A i \in 1..42 : i \in 1..(42 + Len(p)) /\ i \in 1..Len(HeaderBytes)
    BY <1>1, <1>2
  <2> QED
    BY <1>5, <1>10, <2>1
<1>12. \A i \in 1..Len(p) : Frame(p, t)[42 + i] = p[i]
  <2>1. \A i \in 1..Len(p) : 42 + i \in 1..(42 + Len(p))
    BY <1>1
  <2>2. \A i \in 1..Len(p) : X[42 + i] = p[i]
    BY <1>2, <1>5
  <2> QED
    BY <1>10, <2>1, <2>2
<1>13. /\ Frame(p, t) \in Seq(Byte) /\ Len(Frame(p, t)) = Len(Y) + 4
    BY <1>4, <1>7, <1>8
<1>14. /\ Len(Frame(p, t)) \in Nat /\ Len(Frame(p, t)) >= 42 + Len(p)
       /\ Len(Frame(p, t)) <= 106 + Len(p)
    BY <1>1, <1>9, <1>13
<1> QED
    BY <1>1, <1>11, <1>12, <1>13, <1>14

\* So the frames of the programs are ours.
LEMMA FrameIsOurs ==
    ASSUME NEW c \in Clients, NEW n \in Nat, NEW t \in Trailers
    PROVE  /\ Proper(Frame(Packet(c, n), t))
           /\ \E wide, dw, end : Ours(Frame(Packet(c, n), t), wide, dw, end)
<1> DEFINE p == Packet(c, n)
           f == Frame(p, t)
<1>1. p \in Seq(Byte)
    BY PacketIs
<1>2. PICK body, wide, dw :
        /\ Commands(body, wide, dw)
        /\ Len(p) = Len(body) + 5
        /\ \A i \in 1..4 : p[i] = Magic[i]
        /\ \A i \in 1..Len(body) : p[4 + i] = body[i]
        /\ p[5 + Len(body)] = 0
    BY PacketIs
<1> HIDE DEF p
<1>3. /\ f \in Seq(Byte) /\ Len(f) \in Nat /\ Len(f) >= 42 + Len(p)
      /\ Len(f) <= 106 + Len(p)
      /\ \A i \in 1..42 : f[i] = HeaderBytes[i]
      /\ \A i \in 1..Len(p) : f[42 + i] = p[i]
    BY <1>1, FrameParts
<1> HIDE DEF f
<1> DEFINE len == CommandLen(wide, dw)
           end == 46 + Len(body)
           b == CommandByte(wide, dw)
<1>4. wide \in BOOLEAN /\ dw \in 1..31 /\ len \in 10..131
  <2>1. wide \in BOOLEAN /\ dw \in 1..31
    BY <1>2 DEF Commands
  <2> QED
    BY <2>1 DEF CommandLen
<1>5. /\ Len(body) \in Nat /\ Len(body) \in {len, 2 * len} /\ body[1] = b
      /\ Len(body) = 2 * len => body[1 + len] = b
    BY <1>2 DEF Commands
<1> HIDE DEF len, b
<1> DEFINE L == Len(body)
           M == Len(f)
<1>6. L \in 10..262 /\ Len(p) = L + 5
  <2>1. Len(p) = L + 5 /\ (L = len \/ L = 2 * len)
    BY <1>2, <1>5
  <2>2. \A l \in 10..131 : l \in 10..262 /\ 2 * l \in 10..262
    OBVIOUS
  <2>3. len \in 10..131
    BY <1>4
  <2>4. len \in 10..262 /\ 2 * len \in 10..262
    BY <2>2, <2>3
  <2> HIDE DEF L
  <2>5. L \in 10..262
    BY <2>1, <2>4
  <2> QED
    BY <2>1, <2>5
<1>7. M > 46 + L /\ M < 4096 /\ M \in Nat
  <2>1. M \in Nat /\ M >= 42 + Len(p) /\ M <= 106 + Len(p)
    BY <1>3
  <2> HIDE DEF L, M
  <2> QED
    BY <1>6, <2>1
<1>8. \A i \in 1..4 : f[42 + i] = Magic[i]
  <2>1. \A i \in 1..4 : i \in 1..Len(p)
    BY <1>6
  <2> QED
    BY <1>2, <1>3, <2>1
<1>9. \A x \in Fields : f[x + 1] = Wanted[x]
  <2>1. /\ Magic[1] = 161 /\ Magic[2] = 17 /\ Magic[3] = 0 /\ Magic[4] = 0
    BY DEF Magic
  <2>2. 42 + 1 = 43 /\ 42 + 2 = 44 /\ 42 + 3 = 45
    OBVIOUS
  <2>3. f[43] = 161 /\ f[44] = 17 /\ f[45] = 0
    BY <1>8, <2>1, <2>2
  <2>4. Wanted[42] = 161 /\ Wanted[43] = 17 /\ Wanted[44] = 0
    BY DEF Wanted, Fields
  <2>5. \A x \in Fields : x \in {42, 43, 44} \/ x \in 0..41
    BY DEF Fields
  <2>6. \A x \in Fields : x \in 0..41 => HeaderBytes[x + 1] = Wanted[x]
    <3> SUFFICES ASSUME NEW x \in Fields, x \in 0..41
                 PROVE  HeaderBytes[x + 1] = Wanted[x]
      OBVIOUS
    <3>1. x + 1 \in 1..42 /\ (x + 1) - 1 = x
      OBVIOUS
    <3> QED
      BY <3>1 DEF HeaderBytes
  <2>7. \A x \in 0..41 : f[x + 1] = HeaderBytes[x + 1]
    <3>1. \A x \in 0..41 : x + 1 \in 1..42
      OBVIOUS
    <3> QED
      BY <1>3, <3>1
  <2> QED
    BY <2>3, <2>4, <2>5, <2>6, <2>7
<1>10. f[46] = 0
  <2>1. 4 \in 1..4 /\ 42 + 4 = 46 /\ Magic[4] = 0
    BY DEF Magic
  <2> QED
    BY <1>8, <2>1
<1>11. \A i \in 1..Len(body) : f[46 + i] = body[i]
  <2> SUFFICES ASSUME NEW i \in 1..Len(body) PROVE f[46 + i] = body[i]
    OBVIOUS
  <2>1. 4 + i \in 1..Len(p) /\ 42 + (4 + i) = 46 + i
    BY <1>6
  <2> QED
    BY <1>2, <1>3, <2>1
<1>12. \A s \in Starts(wide, dw) : s < end => f[s + 1] = b
  <2> SUFFICES ASSUME NEW s \in {46, 46 + len}, s < end
               PROVE  f[s + 1] = b
    BY DEF Starts, len
  <2>1. CASE s = 46
    BY <1>5, <1>6, <1>11, <2>1
  <2>2. CASE s = 46 + len
    <3>1. Len(body) = 2 * len /\ 1 + len \in 1..Len(body)
      BY <1>4, <1>5, <2>2
    <3>2. s + 1 = 46 + (1 + len)
      BY <1>4, <2>2
    <3> QED
      BY <1>5, <1>11, <3>1, <3>2
  <2> QED
    BY <2>1, <2>2
<1>13. f[end + 1] = 0
  <2>1. 5 + Len(body) \in 1..Len(p) /\ 42 + (5 + Len(body)) = end + 1
    BY <1>6
  <2> QED
    BY <1>2, <1>3, <2>1
<1>14. end \in {46 + len, 46 + 2 * len}
    BY <1>5
<1>15. Ours(f, wide, dw, end)
    BY <1>4, <1>7, <1>9, <1>10, <1>12, <1>13, <1>14 DEF Ours, len, b
<1>16. Proper(f)
    BY <1>3, <1>7, <1>15 DEF Proper
<1> QED
    BY <1>15, <1>16 DEF f, p

\* A frame that differs in one of the bytes compared is not.
LEMMA ForeignIsOther ==
    ASSUME NEW c \in Clients, NEW t \in Trailers,
           NEW x \in Fields \union {LastField}
    PROVE  Proper([Frame(Packet(c, 1), t) EXCEPT ![x + 1] = 255 - @])
<1> DEFINE f == Frame(Packet(c, 1), t)
           g == [f EXCEPT ![x + 1] = 255 - @]
<1>1. PICK wide, dw, end : Ours(f, wide, dw, end)
    BY FrameIsOurs
<1>2. f \in Seq(Byte) /\ Len(f) < 4096 /\ Len(f) \in Nat
    BY FrameIsOurs DEF Proper
<1> HIDE DEF f
<1>3. Len(f) > 45
    BY <1>1, <1>2 DEF Ours, CommandLen
<1>4. x + 1 \in 1..Len(f) /\ x \in 0..45
    BY <1>2, <1>3 DEF Fields, LastField
<1>5. /\ f \in [1..Len(f) -> Byte] /\ f[x + 1] \in Byte
      /\ 255 - f[x + 1] \in Byte /\ 255 - f[x + 1] # f[x + 1]
  <2>1. f \in [1..Len(f) -> Byte] /\ f[x + 1] \in Byte
    BY <1>2, <1>4
  <2>2. \A b \in Byte : 255 - b \in Byte /\ 255 - b # b
    BY DEF Byte
  <2> QED
    BY <2>1, <2>2
<1>6. g \in Seq(Byte) /\ Len(g) = Len(f) /\ g[x + 1] = 255 - f[x + 1]
  <2>1. g \in [1..Len(f) -> Byte] /\ g[x + 1] = 255 - f[x + 1]
    BY <1>4, <1>5
  <2> QED
    BY <1>2, <2>1, SeqOf
<1> HIDE DEF g
<1>7. g[x + 1] # f[x + 1]
    BY <1>5, <1>6
<1>8. Others(g)
  <2>1. CASE x \in Fields
    BY <1>1, <1>3, <1>6, <1>7, <2>1 DEF Others, Ours
  <2>2. CASE x = LastField
    BY <1>1, <1>3, <1>6, <1>7, <2>2 DEF Others, Ours, LastField
  <2> QED
    BY <2>1, <2>2
<1> QED
    BY <1>2, <1>6, <1>8 DEF Proper, f, g

-----------------------------------------------------------------------------
(***************************************************************************)
(* Types.  The lengths are counters of a few bits that wrap around.        *)
(***************************************************************************)
ServerTypes ==
    /\ counter \in Below(4096) /\ hdr \in [Fields -> Byte]
    /\ srvStatus \in SrvStates /\ srv64 \in BOOLEAN
    /\ blen \in Below(128) /\ prev \in Byte /\ din \in Word
    /\ wrEn \in BOOLEAN

Lengths == Below(2048)
Addresses == [1..6 -> Byte]
ByteStrings == Seq(Byte)

Masters == [status : MstStates, wait : BOOLEAN, valid : BOOLEAN,
            done : BOOLEAN, length : Lengths, be : Byte,
            addr : Addresses, data : ByteStrings]

Steps == 1..11
Txs == [step : Steps, ready : BOOLEAN, delay : Nat]

MasterTypes ==
    /\ fifo \in Seq(Word) /\ mstDout \in Word /\ mstRdEn \in BOOLEAN
    /\ mst \in Masters /\ tx \in Txs

\* The numbers that n is above.
LEMMA InBelow ==
    ASSUME NEW n \in Nat, NEW k
    PROVE  k \in Below(n) <=> k \in Nat /\ k < n
    BY DEF Below

\* A byte for the parser.
LEMMA ByteTypes ==
    ASSUME ServerTypes, NEW b \in Byte, ServerByte(b)
    PROVE  ServerTypes'
<1>1. counter' \in Below(4096)
  <2>1. \A x : x \in Below(4096) <=> x \in Nat /\ x < 4096
    BY InBelow
  <2>2. \A x \in Nat : (x + 1) % 4096 \in Nat /\ (x + 1) % 4096 < 4096
    OBVIOUS
  <2>3. counter \in Nat /\ counter' = (counter + 1) % 4096
    BY <2>1 DEF ServerTypes, ServerByte
  <2> QED
    BY <2>1, <2>2, <2>3
<1>2. hdr' \in [Fields -> Byte] /\ prev' \in Byte
    BY DEF ServerTypes, ServerByte
<1>3. blen' \in Below(128) /\ srv64' \in BOOLEAN
  <2>1. \A x : x \in Below(128) <=> x \in Nat /\ x < 128
    BY InBelow
  <2>2. \A x \in Nat : x % 128 \in Nat /\ x % 128 < 128
    OBVIOUS
  <2>3. CASE Head0(b)
    <3>1. \A k \in Nat : 4 * (k % 64) \in Nat
      OBVIOUS
    <3>2. b \in Nat
      BY DEF Byte
    <3> QED
      BY <2>1, <2>2, <2>3, <3>1, <3>2 DEF Head0
  <2>4. CASE Data(b)
    <3>1. \A k \in Nat : k + 127 \in Nat
      OBVIOUS
    <3>2. blen \in Nat /\ blen' = (blen + 127) % 128
      BY <2>1, <2>4 DEF Data, ServerTypes
    <3>3. srv64' \in BOOLEAN
      BY <2>4 DEF Data, ServerTypes
    <3> QED
      BY <2>1, <2>2, <3>1, <3>2, <3>3
  <2>5. CASE UNCHANGED <<srv64, blen>>
    BY <2>5 DEF ServerTypes
  <2> QED
    BY <2>3, <2>4, <2>5
       DEF ServerByte, Idle, Head1, Addr64, Addr48, Addr32, Addr24, Addr16,
           Addr8
<1>4. srvStatus' \in SrvStates
    BY DEF ServerByte, Idle, Head0, Head1, Addr64, Addr48, Addr32, Addr24,
           Addr16, Addr8, Data, Goto, SrvStates
<1>5. wrEn' \in BOOLEAN
    BY DEF ServerByte, Idle, Head0, Head1, Addr64, Addr48, Addr32, Addr24,
           Addr16, Addr8, Data, Put, Hold
<1>6. din' \in Word
  <2>1. din \in Word /\ prev \in Byte /\ NoWord \in Word /\ 0 \in Byte
    BY DEF ServerTypes, NoWord, Word, Byte
  <2>2. din.lo \in Byte
    BY <2>1 DEF Word
  <2>3. \A w \in Word, x \in Byte, v \in BOOLEAN :
          /\ [w EXCEPT !.lo = x] \in Word /\ [w EXCEPT !.hi = x] \in Word
          /\ [w EXCEPT !.st = v] \in Word /\ [w EXCEPT !.en = v] \in Word
    BY DEF Word
  <2>4. CASE Idle(b) \/ Head0(b) \/ Addr64(b)
    <3>1. \A x, y \in Byte :
            [st |-> TRUE, en |-> FALSE, hi |-> x, lo |-> y] \in Word
      BY DEF Word
    <3> QED
      BY <2>1, <2>2, <3>1, <2>4 DEF Idle, Head0, Addr64, Put, Hold
  <2>5. CASE Head1(b) \/ Addr8(b) \/ Addr48(b) \/ Addr24(b)
    BY <2>1, <2>3, <2>5 DEF Head1, Addr8, Addr48, Addr24, Put
  <2>6. CASE Addr16(b)
    BY <2>1, <2>3, <2>6 DEF Addr16, Hold
  <2>7. CASE Addr32(b)
    <3>1. \A x, y \in Byte : [NoWord EXCEPT !.hi = x, !.lo = y] \in Word
      BY <2>1 DEF Word
    <3> QED
      BY <2>1, <2>2, <2>7, <3>1 DEF Addr32, Put, Hold
  <2>8. CASE Data(b)
    <3>1. \A w \in Word, x \in Byte, v \in BOOLEAN :
            /\ [w EXCEPT !.st = FALSE, !.en = FALSE, !.hi = x] \in Word
            /\ [w EXCEPT !.st = FALSE, !.en = v, !.lo = x] \in Word
      BY DEF Word
    <3>2. (blen = 1) \in BOOLEAN
      OBVIOUS
    <3>3. \/ din' = [din EXCEPT !.st = FALSE, !.en = FALSE, !.hi = b]
          \/ din' = [din EXCEPT !.st = FALSE, !.en = (blen = 1), !.lo = b]
      BY <2>8, Zenon DEF Data, Put, Hold
    <3>4. CASE din' = [din EXCEPT !.st = FALSE, !.en = FALSE, !.hi = b]
      BY <2>1, <3>1, <3>4
    <3>5. CASE din' = [din EXCEPT !.st = FALSE, !.en = (blen = 1), !.lo = b]
      BY <2>1, <3>1, <3>2, <3>5, Zenon
    <3> QED
      BY <3>3, <3>4, <3>5
  <2> QED
    BY <2>4, <2>5, <2>6, <2>7, <2>8 DEF ServerByte
<1> QED
    BY <1>1, <1>2, <1>3, <1>4, <1>5, <1>6 DEF ServerTypes

\* One state of the master sequencer after the other.
LEMMA MstTypes ==
    ASSUME NEW m \in Masters, NEW w \in Word
    PROVE  /\ MstIdle(m, w) \in Masters
           /\ m.status \notin {"IDLE", "MWRITED"} => MstAddr(m, w) \in Masters
           /\ MstData(m, w) \in Masters
<1>1. /\ w.st \in BOOLEAN /\ w.hi \in Byte /\ w.lo \in Byte
    BY DEF Word
<1>2. \A b \in Byte : 4 * (b \div 4) \in Byte /\ b \in Nat
    BY DEF Byte
<1>3. \A x : x \in Lengths <=> x \in Nat /\ x < 2048
    BY InBelow DEF Lengths
<1>4. \A a \in Addresses, x, y \in Byte :
        /\ [a EXCEPT ![1] = x, ![2] = y] \in Addresses
        /\ [a EXCEPT ![3] = x, ![4] = y] \in Addresses
        /\ [a EXCEPT ![5] = x, ![6] = y] \in Addresses
    BY DEF Addresses
<1>5. m.status \in MstStates /\ m.addr \in Addresses /\ m.length \in Lengths
    BY DEF Masters
<1>6. MstIdle(m, w) \in Masters
  <2>1. CASE w.st
    <3>1. 2 * (w.hi % 64) \in Lengths
      <4>1. \A k \in Nat : 2 * (k % 64) \in Nat /\ 2 * (k % 64) < 2048
        OBVIOUS
      <4> QED
        BY <1>1, <1>2, <1>3, <4>1
    <3>2. PICK l \in Lengths : l = 2 * (w.hi % 64)
      BY <3>1
    <3>3. PICK a \in Addresses : a = [m.addr EXCEPT ![1] = 0, ![2] = 0]
      <4>1. 0 \in Byte
        BY DEF Byte
      <4> QED
        BY <1>4, <1>5, <4>1
    <3>4. PICK s \in MstStates : s = IF (w.hi \div 64) % 2 = 1
                                       THEN "MWRITE64" ELSE "MWRITE32"
      BY DEF MstStates
    <3>5. MstIdle(m, w) = [m EXCEPT !.valid = FALSE, !.length = l,
                                    !.be = w.lo, !.addr = a, !.status = s]
      BY <2>1, <3>2, <3>3, <3>4, Zenon DEF MstIdle
    <3>6. [m EXCEPT !.valid = FALSE, !.length = l, !.be = w.lo, !.addr = a,
                    !.status = s] \in Masters
      BY <1>1 DEF Masters
    <3> QED
      BY <3>5, <3>6
  <2>2. CASE ~w.st
    <3>1. [m EXCEPT !.valid = FALSE] \in Masters
      BY DEF Masters
    <3> QED
      BY <2>2, <3>1 DEF MstIdle
  <2> QED
    BY <2>1, <2>2
<1>7. ASSUME m.status \notin {"IDLE", "MWRITED"}
      PROVE  MstAddr(m, w) \in Masters
  <2>1. \A a \in Addresses, s \in MstStates :
          /\ [m EXCEPT !.status = s] \in Masters
          /\ [m EXCEPT !.addr = a, !.status = s] \in Masters
          /\ [m EXCEPT !.addr = a, !.valid = TRUE, !.wait = TRUE,
                       !.status = s] \in Masters
    BY DEF Masters
  <2>2. {"MWRITE48", "MWRITE32", "MWRITE16", "MWRITED"} \subseteq MstStates
    BY DEF MstStates
  <2>3. CASE m.status = "MWRITE64"
    <3>1. MstAddr(m, w) = [m EXCEPT !.status = "MWRITE48"]
      BY <2>3 DEF MstAddr
    <3>2. "MWRITE48" \in MstStates
      BY <2>2
    <3>3. [m EXCEPT !.status = "MWRITE48"] \in Masters
      BY <3>2 DEF Masters
    <3> QED
      BY <3>1, <3>3
  <2>4. CASE m.status = "MWRITE48"
    <3>1. PICK a \in Addresses :
            a = [m.addr EXCEPT ![1] = w.hi, ![2] = w.lo]
      BY <1>1, <1>4, <1>5
    <3> QED
      BY <2>1, <2>2, <2>4, <3>1 DEF MstAddr
  <2>5. CASE m.status = "MWRITE32"
    <3>1. PICK a \in Addresses :
            a = [m.addr EXCEPT ![3] = w.hi, ![4] = w.lo]
      BY <1>1, <1>4, <1>5
    <3> QED
      BY <2>1, <2>2, <2>5, <3>1 DEF MstAddr
  <2>6. CASE m.status = "MWRITE16"
    <3>1. PICK a \in Addresses :
            a = [m.addr EXCEPT ![5] = w.hi, ![6] = 4 * (w.lo \div 4)]
      BY <1>1, <1>2, <1>4, <1>5
    <3> QED
      BY <2>1, <2>2, <2>6, <3>1 DEF MstAddr
  <2> QED
    BY <1>5, <1>7, <2>3, <2>4, <2>5, <2>6 DEF MstStates
<1>8. MstData(m, w) \in Masters
  <2> DEFINE l == (m.length + 2047) % 2048
             d == <<w.hi, w.lo>>
             s == IF m.length = LastLength THEN "IDLE" ELSE m.status
             v == m.length = LastLength
  <2>1. l \in Lengths
    <3>1. \A k \in Nat : /\ (k + 2047) % 2048 \in Nat
                         /\ (k + 2047) % 2048 < 2048
      OBVIOUS
    <3> QED
      BY <1>3, <1>5, <3>1
  <2>2. d \in ByteStrings
    <3>1. \A x, y \in Byte : <<x, y>> \in Seq(Byte)
      OBVIOUS
    <3> QED
      BY <1>1, <3>1 DEF ByteStrings
  <2>3. s \in MstStates /\ v \in BOOLEAN
    BY <1>5 DEF MstStates
  <2>4. MstData(m, w) = [m EXCEPT !.valid = FALSE, !.wait = FALSE,
                                  !.data = d, !.length = l, !.done = v,
                                  !.status = s]
    BY Zenon DEF MstData
  <2> HIDE DEF l, d, s, v
  <2>5. [m EXCEPT !.valid = FALSE, !.wait = FALSE, !.data = d, !.length = l,
                  !.done = v, !.status = s] \in Masters
    BY <2>1, <2>2, <2>3 DEF Masters
  <2> QED
    BY <2>4, <2>5
<1> QED
    BY <1>6, <1>7, <1>8

\* An edge for the FIFO, the master and the transmit sequencer.
LEMMA MasterStep ==
    ASSUME MasterTypes, wrEn \in BOOLEAN, din \in Word, MasterClk(wrEn, din)
    PROVE  MasterTypes'
<1>1. fifo \in Seq(Word) /\ mst \in Masters /\ mstDout \in Word /\ tx \in Txs
    BY DEF MasterTypes
<1>2. fifo' \in Seq(Word)
  <2>1. (IF Reads THEN Tail(fifo) ELSE fifo) \in Seq(Word)
    BY <1>1 DEF Reads
  <2>2. (IF wrEn /\ Len(fifo) < FifoWords THEN <<din>> ELSE <<>>) \in Seq(Word)
    OBVIOUS
  <2>3. \A s, t \in Seq(Word) : s \o t \in Seq(Word)
    OBVIOUS
  <2>4. fifo' = (IF Reads THEN Tail(fifo) ELSE fifo)
                  \o (IF wrEn /\ Len(fifo) < FifoWords THEN <<din>> ELSE <<>>)
    BY DEF MasterClk, FifoClk
  <2> QED
    BY <2>1, <2>2, <2>3, <2>4
<1>3. mstDout' \in Word
    BY <1>1 DEF MasterClk, FifoClk, Reads
<1>4. mstRdEn' \in BOOLEAN
    BY DEF MasterClk, MstClk
<1>5. mst' \in Masters
  <2> DEFINE m == [mst EXCEPT !.done = FALSE]
  <2>1. m \in Masters /\ m.status = mst.status
    BY <1>1 DEF Masters
  <2>2. mst' = CASE mst.status = "IDLE" /\ Reads -> MstIdle(m, mstDout)
                 [] mst.status = "MWRITED" /\ tx.ready -> MstData(m, mstDout)
                 [] mst.status \notin {"IDLE", "MWRITED"} /\ Reads
                      -> MstAddr(m, mstDout)
                 [] OTHER -> m
    BY DEF MasterClk, MstClk
  <2> HIDE DEF m
  <2>3. /\ MstIdle(m, mstDout) \in Masters /\ MstData(m, mstDout) \in Masters
        /\ m.status \notin {"IDLE", "MWRITED"}
             => MstAddr(m, mstDout) \in Masters
    BY <1>1, <2>1, MstTypes
  <2> QED
    BY <2>1, <2>2, <2>3
<1>6. tx' \in Txs
  <2>1. tx.step \in Steps /\ tx.ready \in BOOLEAN /\ tx.delay \in Nat
    BY <1>1 DEF Txs
  <2>2. \A s \in Steps, d \in Nat, r \in BOOLEAN :
          /\ [tx EXCEPT !.step = s] \in Txs /\ [tx EXCEPT !.delay = d] \in Txs
          /\ [tx EXCEPT !.step = s, !.delay = d] \in Txs
          /\ [tx EXCEPT !.step = s, !.ready = r] \in Txs
    BY <1>1 DEF Txs
  <2>3. \A s \in Steps : TxSteps[s] # "DATA" => s + 1 \in Steps
    BY DEF Steps, TxSteps
  <2>4. 1 \in Steps
    BY DEF Steps
  <2>5. ~TxStep("DATA") => tx.step + 1 \in Steps
    BY <2>1, <2>3 DEF TxStep
  <2>6. CASE TxStart
    <3>1. ~TxStep("DATA")
      BY <2>6 DEF TxStart, TxStep
    <3>2. tx.step + 1 \in Steps
      BY <2>5, <3>1
    <3>3. CASE tx' = tx
      BY <1>1, <3>3
    <3>4. ASSUME NEW d \in RdyDelays,
                 tx' = [tx EXCEPT !.step = @ + 1, !.delay = d]
          PROVE  tx' \in Txs
      <4>1. d \in Nat
        BY RdyDelaysAssumption
      <4> QED
        BY <2>2, <3>2, <3>4, <4>1
    <3> QED
      BY <2>6, <3>3, <3>4 DEF TxStart
  <2>7. CASE TxWait
    <3>1. ~TxStep("DATA")
      BY <2>7 DEF TxWait, TxStep
    <3>2. tx.delay # 0 => tx.delay - 1 \in Nat
      BY <2>1
    <3> QED
      BY <2>2, <2>5, <2>7, <3>1, <3>2 DEF TxWait
  <2>8. CASE TxHeader
    <3>1. ~TxStep("DATA")
      BY <2>8 DEF TxHeader, TxStep
    <3>2. PICK r \in BOOLEAN : r = (tx.ready \/ TxStep("COMP4"))
      OBVIOUS
    <3>3. PICK s \in Steps : s = tx.step + 1
      BY <2>5, <3>1
    <3>4. tx' = [tx EXCEPT !.step = s, !.ready = r]
      BY <2>8, <3>2, <3>3, Zenon DEF TxHeader
    <3> QED
      BY <2>2, <3>4
  <2>9. CASE TxData
    BY <1>1, <2>2, <2>4, <2>9 DEF TxData
  <2> QED
    BY <2>6, <2>7, <2>8, <2>9 DEF MasterClk, TxClk
<1> QED
    BY <1>2, <1>3, <1>4, <1>5, <1>6 DEF MasterTypes

-----------------------------------------------------------------------------
(***************************************************************************)
(* The parser in step with the frame f.  Until byte 45 it has stored what  *)
(* f has in the fields; then it passes over a frame of others, and in one  *)
(* of ours it knows, in each state, how far it is to the end of a command. *)
(***************************************************************************)
WireTypes ==
    /\ DOMAIN sent \subseteq Clients /\ sent \in [DOMAIN sent -> Nat]
    /\ wire \in Seq(Byte) /\ gap \in Nat

TypeInv == ServerTypes /\ MasterTypes /\ WireTypes

\* The rest of the frame is what is on the wire.
OnWire(f) ==
    /\ counter + Len(wire) = Len(f)
    /\ \A k \in 1..Len(wire) : wire[k] = f[counter + k]

Header(f) ==
    /\ srvStatus = "IDLE" /\ counter <= LastField
    /\ \A x \in Fields : x < counter => hdr[x] = f[x + 1]

Passed(f) == srvStatus = "IDLE" /\ counter > LastField /\ Others(f)

At(status, k, stop) == srvStatus = status /\ counter + k = stop

\* In the command that ends before byte number stop.
InCommand(wide, dw, stop) ==
    \/ At("HEAD0", CommandLen(wide, dw), stop)
    \/ /\ srv64 = wide /\ blen = 4 * dw
       /\ \/ At("HEAD1", CommandLen(wide, dw) - 1, stop)
          \/ wide /\ \/ At("ADDR64", 5 + 4 * dw, stop)
                     \/ At("ADDR48", 4 + 4 * dw, stop)
                     \/ At("ADDR32", 3 + 4 * dw, stop)
          \/ ~wide /\ \/ At("ADDR32", 4 + 4 * dw, stop)
                      \/ At("ADDR24", 3 + 4 * dw, stop)
          \/ At("ADDR16", 2 + 4 * dw, stop)
          \/ At("ADDR8", 1 + 4 * dw, stop)
    \/ At("DATA", blen, stop) /\ blen \in Nat /\ 0 < blen /\ blen <= 4 * dw

Stops(wide, dw) == {46 + CommandLen(wide, dw), 46 + 2 * CommandLen(wide, dw)}

InOurs(f, wide, dw, end) ==
    /\ Ours(f, wide, dw, end)
    /\ \/ \E stop \in Stops(wide, dw) :
            stop <= end /\ InCommand(wide, dw, stop)
       \/ srvStatus = "HEAD0" /\ counter = end
       \/ srvStatus = "IDLE" /\ counter > end

InStep(f) ==
    /\ Proper(f) /\ OnWire(f)
    /\ \/ Header(f)
       \/ Passed(f)
       \/ \E wide, dw, end : InOurs(f, wide, dw, end)

ParserInv ==
    IF gap > 0 THEN counter = 0 /\ wire = <<>> /\ srvStatus = "IDLE"
    ELSE \E f : InStep(f)

\* What the parser makes of the first byte of a command.
LEMMA CommandByteRead ==
    ASSUME NEW wide \in BOOLEAN, NEW dw \in 1..31
    PROVE  LET b == CommandByte(wide, dw)
           IN  /\ b # 0 /\ ((b \div 64) % 2 = 1) = wide
               /\ (4 * (b % 64)) % 128 = 4 * dw
<1>1. \A d \in Nat : d < 32 => /\ (192 + d) \div 64 = 3 /\ (192 + d) % 64 = d
                               /\ (128 + d) \div 64 = 2 /\ (128 + d) % 64 = d
    OBVIOUS
<1>2. 3 % 2 = 1 /\ 2 % 2 = 0 /\ dw \in Nat /\ dw < 32
    OBVIOUS
<1>3. \A d \in Nat : d < 32 => (4 * d) % 128 = 4 * d
    OBVIOUS
<1>4. CASE wide = TRUE
  <2>1. CommandByte(wide, dw) = 192 + dw
    BY <1>2, <1>4 DEF CommandByte
  <2>2. /\ (192 + dw) \div 64 = 3 /\ (192 + dw) % 64 = dw
        /\ 192 + dw # 0
    BY <1>1, <1>2
  <2>3. ((192 + dw) \div 64) % 2 = 1
    BY <1>2, <2>2
  <2>4. (4 * ((192 + dw) % 64)) % 128 = 4 * dw
    BY <1>2, <1>3, <2>2
  <2>5. ((((192 + dw) \div 64) % 2) = 1) = TRUE
    BY <2>3
  <2> QED
    BY <1>4, <2>1, <2>2, <2>4, <2>5
<1>5. CASE wide = FALSE
  <2>1. CommandByte(wide, dw) = 128 + dw
    BY <1>2, <1>5 DEF CommandByte
  <2>2. /\ (128 + dw) \div 64 = 2 /\ (128 + dw) % 64 = dw
        /\ 128 + dw # 0
    BY <1>1, <1>2
  <2>3. ((128 + dw) \div 64) % 2 = 0
    BY <1>2, <2>2
  <2>4. (4 * ((128 + dw) % 64)) % 128 = 4 * dw
    BY <1>2, <1>3, <2>2
  <2>5. ((((128 + dw) \div 64) % 2) = 1) = FALSE
    BY <2>3
  <2> QED
    BY <1>5, <2>1, <2>2, <2>4, <2>5
<1> QED
    BY <1>4, <1>5

\* The states between the first byte of a command and its data.
LEMMA HeadPassed ==
    ASSUME NEW wide \in BOOLEAN, NEW dw \in Nat, 0 < dw, NEW stop \in Nat,
           NEW b, counter \in Nat, counter' = counter + 1,
           InCommand(wide, dw, stop),
           srvStatus \notin {"HEAD0", "DATA"},
           \/ Idle(b) \/ Head0(b) \/ Head1(b) \/ Addr64(b) \/ Addr48(b)
           \/ Addr32(b) \/ Addr24(b) \/ Addr16(b) \/ Addr8(b) \/ Data(b)
    PROVE  InCommand(wide, dw, stop)'
<1>1. srv64 = wide /\ blen = 4 * dw
    BY DEF InCommand, At
<1>2. CASE srvStatus = "HEAD1"
  <2>1. counter + CommandLen(wide, dw) - 1 = stop
    BY <1>2 DEF InCommand, At, CommandLen
  <2>2. /\ srvStatus' = IF wide THEN "ADDR64" ELSE "ADDR32"
        /\ srv64' = wide /\ blen' = 4 * dw
    BY <1>1, <1>2 DEF Head1, Goto, Idle, Head0, Addr64, Addr48, Addr32,
                      Addr24, Addr16, Addr8, Data
  <2>3. /\ wide => counter' + (5 + 4 * dw) = stop
        /\ ~wide => counter' + (4 + 4 * dw) = stop
    BY <2>1 DEF CommandLen
  <2> QED
    BY <2>2, <2>3 DEF InCommand, At
<1>3. CASE srvStatus = "ADDR64"
  <2>1. wide /\ counter + (5 + 4 * dw) = stop
    BY <1>3 DEF InCommand, At
  <2>2. srvStatus' = "ADDR48" /\ srv64' = wide /\ blen' = 4 * dw
    BY <1>1, <1>3 DEF Head1, Goto, Idle, Head0, Addr64, Addr48, Addr32,
                      Addr24, Addr16, Addr8, Data
  <2>3. counter' + (4 + 4 * dw) = stop
    BY <2>1
  <2> QED
    BY <2>1, <2>2, <2>3 DEF InCommand, At
<1>4. CASE srvStatus = "ADDR48"
  <2>1. wide /\ counter + (4 + 4 * dw) = stop
    BY <1>4 DEF InCommand, At
  <2>2. srvStatus' = "ADDR32" /\ srv64' = wide /\ blen' = 4 * dw
    BY <1>1, <1>4 DEF Head1, Goto, Idle, Head0, Addr64, Addr48, Addr32,
                      Addr24, Addr16, Addr8, Data
  <2>3. counter' + (3 + 4 * dw) = stop
    BY <2>1
  <2> QED
    BY <2>1, <2>2, <2>3 DEF InCommand, At
<1>5. CASE srvStatus = "ADDR32"
  <2>1. /\ wide => counter + (3 + 4 * dw) = stop
        /\ ~wide => counter + (4 + 4 * dw) = stop
    BY <1>5 DEF InCommand, At
  <2>2. /\ srvStatus' = IF wide THEN "ADDR16" ELSE "ADDR24"
        /\ srv64' = wide /\ blen' = 4 * dw
    BY <1>1, <1>5 DEF Head1, Goto, Idle, Head0, Addr64, Addr48, Addr32,
                      Addr24, Addr16, Addr8, Data
  <2>3. /\ wide => counter' + (2 + 4 * dw) = stop
        /\ ~wide => counter' + (3 + 4 * dw) = stop
    BY <2>1
  <2> QED
    BY <2>2, <2>3 DEF InCommand, At
<1>6. CASE srvStatus = "ADDR24"
  <2>1. ~wide /\ counter + (3 + 4 * dw) = stop
    BY <1>6 DEF InCommand, At
  <2>2. srvStatus' = "ADDR16" /\ srv64' = wide /\ blen' = 4 * dw
    BY <1>1, <1>6 DEF Head1, Goto, Idle, Head0, Addr64, Addr48, Addr32,
                      Addr24, Addr16, Addr8, Data
  <2>3. counter' + (2 + 4 * dw) = stop
    BY <2>1
  <2> QED
    BY <2>2, <2>3 DEF InCommand, At
<1>7. CASE srvStatus = "ADDR16"
  <2>1. counter + (2 + 4 * dw) = stop
    BY <1>7 DEF InCommand, At
  <2>2. srvStatus' = "ADDR8" /\ srv64' = wide /\ blen' = 4 * dw
    BY <1>1, <1>7 DEF Head1, Goto, Idle, Head0, Addr64, Addr48, Addr32,
                      Addr24, Addr16, Addr8, Data
  <2>3. counter' + (1 + 4 * dw) = stop
    BY <2>1
  <2> QED
    BY <2>2, <2>3 DEF InCommand, At
<1>8. CASE srvStatus = "ADDR8"
  <2>1. counter + (1 + 4 * dw) = stop
    BY <1>8 DEF InCommand, At
  <2>2. srvStatus' = "DATA" /\ blen' = 4 * dw
    BY <1>1, <1>8 DEF Head1, Goto, Idle, Head0, Addr64, Addr48, Addr32,
                      Addr24, Addr16, Addr8, Data
  <2>3. /\ counter' + 4 * dw = stop /\ 4 * dw \in Nat
        /\ 0 < 4 * dw /\ 4 * dw <= 4 * dw
    BY <2>1
  <2> QED
    BY <2>2, <2>3 DEF InCommand, At
<1> QED
    BY <1>2, <1>3, <1>4, <1>5, <1>6, <1>7, <1>8 DEF InCommand, At

\* The first byte of a command.
LEMMA HeadRead ==
    ASSUME NEW wide \in BOOLEAN, NEW dw \in 1..31, NEW stop \in Nat,
           counter \in Nat, counter' = counter + 1,
           At("HEAD0", CommandLen(wide, dw), stop),
           Head0(CommandByte(wide, dw))
    PROVE  InCommand(wide, dw, stop)'
<1>1. /\ CommandByte(wide, dw) # 0
      /\ ((CommandByte(wide, dw) \div 64) % 2 = 1) = wide
      /\ (4 * (CommandByte(wide, dw) % 64)) % 128 = 4 * dw
    BY CommandByteRead
<1>2. srv64' = wide /\ blen' = 4 * dw /\ srvStatus' = "HEAD1"
    BY <1>1 DEF Head0, Goto
<1>3. CommandLen(wide, dw) \in Nat
    BY DEF CommandLen
<1>4. counter' + (CommandLen(wide, dw) - 1) = stop
    BY <1>3 DEF At
<1> QED
    BY <1>2, <1>4 DEF InCommand, At

\* A byte of the data; after the last one comes a command or the delimiter.
LEMMA DataRead ==
    ASSUME NEW dw \in 1..31, NEW stop \in Nat, NEW b,
           counter \in Nat, counter' = counter + 1, Data(b),
           counter + blen = stop, blen \in Nat, 0 < blen, blen <= 4 * dw
    PROVE  \/ /\ srvStatus' = "DATA" /\ counter' + blen' = stop
              /\ blen' \in Nat /\ 0 < blen' /\ blen' <= 4 * dw
           \/ srvStatus' = "HEAD0" /\ counter' = stop
<1>1. \A k \in Nat : 0 < k /\ k < 128 => (k + 127) % 128 = k - 1
    OBVIOUS
<1>2. blen < 128
    OBVIOUS
<1>3. blen' = blen - 1
    BY <1>1, <1>2 DEF Data
<1>4. srvStatus' = IF blen = 1 THEN "HEAD0" ELSE "DATA"
    BY DEF Data, Goto
<1>5. CASE blen = 1
    BY <1>4, <1>5
<1>6. CASE blen # 1
  <2>1. /\ counter' + blen' = stop /\ blen' \in Nat /\ 0 < blen'
        /\ blen' <= 4 * dw
    BY <1>3, <1>6
  <2> QED
    BY <1>4, <1>6, <2>1
<1> QED
    BY <1>5, <1>6

\* In a frame of ours.
LEMMA OursStep ==
    ASSUME NEW f, NEW wide, NEW dw, NEW end, InOurs(f, wide, dw, end),
           counter \in Nat, counter' = counter + 1,
           ServerByte(f[counter + 1])
    PROVE  InOurs(f, wide, dw, end)'
<1> DEFINE b == f[counter + 1]
           len == CommandLen(wide, dw)
<1>1. /\ wide \in BOOLEAN /\ dw \in 1..31 /\ end \in {46 + len, 46 + 2 * len}
      /\ \A s \in Starts(wide, dw) : s < end => f[s + 1] = CommandByte(wide, dw)
      /\ f[end + 1] = 0 /\ Ours(f, wide, dw, end)
    BY DEF InOurs, Ours
<1>2. len \in Nat /\ len > 0 /\ Stops(wide, dw) \subseteq Nat /\ end \in Nat
    BY <1>1 DEF CommandLen, Stops
<1>3. \/ Idle(b) \/ Head0(b) \/ Head1(b) \/ Addr64(b) \/ Addr48(b)
      \/ Addr32(b) \/ Addr24(b) \/ Addr16(b) \/ Addr8(b) \/ Data(b)
    BY DEF ServerByte
<1> HIDE DEF b, len
<1>4. Ours(f, wide, dw, end)'
    BY <1>1 DEF Ours
<1>5. CASE \E stop \in Stops(wide, dw) :
             stop <= end /\ InCommand(wide, dw, stop)
  <2>1. PICK stop \in Stops(wide, dw) :
          stop <= end /\ InCommand(wide, dw, stop)
    BY <1>5
  <2>2. stop \in Nat /\ dw \in Nat /\ 0 < dw
    BY <1>1, <1>2
  <2>3. CASE srvStatus = "HEAD0"
    <3>1. At("HEAD0", len, stop)
      BY <2>1, <2>3 DEF InCommand, At, len
    <3>2. counter + len = stop
      BY <3>1 DEF At
    <3>3. stop \in {46 + len, 46 + 2 * len}
      BY DEF Stops, len
    <3>4. counter \in {46, 46 + len} /\ counter < end
      BY <1>2, <2>1, <3>2, <3>3
    <3>5. b = CommandByte(wide, dw)
      BY <1>1, <3>4 DEF Starts, len, b
    <3>6. Head0(CommandByte(wide, dw))
      BY <1>3, <2>3, <3>5 DEF Idle, Head1, Addr64, Addr48, Addr32, Addr24,
                              Addr16, Addr8, Data
    <3>7. InCommand(wide, dw, stop)'
      BY <1>1, <2>2, <3>1, <3>6, HeadRead DEF len
    <3> QED
      BY <1>4, <2>1, <3>7 DEF InOurs
  <2>4. CASE srvStatus = "DATA"
    <3>1. Data(b)
      BY <1>3, <2>4 DEF Idle, Head0, Head1, Addr64, Addr48, Addr32, Addr24,
                        Addr16, Addr8
    <3>2. counter + blen = stop /\ blen \in Nat /\ 0 < blen /\ blen <= 4 * dw
      BY <2>1, <2>4 DEF InCommand, At
    <3>3. \/ /\ srvStatus' = "DATA" /\ counter' + blen' = stop
             /\ blen' \in Nat /\ 0 < blen' /\ blen' <= 4 * dw
          \/ srvStatus' = "HEAD0" /\ counter' = stop
      BY <1>1, <2>2, <3>1, <3>2, DataRead
    <3>4. CASE srvStatus' = "DATA"
      <4>1. InCommand(wide, dw, stop)'
        BY <3>3, <3>4 DEF InCommand, At
      <4> QED
        BY <1>4, <2>1, <4>1 DEF InOurs
    <3>5. CASE srvStatus' = "HEAD0" /\ counter' = stop
      <4>1. CASE stop = end
        BY <1>4, <3>5, <4>1 DEF InOurs
      <4>2. CASE stop # end
        <5>1. stop \in {46 + len, 46 + 2 * len}
          BY DEF Stops, len
        <5>2. counter' + len = end
          BY <1>1, <1>2, <2>1, <3>5, <4>2, <5>1
        <5>3. InCommand(wide, dw, end)'
          BY <3>5, <5>2 DEF InCommand, At, len
        <5>4. end \in Stops(wide, dw) /\ end <= end
          BY <1>1, <1>2 DEF Stops, len
        <5> QED
          BY <1>4, <5>3, <5>4 DEF InOurs
      <4> QED
        BY <4>1, <4>2
    <3> QED
      BY <3>3, <3>4, <3>5
  <2>5. CASE srvStatus \notin {"HEAD0", "DATA"}
    <3>1. InCommand(wide, dw, stop)'
      BY <1>1, <1>3, <2>1, <2>2, <2>5, HeadPassed
    <3> QED
      BY <1>4, <2>1, <3>1 DEF InOurs
  <2> QED
    BY <2>3, <2>4, <2>5
<1>6. CASE srvStatus = "HEAD0" /\ counter = end
  <2>1. b = 0
    BY <1>1, <1>6 DEF b
  <2>2. Head0(b)
    BY <1>3, <1>6 DEF Idle, Head1, Addr64, Addr48, Addr32, Addr24, Addr16,
                      Addr8, Data
  <2>3. srvStatus' = "IDLE"
    BY <2>1, <2>2 DEF Head0, Goto
  <2>4. counter' > end
    BY <1>2, <1>6
  <2> QED
    BY <1>4, <2>3, <2>4 DEF InOurs
<1>7. CASE srvStatus = "IDLE" /\ counter > end
  <2>1. counter # LastField /\ counter' > end
    BY <1>1, <1>2, <1>7 DEF LastField
  <2>2. Idle(b)
    BY <1>3, <1>7 DEF Head0, Head1, Addr64, Addr48, Addr32, Addr24, Addr16,
                      Addr8, Data
  <2>3. srvStatus' = "IDLE"
    BY <2>1, <2>2 DEF Idle, Goto
  <2> QED
    BY <1>4, <2>1, <2>3 DEF InOurs
<1> QED
    BY <1>5, <1>6, <1>7 DEF InOurs

\* In the header, and past the header of a frame of others.
LEMMA HeaderStep ==
    ASSUME NEW f, Proper(f), Header(f) \/ Passed(f),
           hdr \in [Fields -> Byte],
           counter \in Nat, counter' = counter + 1,
           ServerByte(f[counter + 1])
    PROVE  \/ Header(f)' \/ Passed(f)'
           \/ \E wide, dw, end : InOurs(f, wide, dw, end)'
<1> DEFINE b == f[counter + 1]
<1>1. srvStatus = "IDLE"
    BY DEF Header, Passed
<1>2. Idle(b)
    BY <1>1 DEF ServerByte, Head0, Head1, Addr64, Addr48, Addr32, Addr24,
                Addr16, Addr8, Data
<1>3. srvStatus' = IF counter = LastField /\ hdr = Wanted /\ b = 0
                     THEN "HEAD0" ELSE "IDLE"
    BY <1>2 DEF Idle, Goto
<1>4. CASE counter < LastField
  <2>1. srvStatus' = "IDLE" /\ counter' <= LastField
    BY <1>3, <1>4 DEF LastField
  <2>2. hdr' = IF counter \in Fields THEN [hdr EXCEPT ![counter] = b] ELSE hdr
    BY <1>1 DEF ServerByte
  <2>3. \A x \in Fields : x < counter => hdr[x] = f[x + 1]
    BY <1>4 DEF Header, Passed, LastField
  <2>4. ASSUME NEW x \in Fields, x < counter'
        PROVE  hdr'[x] = f[x + 1]
    <3>1. x \in Nat
      BY DEF Fields
    <3>2. CASE x = counter
      BY <2>2, <3>2
    <3>3. CASE x # counter
      <4>1. x < counter
        BY <2>4, <3>1, <3>3
      <4>2. hdr'[x] = hdr[x]
        BY <2>2, <3>3
      <4> QED
        BY <2>3, <4>1, <4>2
    <3> QED
      BY <3>2, <3>3
  <2> QED
    BY <2>1, <2>4 DEF Header
<1>5. CASE counter = LastField
  <2>1. \A x \in Fields : hdr[x] = f[x + 1]
    <3>1. Header(f)
      BY <1>5 DEF Passed, LastField
    <3>2. \A x \in Fields : x < counter
      BY <1>5 DEF Fields, LastField
    <3> QED
      BY <3>1, <3>2 DEF Header
  <2>2. b = f[46] /\ counter' = 46
    BY <1>5 DEF LastField
  <2>3. hdr = Wanted <=> \A x \in Fields : f[x + 1] = Wanted[x]
    <3>1. Wanted = [x \in Fields |-> Wanted[x]]
      BY DEF Wanted
    <3>2. hdr = [x \in Fields |-> hdr[x]]
      OBVIOUS
    <3> QED
      BY <2>1, <3>1, <3>2
  <2>4. CASE Others(f)
    <3>1. srvStatus' = "IDLE"
      BY <1>3, <2>2, <2>3, <2>4 DEF Others
    <3>2. Passed(f)'
      BY <2>2, <2>4, <3>1 DEF Passed, LastField, Others
    <3> QED
      BY <3>2
  <2>5. CASE ~Others(f)
    <3>1. PICK wide, dw, end : Ours(f, wide, dw, end)
      BY <2>5 DEF Proper
    <3>2. srvStatus' = "HEAD0"
      BY <1>3, <1>5, <2>2, <2>3, <3>1 DEF Ours
    <3> DEFINE stop == 46 + CommandLen(wide, dw)
    <3>3. stop \in Stops(wide, dw) /\ stop <= end
      BY <3>1 DEF Ours, Stops, CommandLen
    <3>4. InCommand(wide, dw, stop)'
      BY <2>2, <3>2 DEF InCommand, At
    <3> HIDE DEF stop
    <3>5. Ours(f, wide, dw, end)'
      BY <3>1 DEF Ours
    <3>6. InOurs(f, wide, dw, end)'
      BY <3>3, <3>4, <3>5 DEF InOurs
    <3> QED
      BY <3>6
  <2> QED
    BY <2>4, <2>5
<1>6. CASE counter > LastField
  <2>1. Passed(f)
    BY <1>6 DEF Header, LastField
  <2>2. srvStatus' = "IDLE" /\ counter' > LastField
    BY <1>3, <1>6 DEF LastField
  <2> QED
    BY <2>1, <2>2 DEF Passed, Others
<1> QED
    BY <1>4, <1>5, <1>6 DEF LastField

\* A byte leaves the wire and is taken by the parser.
LEMMA ByteStep ==
    ASSUME TypeInv, NEW f, InStep(f), wire # <<>>,
           ServerByte(Head(wire)), wire' = Tail(wire)
    PROVE  InStep(f)'
<1>1. /\ counter \in Nat /\ hdr \in [Fields -> Byte] /\ wire \in Seq(Byte)
      /\ f \in Seq(Byte) /\ Len(f) < 4096 /\ OnWire(f)
  <2>1. counter \in Below(4096) /\ hdr \in [Fields -> Byte]
    BY DEF TypeInv, ServerTypes
  <2>2. counter \in Nat
    BY <2>1, InBelow
  <2>3. wire \in Seq(Byte)
    BY DEF TypeInv, WireTypes
  <2> QED
    BY <2>1, <2>2, <2>3 DEF InStep, Proper
<1>2. /\ Len(wire) \in Nat /\ Len(wire) > 0 /\ Head(wire) = wire[1]
      /\ Tail(wire) \in Seq(Byte) /\ Len(Tail(wire)) = Len(wire) - 1
      /\ \A k \in 1..(Len(wire) - 1) : Tail(wire)[k] = wire[k + 1]
    BY <1>1
<1>3. Len(f) \in Nat
    BY <1>1
<1>4. counter' = counter + 1
  <2>1. \A k \in Nat : k < 4095 => (k + 1) % 4096 = k + 1
    OBVIOUS
  <2>2. counter < 4095
    BY <1>1, <1>2, <1>3 DEF OnWire
  <2> QED
    BY <1>1, <2>1, <2>2 DEF ServerByte
<1>5. Head(wire) = f[counter + 1]
    BY <1>1, <1>2 DEF OnWire
<1>6. OnWire(f)'
  <2>1. counter' + Len(wire') = Len(f)
    BY <1>1, <1>2, <1>3, <1>4 DEF OnWire
  <2>2. ASSUME NEW k \in 1..Len(wire') PROVE wire'[k] = f[counter' + k]
    <3>1. k \in 1..(Len(wire) - 1) /\ k + 1 \in 1..Len(wire)
      BY <1>2
    <3>2. wire'[k] = wire[k + 1]
      BY <1>2, <3>1
    <3>3. wire[k + 1] = f[counter + (k + 1)]
      BY <1>1, <3>1 DEF OnWire
    <3>4. counter + (k + 1) = counter' + k
      BY <1>1, <1>4, <3>1
    <3> QED
      BY <3>2, <3>3, <3>4
  <2> QED
    BY <2>1, <2>2 DEF OnWire
<1>7. Proper(f) /\ Proper(f)'
    BY DEF InStep, Proper, Others, Ours
<1>8. ServerByte(f[counter + 1])
    BY <1>5
<1>9. CASE Header(f) \/ Passed(f)
  <2>1. \/ Header(f)' \/ Passed(f)'
        \/ \E wide, dw, end : InOurs(f, wide, dw, end)'
    BY <1>1, <1>4, <1>7, <1>8, <1>9, HeaderStep
  <2> QED
    BY <1>6, <1>7, <2>1 DEF InStep
<1>10. CASE \E wide, dw, end : InOurs(f, wide, dw, end)
  <2>1. PICK wide, dw, end : InOurs(f, wide, dw, end)
    BY <1>10
  <2>2. InOurs(f, wide, dw, end)'
    BY <1>1, <1>4, <1>8, <2>1, OursStep
  <2> QED
    BY <1>6, <1>7, <2>2 DEF InStep
<1> QED
    BY <1>9, <1>10 DEF InStep

\* When the frame is over, the parser is back in IDLE.
LEMMA AtTheEnd ==
    ASSUME TypeInv, NEW f, InStep(f), wire = <<>>
    PROVE  srvStatus = "IDLE"
<1>1. counter \in Nat /\ f \in Seq(Byte)
    BY InBelow DEF TypeInv, ServerTypes, InStep, Proper
<1>2. counter = Len(f) /\ Len(f) \in Nat
    BY <1>1 DEF InStep, OnWire
<1>3. ASSUME NEW wide, NEW dw, NEW end, InOurs(f, wide, dw, end)
      PROVE  srvStatus = "IDLE"
  <2>1. Len(f) > end /\ end \in Nat /\ wide \in BOOLEAN /\ dw \in 1..31
    BY <1>3 DEF InOurs, Ours, CommandLen
  <2>2. ASSUME NEW stop \in Stops(wide, dw), stop <= end,
               InCommand(wide, dw, stop)
        PROVE  FALSE
    <3>1. stop \in Nat
      BY <2>1 DEF Stops, CommandLen
    <3>2. \E k \in Nat : k > 0 /\ counter + k = stop
      BY <1>1, <2>1, <2>2, <3>1 DEF InCommand, At, CommandLen
    <3> QED
      BY <1>1, <1>2, <2>1, <2>2, <3>1, <3>2
  <2>3. counter # end
    BY <1>2, <2>1
  <2> QED
    BY <1>3, <2>2, <2>3 DEF InOurs
<1> QED
    BY <1>3 DEF InStep, Header, Passed

-----------------------------------------------------------------------------
(***************************************************************************)
(* The inductive invariant: the types and the parser in step.              *)
(***************************************************************************)
Ecp3Inv == TypeInv /\ ParserInv

\* Nothing is on its way before the first packet.
LEMMA InvInit == Init => Ecp3Inv
<1> SUFFICES ASSUME Init PROVE Ecp3Inv
    OBVIOUS
<1>1. ServerTypes
  <2>1. 0 \in Byte
    BY DEF Byte
  <2>2. NoWord \in Word
    BY <2>1 DEF NoWord, Word
  <2>3. "IDLE" \in SrvStates
    BY DEF SrvStates
  <2> QED
    <3>1. ServerInit
      BY DEF Init
    <3>2. hdr \in [Fields -> Byte]
      BY <2>1, <3>1 DEF ServerInit
    <3>3. counter \in Below(4096) /\ blen \in Below(128) /\ prev \in Byte
      <4>1. counter = 0 /\ blen = 0 /\ prev = 0
        BY <3>1 DEF ServerInit
      <4>2. counter \in Below(4096)
        BY <4>1, InBelow
      <4>3. blen \in Below(128)
        BY <4>1, InBelow
      <4> QED
        BY <2>1, <4>1, <4>2, <4>3
    <3>4. srvStatus \in SrvStates /\ srv64 \in BOOLEAN /\ wrEn \in BOOLEAN
      BY <2>3, <3>1 DEF ServerInit
    <3>5. din \in Word
      BY <2>2, <3>1 DEF ServerInit
    <3> QED
      BY <3>2, <3>3, <3>4, <3>5 DEF ServerTypes
<1>2. MasterTypes
  <2>1. 0 \in Byte /\ "IDLE" \in MstStates /\ 1 \in Steps
    BY DEF Byte, MstStates, Steps
  <2>2. NoWord \in Word
    BY <2>1 DEF NoWord, Word
  <2>3. 0 \in Lengths
    BY InBelow DEF Lengths
  <2>4. <<0, 0, 0, 0, 0, 0>> \in Addresses
    BY <2>1 DEF Addresses
  <2>5. <<0, 0>> \in ByteStrings
    BY <2>1 DEF ByteStrings
  <2>6. \A a \in Addresses, d \in ByteStrings :
          [status |-> "IDLE", wait |-> FALSE, valid |-> FALSE,
           done |-> FALSE, length |-> 0, be |-> 0, addr |-> a,
           data |-> d] \in Masters
    BY <2>1, <2>3 DEF Masters
  <2>7. mst \in Masters
    BY <2>4, <2>5, <2>6 DEF Init, MasterInit
  <2>8. tx \in Txs
    BY <2>1 DEF Init, MasterInit, Txs
  <2> QED
    <3>1. MasterInit
      BY DEF Init
    <3>2. fifo \in Seq(Word)
      BY <3>1 DEF MasterInit
    <3>3. mstDout \in Word /\ mstRdEn \in BOOLEAN
      BY <2>2, <3>1 DEF MasterInit
    <3> QED
      BY <2>7, <2>8, <3>2, <3>3 DEF MasterTypes
<1>3. WireTypes
  <2>1. PICK pair \in Pairs : sent = [c \in pair |-> 0]
    BY DEF Init
  <2>2. DOMAIN sent \subseteq Clients /\ sent \in [DOMAIN sent -> Nat]
    BY <2>1, PairsAssumption
  <2>3. wire \in Seq(Byte) /\ gap \in Nat
    BY MinGapAssumption DEF Init
  <2> QED
    BY <2>2, <2>3 DEF WireTypes
<1>4. ParserInv
    BY MinGapAssumption DEF Init, ServerInit, ParserInv
<1> QED
    BY <1>1, <1>2, <1>3, <1>4 DEF Ecp3Inv, TypeInv

\* A frame begins.
LEMMA BeginStep ==
    ASSUME Ecp3Inv, NEW f, Proper(f), NEW w, Begin(f, w)
    PROVE  ServerTypes' /\ MasterTypes' /\ wire' \in Seq(Byte)
           /\ gap' \in Nat /\ ParserInv'
<1>1. UNCHANGED serverVars /\ UNCHANGED masterVars /\ wire' = f /\ gap' = 0
    BY DEF Begin
<1>2. ServerTypes'
    BY <1>1 DEF Ecp3Inv, TypeInv, ServerTypes, serverVars
<1>3. MasterTypes'
    BY <1>1 DEF Ecp3Inv, TypeInv, MasterTypes, masterVars
<1>4. gap > 0
    BY DEF Begin, MayBegin
<1>5. counter' = 0 /\ srvStatus' = "IDLE"
    BY <1>1, <1>4 DEF Ecp3Inv, ParserInv, serverVars
<1>6. f \in Seq(Byte) /\ Len(f) \in Nat
    BY DEF Proper
<1>7. Proper(f)'
    BY DEF Proper, Others, Ours
<1>8. OnWire(f)'
    BY <1>1, <1>5, <1>6 DEF OnWire
<1>9. Header(f)'
    BY <1>5 DEF Header, LastField, Fields
<1>10. ParserInv'
    BY <1>1, <1>7, <1>8, <1>9 DEF ParserInv, InStep
<1> QED
    BY <1>1, <1>2, <1>3, <1>6, <1>10

\* Every step keeps the types and the parser in step with the frame.
LEMMA InvNext == Ecp3Inv /\ [Next]_vars => Ecp3Inv'
<1> SUFFICES ASSUME Ecp3Inv, [Next]_vars PROVE Ecp3Inv'
    OBVIOUS
<1>1. /\ DOMAIN sent \subseteq Clients /\ sent \in [DOMAIN sent -> Nat]
      /\ wire \in Seq(Byte) /\ gap \in Nat
    BY DEF Ecp3Inv, TypeInv, WireTypes
<1>2. ASSUME NEW c \in DOMAIN sent, SendTo(c)
      PROVE  Ecp3Inv'
  <2>1. PICK t \in Trailers :
          Begin(Frame(Packet(c, sent[c] + 1), t), Meant(c, sent[c] + 1))
    BY <1>2 DEF SendTo
  <2>2. c \in Clients /\ sent[c] + 1 \in Nat
    BY <1>1
  <2> DEFINE f == Frame(Packet(c, sent[c] + 1), t)
  <2>3. Proper(f)
    BY <2>2, FrameIsOurs
  <2> HIDE DEF f
  <2>4. Begin(f, Meant(c, sent[c] + 1))
    BY <2>1 DEF f
  <2>5. ServerTypes' /\ MasterTypes' /\ wire' \in Seq(Byte) /\ gap' \in Nat
        /\ ParserInv'
    BY <2>3, <2>4, BeginStep
  <2>6. /\ DOMAIN sent' \subseteq Clients /\ sent' \in [DOMAIN sent' -> Nat]
    BY <1>1, <1>2, <2>2 DEF SendTo
  <2> QED
    BY <2>5, <2>6 DEF Ecp3Inv, TypeInv, WireTypes
<1>3. ASSUME NEW c \in DOMAIN sent, Lose(c)
      PROVE  Ecp3Inv'
  <2>1. /\ UNCHANGED serverVars /\ UNCHANGED masterVars
        /\ UNCHANGED <<wire, gap>>
    BY <1>3 DEF Lose
  <2>2. sent[c] + 1 \in Nat
    BY <1>1
  <2>3. /\ DOMAIN sent' \subseteq Clients /\ sent' \in [DOMAIN sent' -> Nat]
    BY <1>1, <1>3, <2>2 DEF Lose
  <2>4. ServerTypes'
    BY <2>1 DEF Ecp3Inv, TypeInv, ServerTypes, serverVars
  <2>5. MasterTypes'
    BY <2>1 DEF Ecp3Inv, TypeInv, MasterTypes, masterVars
  <2>6. ParserInv'
    <3>1. MayBegin
      BY <1>3 DEF Lose
    <3> QED
      BY <2>1, <3>1 DEF Ecp3Inv, ParserInv, MayBegin, serverVars
  <2> QED
    BY <1>1, <2>1, <2>3, <2>4, <2>5, <2>6 DEF Ecp3Inv, TypeInv, WireTypes
<1>4. ASSUME NEW c \in DOMAIN sent, Foreign(c)
      PROVE  Ecp3Inv'
  <2>1. PICK x \in Fields \union {LastField}, t \in Trailers :
          Begin([Frame(Packet(c, 1), t) EXCEPT ![x + 1] = 255 - @], <<>>)
    BY <1>4 DEF Foreign
  <2> DEFINE f == [Frame(Packet(c, 1), t) EXCEPT ![x + 1] = 255 - @]
  <2>2. c \in Clients
    BY <1>1
  <2>3. Proper(f)
    BY <2>2, ForeignIsOther
  <2>4. Begin(f, <<>>)
    BY <2>1
  <2> HIDE DEF f
  <2>5. ServerTypes' /\ MasterTypes' /\ wire' \in Seq(Byte) /\ gap' \in Nat
        /\ ParserInv'
    BY <2>3, <2>4, BeginStep
  <2>6. sent' = sent
    BY <1>4 DEF Foreign
  <2> QED
    BY <1>1, <2>5, <2>6 DEF Ecp3Inv, TypeInv, WireTypes
<1>5. ASSUME Clock
      PROVE  MasterTypes' /\ sent' = sent
    BY <1>5, MasterStep DEF Clock, Ecp3Inv, TypeInv, ServerTypes
<1>6. CASE NextByte
  <2>1. /\ wire # <<>> /\ ServerByte(Head(wire)) /\ wire' = Tail(wire)
        /\ gap' = gap /\ Clock
    BY <1>6 DEF NextByte
  <2>2. Head(wire) \in Byte /\ Tail(wire) \in Seq(Byte)
    BY <1>1, <2>1
  <2>3. ServerTypes'
    BY <2>1, <2>2, ByteTypes DEF Ecp3Inv, TypeInv
  <2>4. ~(gap > 0) /\ \E f : InStep(f)
    BY <2>1 DEF Ecp3Inv, ParserInv
  <2>5. PICK f : InStep(f)
    BY <2>4
  <2>6. InStep(f)'
    BY <2>1, <2>5, ByteStep DEF Ecp3Inv
  <2>7. ParserInv'
    BY <2>1, <2>4, <2>6 DEF ParserInv
  <2> QED
    BY <1>1, <1>5, <2>1, <2>2, <2>3, <2>7 DEF Ecp3Inv, TypeInv, WireTypes
<1>7. CASE Gap
  <2>1. /\ wire = <<>> /\ ServerGap /\ Clock /\ wire' = wire
        /\ gap' = IF gap < MinGap THEN gap + 1 ELSE gap
    BY <1>7 DEF Gap
  <2>2. gap' \in Nat /\ gap' > 0
    BY <1>1, <2>1, MinGapAssumption
  <2>3. ServerTypes'
    <3>1. 0 \in Byte
      BY DEF Byte
    <3>2. /\ counter' = 0 /\ prev' = 0 /\ wrEn' = FALSE
          /\ UNCHANGED <<hdr, srvStatus, srv64, blen, din>>
      BY <2>1 DEF ServerGap
    <3>3. /\ hdr \in [Fields -> Byte] /\ srvStatus \in SrvStates
          /\ srv64 \in BOOLEAN /\ blen \in Below(128) /\ din \in Word
      BY DEF Ecp3Inv, TypeInv, ServerTypes
    <3>4. counter' \in Below(4096) /\ prev' \in Byte
      <4>1. counter' = 0 /\ prev' = 0
        BY <3>2
      <4>2. counter' \in Below(4096)
        BY <4>1, InBelow
      <4> QED
        BY <3>1, <4>1, <4>2
    <3>5. wrEn' \in BOOLEAN
      BY <3>2
    <3> QED
      BY <3>2, <3>3, <3>4, <3>5 DEF ServerTypes
  <2>4. srvStatus = "IDLE"
    <3>1. CASE gap > 0
      BY <3>1 DEF Ecp3Inv, ParserInv
    <3>2. CASE ~(gap > 0)
      <4>1. PICK f : InStep(f)
        BY <3>2 DEF Ecp3Inv, ParserInv
      <4> QED
        BY <2>1, <4>1, AtTheEnd DEF Ecp3Inv
    <3> QED
      BY <3>1, <3>2
  <2>5. ParserInv'
    BY <2>1, <2>2, <2>4 DEF ServerGap, ParserInv
  <2> QED
    BY <1>1, <1>5, <2>1, <2>2, <2>3, <2>5 DEF Ecp3Inv, TypeInv, WireTypes
<1>8. CASE UNCHANGED vars
  <2>1. /\ UNCHANGED serverVars /\ UNCHANGED masterVars
        /\ UNCHANGED <<sent, wire, gap>>
    BY <1>8 DEF vars
  <2>2. ServerTypes'
    BY <2>1 DEF Ecp3Inv, TypeInv, ServerTypes, serverVars
  <2>3. MasterTypes'
    BY <2>1 DEF Ecp3Inv, TypeInv, MasterTypes, masterVars
  <2>4. ParserInv'
    <3>1. CASE gap > 0
      BY <2>1, <3>1 DEF Ecp3Inv, ParserInv, serverVars
    <3>2. CASE ~(gap > 0)
      <4>1. PICK f : InStep(f)
        BY <3>2 DEF Ecp3Inv, ParserInv
      <4>2. /\ counter' = counter /\ hdr' = hdr /\ srvStatus' = srvStatus
            /\ srv64' = srv64 /\ blen' = blen /\ wire' = wire
        BY <2>1 DEF serverVars
      <4>3. InStep(f)'
        BY <4>1, <4>2
           DEF InStep, Proper, OnWire, Header, Passed, InOurs, InCommand, At,
               Others, Ours
      <4> QED
        BY <2>1, <3>2, <4>3 DEF ParserInv
    <3> QED
      BY <3>1, <3>2
  <2> QED
    BY <1>1, <2>1, <2>2, <2>3, <2>4 DEF Ecp3Inv, TypeInv, WireTypes
<1> QED
    BY <1>2, <1>3, <1>4, <1>6, <1>7, <1>8 DEF Next

\* The invariant holds for ever.
LEMMA InvAlways == Spec => []Ecp3Inv
    BY InvInit, InvNext, PTL DEF Spec

(***************************************************************************)
(* The registers of server.v and of the two sequencers of pcie_tlp.v keep  *)
(* their types, whatever the programs send and whatever comes between      *)
(* their frames: the counters that wrap around stay in their bits, and the *)
(* word that is written to the FIFO is always a whole one.                 *)
(***************************************************************************)
THEOREM TypeCorrect == Spec => []TypeOK
<1>1. Ecp3Inv => TypeOK
  <2> SUFFICES ASSUME Ecp3Inv PROVE TypeOK
    OBVIOUS
  <2>1. /\ mst.status \in MstStates /\ mst.length \in Below(2048)
        /\ mst.wait \in BOOLEAN /\ mst.valid \in BOOLEAN
        /\ mst.done \in BOOLEAN
    BY DEF Ecp3Inv, TypeInv, MasterTypes, Masters, Lengths
  <2>2. tx.ready \in BOOLEAN /\ tx.step \in Steps
    BY DEF Ecp3Inv, TypeInv, MasterTypes, Txs
  <2>3. Len(TxSteps) = 11
    BY DEF TxSteps
  <2>4. tx.step \in 1..Len(TxSteps)
    BY <2>2, <2>3 DEF Steps
  <2>5. {mst.wait, mst.valid, mst.done, tx.ready} \subseteq BOOLEAN
    BY <2>1, <2>2
  <2> QED
    BY <2>1, <2>4, <2>5 DEF Ecp3Inv, TypeInv, ServerTypes, MasterTypes, TypeOK
<1> QED
    BY <1>1, InvAlways, PTL

(***************************************************************************)
(* At the end of every frame the server core of server.v is back in IDLE.  *)
(* The commands carry their length and the programs end them with a        *)
(* delimiter; a frame of others, even one that differs in a single byte    *)
(* that is compared, never makes it leave IDLE.                            *)
(***************************************************************************)
THEOREM FramesStayApart == Spec => []FramesApart
<1>1. Ecp3Inv => FramesApart
    BY DEF Ecp3Inv, ParserInv, FramesApart
<1> QED
    BY <1>1, InvAlways, PTL

=============================================================================
