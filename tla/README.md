# TLA+ models of IP-NUMA

IP-NUMA extends the physical address space of one host over the network: a PCI
Express card turns the host's loads and stores to one of its BARs into UDP
frames, and the card at the other end turns such frames back into PCI Express
transactions (TLPs) in its own host's memory. This directory holds TLA+ models
of the card logic (Verilog), of the Linux driver and of the programs that use
them, the TLC configurations that check them on small instances, and TLAPS
proofs of the most important invariants for every value of the constants.

To check one run: `tlc -config server_modes.cfg MCServerPath`. To check the
proofs of a module: `tlapm ServerPathProofs.tla`; the eight modules with proofs
end in `Proofs`.
`PROJECT.json` lists the components, runs, hazards, findings and theorems, and
maps every definition to the lines it translates.

## 1. Inventory

### The system

```
 host A                                                        host B
 ipnuma_pingpong --ioctl--> driver                             rdata in RAM
      |  store to BAR2        | BAR0 registers                    ^
 ============ PCI Express ====|=================================== | ======
      v                       v                                    |
  PIO_RX_SNOOP          PIO_RX_ENGINE -> registers              TX_MUX <- PIO_TX_ENGINE
      |  clk 250 MHz          |  reads                             ^        (completions)
  afifo72_w250_r156     PIO_TX_ENGINE -> TX_MUX -> host A       XGMII_RX_ENGINE (ORF)
      |                                                            ^  clk 250 MHz
  XGMII_TX_ENGINE ------ 10 GbE, UDP frames ------------------> XGMII_RX_ENGINE
      xgmii_clk 156.25 MHz                                         xgmii_clk
```

Every card has all of these parts. The left column is the *requester path*
(local stores leave as frames), the right column the *server path* (frames
arrive and become local TLPs, in competition with the completions of the
host's own register reads).

| Component | Source (under `src/`) | State | Operations |
|---|---|---|---|
| TX_MUX | `boards/kc705/rtl/pcie/TX_MUX.v` | the two grants | arbitrate; multiplex the transmit stream |
| PIO_TX_ENGINE | `.../PIO_TX_ENGINE.v` | state machine, pending completion, port 1 | send a completion in two beats |
| PIO_RX_ENGINE | `.../PIO_RX_ENGINE.v` | state machine, `tready`, latched request | decode reads and one-dword writes |
| XGMII_RX_ENGINE | `.../XGMII_RX_ENGINE.v` | frame recogniser (xgmii_clk), sender ORF (clk), `tlp1..tlp3` | recognise a frame, capture its TLP, send it |
| PIO_RX_SNOOP | `.../PIO_RX_SNOOP.v` | state machine, FIFO write port | select BAR2 accesses and completions, rewrite IDs and addresses |
| XGMII_TX_ENGINE | `.../XGMII_TX_ENGINE.v` | FIFO reader, frame sender | make one frame of each TLP |
| PIO_EP | `.../PIO_EP.v` | wiring | connects the above |
| Registers | `.../PIO_EP_MEM_ACCESS.v`, `boards/ecp3versa/rtl/ecp3/ipnuma.v` | addresses of both sides, Mem0 | byte-enabled reads and writes |
| PIO_TO_CTRL | `.../PIO_TO_CTRL.v` | pending flag, agreement | agree to be turned off |
| ECP3 server core | `boards/ecp3versa/rtl/ecp3/server.v` | parser state, byte counter | recognise a frame, turn its commands into FIFO words |
| ECP3 pcie_tlp | `.../ecp3/pcie_tlp.v` | master FIFO, master and transmit sequencers | make memory writes of the words |
| Driver | `software/driver/ipnuma.c` | resources of the board, global pointers | probe, remove, ioctl |
| any_v2p | `software/driver/virt2phys.h`, `software/virt2phys/virt2phys.c` | none | walk the page tables |
| Ping-pong | `software/pingpong/ipnuma_pingpong.c`, `socket_pingpong.c` | counters, `rdata` | exchange growing numbers |
| Client | `software/kc705_test/ipnuma_client.c` | none | make a frame with one of eight TLPs |
| Memory programs | `software/driver/user.c`, `kc705_test/rmem.c`, `mem.c`, `demo1.c` | descriptor, `baraddr`, mapping | ask the driver, map physical memory, store |
| ECP3 clients | `software/ecp3_test/a32.c`, `a64.c`, `ipnuma_client.c` | counter | make packets of write commands |

The components interact in four ways: through shared streams (the receive
stream is watched by PIO_RX_ENGINE *and* PIO_RX_SNOOP; the transmit stream is
shared through TX_MUX), through one-cycle pulses (`req_compl`, `compl_done`,
`tlp_frame_end`), through a FIFO between the clock domains on the requester
path, and through memory-mapped registers between driver and card.

The ECP3 Versa board has another design: its server core reads the packets of
the `ecp3_test` programs byte by byte, each a list of write commands ended by a
zero byte, and passes them as 16-bit words through the master FIFO to
`pcie_tlp`, which starts the memory write while the rest of the frame is still
arriving.

### What is hard

* **Two clocks without a handshake.** XGMII_RX_ENGINE captures a TLP with
  xgmii_clk and reads it with clk. There is one buffer, no acknowledgement, and
  the end-of-frame pulse is sampled by the faster clock. Correctness is a matter
  of timing: the bus must be granted, and the TLP sent, before the next frame
  overwrites the buffer.
* **Two machines on one stream.** PIO_RX_SNOOP ignores `tready`, with which
  PIO_RX_ENGINE holds the beats; whether it stays in step depends on how long
  they are held.
* **Arbitration and pulses.** A request pulse passes four registers in two
  engines; a port has a grant, loses it, and must not show a beat without it.
* **Failure paths.** The probe has seven calls that can fail and one error exit
  that gives back two things. Processes use the device while the board goes away.
* **Page tables change** under a walk that takes no lock.
* **A race without back-pressure.** On the ECP3 the transmit sequencer takes a
  word at every clock once `tx_rdy` has come, whether or not the frame has
  brought it; and at the end of a frame the parser resets its byte counter, not
  its state.
* **Start-up.** The programs ignore that `init_numa` failed and map what they
  have; two sides start in any order while writes may already arrive.
* **No acknowledgement end to end.** A lost frame is lost; the programs above
  have to keep to a strict alternation.

### What makes each part correct

| Part | Property |
|---|---|
| TX_MUX | one owner; no port shows a beat without the grant; nobody starves |
| completion path | every read is answered exactly once, with its own tag and address |
| request decoder | never takes data for a header; registers get the right beat |
| server path | each frame becomes one TLP, whole, in order |
| requester path | each TLP becomes one frame, whole, in order, with the gap the receiver needs |
| registers | hold, and read back as, what was set |
| driver | no access to unmapped registers; nothing is left behind; a bound board is complete |
| any_v2p | returns the frame of the page, or 0 |
| turn-off | no agreement while a completion is under way; agreement in the end |
| ECP3 path | the writes the sender meant, and no others; the parser never loses the frame boundary |
| start-up | no store goes anywhere but through BAR2; nothing is wiped out by the other side's start |
| ping-pong | no number is overwritten before it is read; the exchange comes to its end |

## 2. Modules

| Module | Models | Used by |
|---|---|---|
| `TxMux`, `PioTxEngine`, `PioRxEngine`, `PioRxSnoop`, `XgmiiRxEngine`, `XgmiiTxEngine` | the Verilog module of that name, 64-bit variant as built for the KC705 | compositions |
| `PioToCtrl` | PIO_TO_CTRL and the core's request | `ServerPath` |
| `HostBus` | receive stream of the PCIe core (external), and the loads | `PioRxEngine`, `PioRxSnoop` |
| `ServerPath` | composition: PIO_EP, wire and core, from network and host to the transmit stream | `MCServerPath`, `ServerPathProofs` |
| `RequesterPath` | composition: PIO_EP from the host's stream to the wire | `MCRequesterPath`, `RequesterPathProofs` |
| `IpnumaClient` | the TLPs of the client's eight modes | `MCServerPath` |
| `IpnumaDriver` | probe, removal, module life, processes | `MCIpnumaDriver`, `IpnumaDriverProofs` |
| `BoardRegisters` | register maps and byte lanes of both boards | `RegisterIoctl` |
| `RegisterIoctl` | the SET and GET commands of `ipnuma_ioctl` | `MCRegisterIoctl`, `RegisterIoctlProofs` |
| `VirtToPhys` | any_v2p against a kernel that changes the tables | `MCVirtToPhys`, `VirtToPhysProofs` |
| `PingPong`, `SocketPingPong` | both sides of each exchange | `NumaStart`, own run, `NumaStartProofs`, `SocketPingPongProofs` |
| `Exchange` | abstract: what both exchanges promise | `PingPong`, `SocketPingPong` (refinement) |
| `NumaStart` | start-up of `ipnuma_pingpong`, which goes on as `PingPong`, and of the memory programs | `MCNumaStart`, `NumaStartProofs` |
| `Ecp3Client` | the packets of the `ecp3_test` programs | `Ecp3Path` |
| `Ecp3Master` | master FIFO, master sequencer, TX2 branch of the transmit sequencer | `Ecp3Server` |
| `Ecp3Server` | the parser of `server.v` | `Ecp3Path` |
| `Ecp3Path` | composition: programs, network, server core, master, link | `MCEcp3Path`, `Ecp3PathProofs` |

Definitions whose comment begins with *Faulty* are variants of the definition
after them with a plausible mistake; no specification uses them. They show that
the properties are sensitive to the code: put in the place of the original,
each makes a property fail.

### How hardware is modelled

A Verilog register is a variable, an `always` block an action that relates
the values before and after one clock edge. An engine's module has one
disjunct per state of its machine (or per branch, when they are large) and a
`...Clk` operator that combines them. The composition has one action per clock:
`ClkEdge` moves everything that `clk` drives at once, `XgmiiEdge` everything
that `xgmii_clk` drives. Signals between engines are passed as arguments, read
before the edge, as non-blocking assignment does. Combinational signals are
state functions (`Ready1`, `Sop`, `Dout`).

*Clocks.* `lag` orders the edges of the two clocks: 250 MHz is 8/5 of
156.25 MHz; a clk edge adds 5, an xgmii_clk edge subtracts 8, each happening
only while `lag` stays in 0..12. Every initial value of `lag` is tried. This is
the order of edges of two exact clocks with any phase. Drift over long times is
a change of phase, and all phases are covered; metastability of the
unsynchronised `tlp_frame_end` is not modelled.

*Data.* A beat is named by the TLP it belongs to, its number in the TLP and
what was done to it (`op` for rewritten IDs and addresses, `keep` for byte
strobes). Identities are taken from small cyclic sets, enough to tell a TLP
from its neighbours. Header contents, addresses and the CRC are left out.
`look` in a host TLP says what a *later* beat looks like when its bits are
taken for a type field, because PIO_RX_SNOOP decodes those bits on every beat
in its state IDLE.

*External parts.* The PCIe core's receive stream (`HostBus`) holds a beat until
it is taken. What host, core and network do is described by a *load*: which
TLPs the host sends, whether the core pauses between beats (`Bubbles`) or lowers
`s_axis_tx_tready` (`Throttle`), which TLPs arrive from the network (`Shapes`),
whether the core asks to turn the card off. `Loads` lists the loads of an
instance; `load` is chosen at the start and never changes, so one run covers
several situations without their product. The core's transmit side takes a
beat when it is ready (`CoreTake`). The FIFO is first-word-fall-through, as its `.xci` says, and
drops what is written when it is full. The wire carries frames at least
`MinIdle` idle words apart.

### How the ECP3 path is modelled

One action is one edge of the 125 MHz clock: `NextByte` while a frame arrives,
`Gap` between frames. Each moves the parser and, through `Clock`, FIFO, master
sequencer and transmit sequencer at once. Here the bytes are the data: the
packets are those the programs make, with the addresses and dwords that were
asked for, and `meant` lists the writes their senders meant and that are still
to be done. The PCIe core and the completions of the other branch appear as the
time `tx_rdy` takes (`RdyDelays`). Frames of others differ from ours in one of
the bytes the core compares (`Foreign`); a frame may be lost (`Lose`).

### How the programs are modelled

`NumaStart` lists each program's calls in order: those of `init_numa`, whose
result is ignored, and those of `main`, a failure of which ends the program. A
step is one call; each of these calls fails in some behaviour. The one at the
prompt does not: an unchecked `scanf` that reads no number
(`ipnuma_pingpong.c:128`) is left out. Once started `ipnuma_pingpong` takes the
steps of `PingPong` (`Play`), and a write that arrives before `rdata = -1`
leaves no trace (`Arrive`). `Loop` and `Spin` each merge two reads of `rdata`
(lines 145 and 146, 155 and 156), between which nothing can arrive
(`NoOverrun`). The user carries the
address of `rdata` by hand; the model assumes that only an address is typed
that was printed by a side which opened the device.

`Exchange` knows only the last number each side has received and says that a
side receives the number after the other's last, or that number, and never one
that is not new. Both programs implement it: `PingPong` maps `got` to what has
arrived in `rdata`, `SocketPingPong` to the number before the one a side
sends next (`Numbering`, `Exchanges`).

In `SocketPingPong` either side starts first and sends at once. `sock` holds what
is on its way to a side or in its receive buffer. A datagram arrives after any
delay or is lost (`lost` counts): on the way, because the other side has not
bound its socket when it arrives, or because `sendto` failed, which is only
reported. All of these look the same to both programs, so `SendTo` decides. The
side that is started last usually misses the first datagram. A side whose `bind`
fails, which is not looked at, is one to which every datagram is lost. Datagrams
are not reordered or doubled: the two hosts are on one link. `recv` on a socket
without a peer has no error to report and does not fail.

### How the driver is modelled

One step of a probe or of a removal is one call of a kernel function
(`ProbeSteps`, `RemoveSteps` list them in the order of the code), and processes
run in between. `held` counts acquisitions not given back; it can become
negative when the code gives back what it never had. `machine` says what is
true of the machine the driver runs on: any of `Machines`, fixed for a run. The kernel's side is
modelled from how the driver uses it: `pci_request_regions` fails while the
regions are taken, an open descriptor holds the module (`fops.owner`),
`request_irq` on an unused line resets its disable depth. In `RegisterIoctl` a
step is one access to a register, because ioctls run without a lock; a register
is a sequence of bytes in host order, and `board` is either of the two boards. In `VirtToPhys` a step is one read of the
page tables, and `paddr`, which the C code does not initialise, starts with an
arbitrary value.

## 3. Runs

`pass` runs end without a violation; the last three end with a counterexample,
which is the result: the code disagrees with what its comments and headers say
(section 5).

| Run | Checks | Shows |
|---|---|---|
| `server_modes` | `TypeOK`, `GrantSafe`, `TlpIntact`, `InOrder`, `OneCompletion`, `CompletionOwn`, `RxInStep`, `TurnoffClean` | three loads: frames of all eight client modes together with register reads (every TLP reaches the core whole, with the right last strobes, once and in order, in every phase of the clocks); all kinds of host TLPs with pauses between beats on a core that throttles at will; reads while the card is to be turned off |
| `server_live` | `ReadAnswered`, `TurnoffAgreed`, `FrameServed` | with reads at any time and frames (ours and others') back to back, every read is answered, every frame of ours handed over, and a turn-off agreed to |
| `requester_writes` | `TypeOK`, `FrameIsTlp`, `FrameGap`, `TlpSent` | one-dword writes below 4 GB and completions leave as one whole frame each, in order and far enough apart, while the driver reads and writes registers |
| `driver` | `TypeOK`, `MmioMapped`, `NothingLeft`, `LineEnabled`, `BoundComplete` | load, probes, binding and unbinding, ioctls of two processes and unload on 16 kinds of machines: which calls fail, whether boards are unbound, whether the line is shared |
| `registers` | `TypeOK`, `RegisterHolds`, `ReadBack` | two processes set and get addresses, access by access: IPv4 and MAC on the ECP3 Versa, IPv4 on the KC705 |
| `v2p_walk` | `TypeOK`, `ValueIsFrame`, `SmallTranslated` | a page mapped by a pte all through the call is translated rightly or the call fails with 0 |
| `pingpong` | `TypeOK`, `NoOverrun`, `StoresThroughBar`, `Exchanges`, `StartsExchange`, `StartedFinish` | start-up of all programs, in any order, with and without driver, any call failing; then strict alternation, the refinement of `Exchange`, and the server's end unless a frame is lost |
| `socket_pingpong` | `TypeOK`, `InStep`, `Exchanges`, `BothFinish`, `OneFinishes` | the UDP version, either side first and datagrams lost: the sides stay in step and implement the same `Exchange`; both end if nothing is lost, one still ends after one loss |
| `ecp3_commands` | `TypeOK`, `WritesAsMeant`, `FramesApart` | packets of two programs at a time, back to back, some lost, between frames of others, with `tx_rdy` at once and late: the board does what was meant, and the parser is in IDLE between frames |
| `requester_write64`, `registers_mem0`, `v2p_any` | one property each | findings 1 to 3 of section 5 |

The driver's properties name the machines they hold on: `MmioMapped` where
boards are not unbound through sysfs, `NothingLeft` where only the failures
happen that `err_out` unwinds, `LineEnabled` where the line is not shared and
`request_irq` and `misc_register` work, `BoundComplete` everywhere.

### Bounds, and why they are enough

* `HostIds`, `FrameIds` (1 to 3): identities are compared with those of the
  TLP before or after; at most one TLP is in an engine at a time on the server
  path, and `Backlog + 1` on the requester path. The theorems about these paths
  hold for every number of them (`FramesAreTlps` for two and more).
* `MinIdle = 2` in the runs about whole TLPs. This is an assumption on the
  sender: with `MinIdle = 1` `TlpIntact` fails, because the buffer is
  overwritten while a completion holds the bus. `FrameGap`, checked on the
  requester path, says that XGMII_TX_ENGINE keeps it, so two cards on a direct
  link are safe; a switch or a server's network card that sends with less idle
  time is not covered.
* Loads with frames do not throttle: ORF ignores `s_axis_tx_tready`, so no TLP
  of the network survives a core that throttles it. That is an assumption about
  the core; what holds without it (`OneCompletion`, `CompletionOwn`,
  `RxInStep`, `TurnoffClean`) is checked with throttling, and those four and
  `GrantSafe` are proved with throttling and frames. `server_live` does not
  throttle at all: a core that is never ready answers no read.
* `FifoDepth = 16` (4096 in the build), `Backlog = 2`: the host keeps at most
  two TLPs waiting for the network. The hardware has no such limit, and no
  check of `full`; a host that writes faster than the network for long enough
  overflows the FIFO. The runs show what happens before that.
* `OutMax = 4`, `QuietMax = 3`: how much of a TLP without end, and of an idle
  wire, the observer remembers; larger than anything the properties compare.
* `BadPlaces`: which header word tells a frame of someone else.
* `MaxHeld = 3`: a board whose counts have come this far is not probed
  again; leaks show after one failed probe.
* `DwLen = 16` in `ecp3_commands`: a command of 32 words, long enough for the
  link to outrun the frame, which `RdyDelays = {0, 22}` makes happen and just
  not happen. `WritesAsMeant` says by how much: up to ten words are safe, and
  one more for each clock of waiting. With eleven it fails.
* `MinGap = 20` clocks, Ethernet's preamble and gap; `MaxPackets = 2` for each
  of two programs, so that every state in which one frame leaves the parser is
  met by the next; the FIFO has its 512 words (`FifoWords`).
* `TestTrailers`: the check sequence, which the core also receives, as zeros and
  as something that looks like a command.
* `Limit = 30` and `21` (2000000 in the code): the loops are uniform in the
  number, and the theorems about `PingPong`, `NumaStart` and `SocketPingPong`
  hold for every `Limit`. Losses in `socket_pingpong` need no bound: after two
  nobody sends any more (`TypeOK`).
* Three frames in `VirtToPhys`: old, new, and another.

Deadlock is checked except in `driver`, where the bound on probing
stops the system, and in the ping-pong runs, where the programs end.

### Fairness

`ServerPath` and `RequesterPath` assume that both clocks keep running, and
nothing about the host or the network: `ReadAnswered`, `FrameServed` and
`TlpSent` hold for every choice they make, and `TurnoffAgreed` needs only that
the core keeps asking. `StartSpec` assumes that the programs run (their calls
return, their loops spin and never block) and that a frame does not stay in the
network for ever: it is delivered or lost. It does not assume that anybody loads
the driver or that a program gets past its prompt before the other side has
printed its address. `SocketPingPong` assumes that both processes are started
and scheduled, and that a datagram that is not lost arrives; how many are lost
is part of the properties: `BothFinish` speaks of behaviours without loss,
`OneFinishes` of those with one at most, the ordinary late start among them. No other specification has a liveness property or assumes fairness.

## 4. Proofs

All proofs hold for every value of the constants that satisfies the named
assumptions: any set of host TLPs, frame shapes and identities, any throttling,
any number of rounds, processes and frames of memory. Theorems that need more
say so in their statement (`Usage`, `Sender`, `CoreReady`,
`TwoBeats`, `RoomForBacklog`); the MC modules of the server and requester paths
assume these four of their instances, so that TLC evaluates them. In each module the argument
has the same shape: an inductive invariant that says where the machines stand
relative to each other, one lemma per action or engine, and theorems that read
the properties off the invariant. Invariants that TLC can evaluate were checked
on the instances of the runs before they were proved.

| Theorem | States | Module |
|---|---|---|
| `GrantsAreSafe` | `GrantSafe` | `ServerPathProofs` |
| `CompletionsNotLost`, `CompletionsOwn` | `OneCompletion`, `CompletionOwn` | `ServerPathProofs` |
| `DecoderInStep` | `RxInStep` | `ServerPathProofs` |
| `TurnoffIsClean` | `TurnoffClean` | `ServerPathProofs` |
| `TlpsAreWhole` (under `Sender`), `FramesInOrder` (and `CoreReady`) | `TlpIntact`, `InOrder` | `ServerPathProofs` |
| `FramesHaveGap` | `FrameGap` (an action property) | `RequesterPathProofs` |
| `FramesAreTlps` (under `TwoBeats`, `RoomForBacklog`) | `FrameIsTlp` | `RequesterPathProofs` |
| `FramesStayApart` | `FramesApart` | `Ecp3PathProofs` |
| `NoUnmappedAccess`, `EverythingGivenBack`, `LineStaysEnabled`, `BoundIsComplete` | `MmioMapped`, `NothingLeft`, `LineEnabled`, `BoundComplete` | `IpnumaDriverProofs` |
| `SetSticks`, `GetReturnsSet` (under `Usage`) | `RegisterHolds`, `ReadBack` | `RegisterIoctlProofs` |
| `WalkInTables`, `SmallPagesTranslated` | `ValueIsFrame`, `SmallTranslated` | `VirtToPhysProofs` |
| `OverrunFree`, `ImplementsExchange` | `NoOverrun`, `Exchanges` | `NumaStartProofs` |
| `StoresGoThroughBar`, `StartImplementsPingPong` | `StoresThroughBar`, `StartsExchange` | `NumaStartProofs` |
| `StartOverrunFree`, `StartImplementsExchange` | the two of `PingPong`, from the first call on | `NumaStartProofs` |
| `StaysInStep`, `ImplementsExchange` | `InStep`, `Exchanges` | `SocketPingPongProofs` |
| `TypeCorrect` | `TypeOK` (in `NumaStartProofs` that of `PingPong`) | all |

**Arbitration.** `GrantSafe` alone is not inductive: that a port which shows a
beat owns the bus depends on where its machine stands. `GrantInv` says for each
port which of its states may hold `req`, that a state which drives beats has
the grant, and that the grants exclude each other. The argument follows the
wiring: `MuxStep` (an owner that requests keeps its grant), `Port1Step`,
`Port2Step`. Steps of xgmii_clk change none of the variables.

**Completions.** The count of pending stages is not inductive either; `ComplInv`
says it in Booleans and adds which states of PIO_TX_ENGINE go with a request
under way. `ComplTxStep` and `ComplRxStep` treat the two engines,
`ComplInvCounts` derives the count. From it `OffInv` follows for PIO_TO_CTRL:
`trn_pending` is set exactly while the request is past its first stage, and
`tvalid` of port 1 goes with state QW1 or the pulse `compl_done`.

**The decoder.** `BusInv` relates bus and `in_packet_q`: the flag is set exactly
from the second beat on, which needs that no TLP has a single beat
(`BeatCounts`). `Decode` says for each state of PIO_RX_ENGINE which beat of
which kind of TLP is on the bus, whether it is held, and what was latched
from it. `BusStep` says what an edge does to a beat that is taken or held,
`DecodeStep` has a case for each branch of the engine. `HostTlpsAssumption` (a
length field has ten bits) is all that is asked of the host; even a read of
length 0 does not put the decoder out of step.

**Whole TLPs, in order.** XGMII_RX_ENGINE has one buffer (`tlp1` to `tlp3`) with
no full flag, and `tlp_frame_end` is a pulse nobody answers; that neither is
lost is a matter of time. `WireInv` follows the wire: only an IP-NUMA frame
brings the machine to TLP1, at the first word of its TLP, and it is back in IDLE
before the next preamble. `PipeInv` says where the pulse is. The heart is
`InTime`:

    Pending => 5 * Need + lag <= 8 * Left + 4

`Need` is the number of clk edges until `tlp1` has been read, with those for
which a completion may still hold the bus; `Left` is the number of xgmii_clk
edges until the next frame is written to `tlp1`; `lag` is the phase of the
clocks, which gains five with an edge of clk and loses eight with one of
xgmii_clk. An edge of clk takes one from `Need`, one of xgmii_clk one from
`Left`, so both keep the inequality; what has to be shown is that it holds when
a TLP becomes pending. `Sender` is what makes `Left` large enough: two idle
words between frames, which is what `FramesHaveGap` proves of the card that
sends, and TLPs of two or three beats whose length is what their header says.
From the inequality follows what is in the buffer and on the bus (`Content`),
hence `TlpIntact`; `OrderInv` adds which frame it is, for `InOrder`. On a core
that throttles this does not hold (section 5), so `CoreReady` has no frames
there.

**The gap.** `GapInv` follows XGMII_TX_ENGINE: in IDLE at least one idle word has
been sent, in HEADER before the first word at least two. It does not depend on
what is in the FIFO.

**Frames are TLPs.** The FIFO does not only hold TLPs: PIO_RX_ENGINE holds the
second beat of a write for two more clocks, and for each of them the snooper,
which does not look at `tready`, writes that beat once more. `FrameInv` has a
line (`Line`, the FIFO with the entry on its way into it) and a list of places
`at` in it, one for each TLP not yet sent, two to four entries apart. A TLP's
entries are at its place and behind it (`Holds`), and all other entries are
marked as the last of a TLP (`Others`), which is why the reader passes over
them. The snooper is in one of five phases relative to the beat on the bus
(`Fresh`, `Second`, `Again`, `Third`, `Passing`), each with the number of entries
made so far; the sender is in one of four relative to the first place (`Resting`,
`Header`, `Body`, `Trailer`). `TwoBeats` is what finding 1 and the reads through
BAR2 (section 5) leave: two-beat TLPs for the network. `RoomForBacklog` bounds
what the host lets wait, since the code does not look at `full`.

**The ECP3 parser.** The server core resets only its byte counter between frames.
`FrameIsOurs` and `ForeignIsOther` say what the bytes of any frame look like
(`Proper`): either a byte that is compared is wrong, or there are one or two
commands of equal length from byte 46 on, each beginning with a byte that says
how long it is, and a zero behind them. `ParserInv` is that there is such a
frame of which the wire holds the rest (`OnWire`), and that the parser is in
the header with the fields of that frame stored, has passed over it, or is in a
command and as far from its end as its state and `blen` say (`InCommand`). The
arguments are the bounds of the registers: `4 * dw` fits into the seven bits of
`blen` because `DwLen <= 31`, and no frame is as long as the 4096 bytes at
which `counter` wraps around, so that its header fields are not stored again.
What is assumed of the programs is the types of their arguments
(`ClientsAssumption`), of the check sequence only that it has four bytes
(`TrailersAssumption`).

**The driver.** `Inv` has a part for each thing the properties depend on: which
step the probe or removal is at and what it has acquired by then (`Life`,
`Complete`), when the device node exists and who can have it open (`Node`,
`Opened`), the disable depth of the line (`Line`), and, on machines where only
the unwound failures happen, the exact count of every resource (`Balanced`).

**Registers.** `Usage` is what the users of the driver must keep to, as there is
no lock: each process uses registers of its own (`Apart`), of those whose
offsets driver and board agree on (`Agreed`: the IPv4 addresses on the KC705,
the MAC addresses too on the ECP3 Versa), with values as long as the registers
(`Sized`). The instance of `registers` satisfies it; the finding about Mem0 is
what happens outside. The lemmas `Bases`, `Agreement`, `OneRegister`, `Lanes`
are about the two register maps: an access of the driver touches bytes of one
register only. `WriteEffect` and `ReadEffect` say what it does to them, and
`Inv` which bytes a SET or GET in progress has already moved.

**The page walk.** `Inv` adds to the properties what the tables can look like
(`Tables`); each action of the kernel either sets `moved` or leaves the levels
the walk has passed as they were.

**Ping-pong.** `Inv` says that at most one of the two programs is active or has a
write under way, and which number may be under way: the one after the last
number its sender received, or that number itself. `OneWrite` is the lemma about
the network's sequences. Of the steps of `PingPong` only `Deliver` moves `got`
of `Exchange` (`ExchangeStep`).

**Start-up.** `StartInv` says for each program, by the call it is at, what it has
opened, learnt and mapped (`AskHost`, `FixedHost`, `UserHost`), and that nobody
sends to a host whose address was not printed (`Reach`). Every step is then one
of `PingPong` or leaves its variables alone (`StartStep`), which gives the
refinement, and with it everything proved about `PingPong`.

**The UDP exchange.** `InStep` does not say who has sent what, so it is not
inductive. Without loss the two sides are in `Lockstep`: on the way to a side are
the consecutive numbers between what it has received and the other has sent.
After one loss, early or late, one number goes back and forth (`OneTurn`): the
side that does not have it waits, and is at most one round behind. After two
losses both sides wait (`Dead`). The invariant is the disjunction of the three,
each with its value of `lost`; `SendStep` shows that a lost datagram leads from
each to the next, `Waiting` reads off what can be on the way to a side.

*Only model-checked:*

* the liveness properties (`ReadAnswered`, `TurnoffAgreed`, `FrameServed`,
  `TlpSent`, `StartedFinish`, `BothFinish`,
  `OneFinishes`) and absence of deadlock, since TLAPS
  does not reason about `ENABLED`;
* `WritesAsMeant`. `ParserInv` gives the words that go into the master FIFO, but
  the property is about what comes out of two more sequencers, one of which
  takes whatever `mst_dout` shows at a clock: its invariant has to relate the
  words in the FIFO, the bytes still on the wire and the clocks since `tx_rdy`
  for commands of several frames at once.

## 5. Findings

1. **`requester_write64`**: a write with a 64-bit address has three beats; the
   frame carries beats 1, 2, 2 (`XGMII_TX_ENGINE.v:70`).
2. **`registers_mem0`**: both halves of the Mem0 address are copied from the
   lower one (`ipnuma.c:192`).
3. **`v2p_any`**: a large page leaves `any_v2p` with an uninitialised result
   (`virt2phys.h:90`).

What the runs leave out because it does not hold (all of it can be seen by
changing a configuration or a guard of the property):

* Reads through BAR2: while one is held PIO_RX_SNOOP runs through IDLE and
  HEADER1 on the same beat, and can rewrite the header of the next read as if it
  were an address (`PIO_RX_SNOOP.v:82`). `FrameIsTlp` fails for a load with reads
  through BAR2.
* The interface's MAC address on the KC705: the driver writes it to byte 4,
  where the KC705 has nothing; its register is at byte 8 (`ipnuma.c:166`).
* The page behind an address that was handed out may move: the variable "to lock
  the page" (`virt2phys.h:37`) locks nothing.
* On a machine with unbinding `MmioMapped` fails (an unbind does not wait for
  descriptors); when later calls of the probe fail `NothingLeft` fails (mappings
  and DMA buffer stay); on a shared line `LineEnabled` fails.
* One lost datagram, such as the first one to the side of `socket_pingpong` that
  is started last, leaves one side in `recv` for ever
  (`socket_pingpong.c:63`), a second one both: `BothFinish` fails without its
  first disjunct, `OneFinishes` too. After one lost frame both sides of
  `ipnuma_pingpong` spin for ever, so `StartedFinish` excludes losses.
* Two processes that set the same register leave a mixture (`ipnuma.c:139`);
  `RegisterHolds` and `ReadBack` are about processes with registers of their own.
* With `MinIdle = 1`, or for a load with frames and throttling, `TlpIntact`
  fails. So it does for completions: their last beat is shown for one cycle,
  taken or not (`PIO_TX_ENGINE.v:225`); the property is stated for a core that
  does not throttle.
* PIO_TO_CTRL agrees to be turned off in the cycle in which a read is requested:
  `trn_pending` is one register late. `TurnoffClean` says what remains true.
* On the ECP3 a command of more than ten words is sent with repeated words when
  `tx_rdy` comes at once, and the last words are lost (`pcie_tlp.v:656`).
* When the FIFO in front of the ECP3 server core runs dry within a frame its last
  byte is processed twice (`server.v:84`); the model assumes equal clocks.
* A BAR above 4 GB is cut to 32 bits by `ipnuma_pingpong.c:112`; the model has
  the BAR below 4 GB.

## 6. Not modelled

* 128-bit variants of the engines (`PCIE_X8` is not defined in the build), the
  FIFO variant of XGMII_RX_ENGINE and PIO_TX_SNOOP (macro `ORF`, not defined),
  I/O requests (there is no I/O BAR).
* BIOS ROM and the DOS tools that look for it, clock control, transceiver
  wrappers, CRC, xgmiisync: data, generated or vendor code. The VC709 design has no IP-NUMA engine.
* Contents of Ethernet, IP and UDP headers.
* ECP3 Versa: the requester, the receive and slave sequencers of `pcie_tlp` and
  its TX1 branch (register reads), the credits of the vendor's PCIe core.
* Test programs that only print what they receive, time measurement, argument
  handling.
* More than one board per host: the driver's globals are shared by all boards.

## 7. Plan

Done: card data paths on the KC705 with turn-off, command path of the ECP3
Versa, registers, driver, page table walk, start-up and exchange of the
programs; an abstract exchange implemented by both ping-pongs; proofs of all
safety properties but one: of the handshakes, the decoder, whole TLPs in order,
the gap, whole frames, the ECP3 parser, the driver, the registers, the page
walk, the start-up and both exchanges.

Next, in this order:

1. *Prove.* The parts of `WritesAsMeant` without time, from `ParserInv`: the
   FIFO holds the words of the writes in `meant` that are not done, so that
   addresses, lengths and their order are right; then the data, with the clocks
   since `tx_rdy`.
2. *Model.* Several boards, which share the driver's `mmio0_ptr`, `mmio1_ptr`
   and `dma_virt_ptr`; the ECP3 requester.
