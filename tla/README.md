# A verification model of hbc_mac

`hbc_mac` is the firmware of a human-body-communication MAC on a small
MicroBlaze processor in an FPGA (`src/src/*.c`). A host sends it commands over
one SPI link (through a PSoC) and takes answers and received packets over another.
The firmware builds frames from packets in DRAM, pushes them through a transmit
FIFO, and moves received words from a receive FIFO into a ring in DRAM.

There is one thread, the main loop, and four interrupts. Everything that is hard
about the program comes from what they share: counters and flags that both write,
one DRAM read pointer, one scrambler, one acknowledgement buffer. The program has
no tests for this (its one test harness prints a frame), so this is what the
modules here are about.

## 1. The system

| component | state | operations | interacts with |
|---|---|---|---|
| main loop, `main.c` | `send_packet`, `tx_flood`, `tx_auto`, `tx_pending`, `pkt_addr`, `loopback`, `header_info`, `rx_auto`, `rx_flood` | single-frame branch, queue branch, receive branch, PSoC branch | all of the below; every variable is also written by the control interrupt |
| command parser, `ctrl_cmd` in `main.c` | `bytes_req`, `pkt` | one byte at a time: framing, CRC, execution, acknowledgement | called by the control interrupt; sets the main loop's flags, feeds the pump |
| byte loader, `spi.c` | `load_addr`, `loading_mem`, `load_index`, `rd_data` | `hbc_spi_load_bytes`, one byte per control interrupt | writes DRAM; takes bytes away from the parser while it is busy |
| data link pump, `spi.c` | `ack_*`, `reply_*`, `dumping_mem`, `dump_*` | `hbc_spi_ack`, `_reply`, `_dump_bytes`, `_data_trigger`, one byte per data interrupt | reads DRAM or the receive ring |
| receive ring, `extract_rx.c` | `rd_buf_addr`, `wr_buf_addr`, `rd_packet_addr`, `wr_packet_addr`, `packet_ready`, `rx_state`, ... | two interrupts write, `rx_packet_ready`, `rx_read`, `rx_packet_next` read | receive FIFO, DRAM, scrambler |
| frame builder, `build_tx.c` | size and spreading registers | preamble, delimiter, header, payload | transmit FIFO, DRAM, scrambler |
| transmit FIFO, `fifo.c` | `triggered` | wait, write, flush, trigger | spins until the transmitter has room |
| scrambler, `scrambler.c` | seed and position (hardware) | reseed, read | shared by both directions |
| DRAM port, `mem.c` | read and write pointer, wrap flags (hardware) | set, read, write, memory test | shared by all |
| interrupt dispatch, `interrupt.c` | handler list, mask | lowest pending line first | every handler |
| flash, `flash.c` | `flash_addr`; the chip's contents, busy flag and write enable | erase, program, read, verify | DRAM port; inside one command, interrupts disabled |

LCD, USB (never initialised), MD5 (not built), the PSoC programmer (a patch to
code that is not in the repository) and the build scripts carry none of the
program's logic.

What each must get right:

* *Transmit*: packets leave in order, once, with exactly the bytes that were loaded,
  never before they are loaded; frames are whole whatever interrupts; the seed
  alternates; floods end; the queue drains.
* *Receive*: the ring is a queue of whole packets; what is dumped is what was received,
  descrambled with the right keystream; bad packets are dropped and nothing else.
* *Links*: nothing is executed twice or out of order; what is damaged costs no more than was
  lost, and the parser resynchronises, whatever an 8-bit CRC lets through; answers come whole
  and in order; the pump does not stall.
* *Frames*: fields and CRC survive the way to the receiver; the delimiter tells the
  rate; the FIFO is triggered once per frame and never blocks for ever.

* *Both directions at once*: a frame and a received packet share the scrambler, the
  read pointer and the receiver's enable, and each must come out whole.
* *Flash and memory test*: a write that is reported good is there, and nothing outside
  its sectors changes; the chip ignores no command; the test counts the bad words of the
  whole memory and leaves the rings' wrapping on.

`PROJECT.json` lists every hazard at its line, with the properties that cover it or
the reason why none does yet.

## 2. The modules

| module | models | lines of code it stands for |
|---|---|---|
| `TxPath` | the two transmit branches, the transmit commands, the loader | `main.c` 49-64, 121-278, 345-381; `spi.c` 76-99, 160-182; `build_tx.c` 158-201 |
| `TxPathProofs` | theorems about `TxPath`: types and the counter; frames, seeds, floods and the queue's order | |
| `PacketQueue` | abstract: what the receive path promises | |
| `RxPath` | the receive interrupts, the ring, the receive branch, the receive commands, the dump | `extract_rx.c` whole; `main.c` 66-102, 232-265, 286-319, 383-386; `spi.c` 118-137, 164-168 |
| `RxPathProofs` | theorems about `RxPath`: types, that it implements `PacketQueue`, and that what is dumped is what was received | |
| `HbcMac` | `TxPath` and `RxPath` as the two halves of one main loop | `main.c` 321-395 |
| `HbcMacProofs` | theorems about `HbcMac`: it implements `TxPath` and `PacketQueue`; keystreams, the receiver's enable, what is forwarded | |
| `SpiLink` | parser and pump, byte by byte | `main.c` 121-149, 273-278, 302-312; `spi.c` 76-154 |
| `SpiLinkProofs` | theorems about `SpiLink`: types, the pump, answers, execution, losses, resynchronisation | |
| `BuildTx` | the calls that make up a frame, FIFO and trigger | `build_tx.c` 66-207; `fifo.c` 28-68 |
| `BuildTxProofs` | theorems about `BuildTx`: types, triggers, the place of delimiter and header | |
| `PlcpHeader` | the header word, its CRC and the receiver's check | `build_tx.c` 42-64, 158-169; `build_tx.h` 25-43; `extract_rx.c` 73-82 |
| `PlcpHeaderProofs` | theorems about `PlcpHeader`: fields, CRC, bursts | |
| `Interrupts` | boot, the handler list, the mask and `int_handler`, with events between its steps | `interrupt.c` 29-92; `main.c` 320-338 |
| `InterruptsProofs` | theorems about `Interrupts` | |
| `DramPort` | pointers, wrap flags and the memory test | `mem.c` 34-96; `mem.h` 19-25 |
| `Flash` | the commands that read, write and verify the flash or test the memory (extends `DramPort`) | `flash.c` 27-177 without 50-56, 71-84; `flash.h` 40-42, 88-108; `main.c` 174-192 |
| `FlashProofs` | theorems about `Flash` | |
| `MC*` | instances for TLC | |

`HbcMac` extends `TxPath` and instantiates `RxPath` with the scrambler in common. It adds
`turn`, which says whether the transmit branches or the receive branch run, the guard
`irq_on` on every handler, what the receive side does to the read pointer, and the
receiver, which starts on a packet only while enabled. It has all commands of `RxPath`, with
what each leaves in the read pointer, and `MEM_READ`; those of `TxPath` that bring the two sides
together are chosen in its instance. `TxPath` alone has the action `OtherHandlers` in place of the
receive side: it may move the read pointer and the scrambler, while interrupts are on,
and nothing else. The property `TxSpec` is that the real receive side does no more, that
is, that `HbcMac` implements `TxPath`.

**Steps.** A handler runs to completion, so a handler is one action. The main loop can
be interrupted between any two accesses to a shared variable while interrupts are
enabled, so it takes one step per access; `x--` and `x &= m` are a load into the
register `tmp` and a store. `pc` names the access that comes next. `disable_interrupts`
sets `irq_on` to FALSE, and that alone keeps the handlers out of a frame. In `RxPath`
`hbc_to_spi` has interrupts disabled from its first to its last statement and is one
action; the tests before it are not. In `BuildTx` one step is one call of a FIFO
function. `Interrupts` opens up what the others take as given, the way from an event to the
call of its handler: there `int_handler` takes a step for the read of the status register,
one for the acknowledgement and one per element of the list. `Flash` takes one step per
command to the chip and `DramPort` one per word tested, all with interrupts disabled.

**Data.** A DRAM word says what it holds: a length, a marker, a header, word *i* of
packet *p*, or which bytes of which packet were or-ed into it. The scrambler is a seed
and a position: xor with word *k* of a keystream is a tag, so that descrambling
is right exactly when both tags are equal. Lengths keep their byte (`% 256`), addresses
the DRAM's size, and a `uint32_t` argument becomes the `int` the code stores it in (`AsInt`).

**The command CRC.** `SpiLink` leaves the values of bytes out, and with them which damaged packets
have an 8-bit remainder of 0. A packet that is no attempt's own may be dropped or, any of them, be
executed as any command of `Commands` (`Complete`; at most `MaxCollisions` times, which the theorems
leave open). A byte inside a command or its data may have the value of
`PACKET_HEADER`; which do, a command's `marks` say.

**External.** The receiver and transmitter in the FPGA, the PSoC and the host are not
in `src/`. They are modelled from how the code uses them: the receiver takes no new packet
before `HBC_RX_PKT_ACK`; the transmitter sends from a trigger until the FIFO was flushed and
is empty, and does not outrun the processor; the DRAM port takes addresses modulo its
size and wraps a pointer that steps over the end of its 16M half (`mem_set_flags`); a
packet on the air when `rx_disable` comes may be finished or cut short; the flash chip
erases whole sectors, only clears bits when it programs, needs a write enable before each
of both, and ignores every command but a status read while it is busy; a faulty word of
memory does not read as it was written;
`PACKET_HEADER`, `PACKET_SIZE`, `REPLY_SIZE` and `HBC_HEADER_SIZE` are constants of a header
that is not in the repository.

**Host discipline.** Where the code has no guard and relies on the host, the model says so
at the action: loads are padded to words (`spi.c:75`); an unsent packet is not overwritten, and
none is loaded across the end of the transmit half, where the host goes back to address 0;
`TX_ADDR` comes while no packet waits (one that falls into `pkt_addr &= MEM_TX_MASK` is lost,
`addr_lost`, and the queue's order with it), the packet of a `TX_TRIGGER` is loaded with
`MEM_LOAD` before any packet is queued; data rates are those of the enumeration, scrambler seeds
are 0 or 1; a flash address is a multiple of 4 and a write stays inside the flash; `MEM_TEST`,
which overwrites the DRAM, and the flash commands come on an idle device.

`RX_NEXT` follows a `RX_READY` that found a packet, but the main loop may have taken that packet
in between, which the host cannot see. This is modelled: the packet is taken twice (`stale`), from
there on the readers take arbitrary words for markers, and the model goes no further than to say
so. What must hold until then does.

## 3. The runs

Bounds are constants: `MaxCmds`, `MaxPackets`, `MaxAttempts`, `MaxLosses`, `MaxForwards`,
`MaxFrames`, `MaxEvents`.

| run | checks | bounds, and why they are enough |
|---|---|---|
| `tx_path` | `TypeOK`, `NeverSendsUnloaded`, `NeverOvercounts`, `QueueInOrder`, `FramesIntact`, `SeedAlternates`, `FloodNeverUnderflows`, `Drains` | ring of 16 bytes, which one packet of 12 bytes or two of 4 fill, and any 4 of ten commands: reader and writer both go round the ring with packets waiting; two packets compete with a trigger, a flood or a load for the loop; seed, rate and the ring's address change between frames. Single frames of 262 bytes, which the code truncates to 6; floods of 0, 1 and 3, which with an `int` of two bits (`IntLimit` = 2) is -1. The receive path moves the read pointer (that it also uses the scrambler is left to `hbc_mac`); 1.1 million states; `Drains` under `FairSpec` |
| `rx_queue` | `TypeOK`, `DumpIntact`, `QueueSpec`, `PacketsLeave` | ring of 24 bytes that two packets fill, so that the writer wraps and the reader does not yet read again what it wrapped to (see `rx_second_round`); good, short, corrupted, empty packets; 3 commands of every kind, so that the host can look for a packet, lose it to the loop and take it; `PacketsLeave` under `FairSpec` |
| `hbc_mac` | `FramesIntact`, `Descrambled`, `ForwardedIntact`, `ReceiverListens`, `PacketsLeave`, `TxSpec` | two packets, each long enough to be read in two interrupts, two commands of queue, trigger and loopback and two of the receive path or that read memory or scrambler, 4 events in all: frames before, between and in the middle of received words, dumps while frames are built and while the host reads; 675,000 states; under `MacFairSpec` |
| `spi_link` | `TypeOK`, `StreamInOrder`, `AnswersInSequence`, `PumpNeverStalls`, `ExecutedInOrder`, `LossesCharged`, `Resynchronises` | three attempts at commands of every kind, the first two not waiting for their answers, two lost bytes, one damaged packet with remainder 0, one forwarded packet; a packet of 2 bytes after its header, loads of 1 and 3 bytes, one with bytes of the header's value: enough to shift the parser, swallow a packet in a load and recover, and to start all three sources of the pump together |
| `plcp_header` | `CrcIsRemainder`, `DetectsBursts` | every length, rate and seed; every burst of at most 8 bits at each of the 32 places |
| `build_tx` | `TypeOK`, `DelimiterTellsRate`, `TriggersBetweenFrames`, `FramesLeave` | three frames of any rates, each fitting into the FIFO or not; codes of 1 bit in place of 32, which moves every part by the same amount |
| `interrupts` | `NothingLost`, `EventsServed` | four lines with handlers, one without, 4 events: one of each line, or one line again while it is served, at any point of boot and of `int_handler` |
| `flash` | `TypeOK`, `WriteVerified`, `OthersKept`, `NothingIgnored`, `ReadsBack`, `TestTellsFaults`, `CommandsEnd` | three sectors of two pages of two words; writes at a sector, at a page inside one and inside a page, empty, odd, of a sector and longer; no, few and more faulty words than the reply can count; 4 commands, so that a write follows a write, a read or a test of other pointers |

`QueueSpec` is a refinement: `RxPath` implements `PacketQueue` with `waiting` read off the
ring, marker by marker, from `rd_packet_addr` on, `packet_ready` of them. It says at
once that markers lead from packet to packet, that both interrupts and the commands
keep the count right, and that what is forwarded is good and what is discarded is not.

`CHECK_DEADLOCK FALSE` is set where the system really stops: the host of `SpiLink` and of
`Flash` at its bounds, `PlcpHeader` when the header is checked, `BuildTx` after its last frame.

Each property of a passing run has a mutant in `PROJECT.json`: a plausible bug that makes
TLC find it violated.

### Where the code and its comments disagree

| run | what happens |
|---|---|
| `tx_lost_packet` | `tx_pending--` (`main.c:380`) is not atomic: a `TX_PACKET` inside it is never counted and the last packet stays in the ring |
| `tx_lost_trigger` | `send_packet = 0` (`main.c:360`) forgets a trigger acknowledged since the header was built |
| `rx_second_round` | `rd_packet_addr += rd_packet_marker` (`extract_rx.c:103`) never wraps, the writer does: the first packet of the writer's second round is looked for outside the receive half, and no packet is read rightly from then on (after 16M bytes received since boot). The run's behaviours take every packet before the next is complete, so nothing is overwritten |
| `spi_ack_lost` | announcing a packet overwrites an acknowledgement that is being sent |

Also found while reading, not checked: `load_addr` is never masked into the transmit half
(`spi.c:175`), so the transmit ring is one only if the host goes back to address 0 itself. A
`FLOOD` of 0, with which a host stops a flood, between test and decrement makes `tx_flood` negative
(`main.c:359`), as does an argument of 2^31 or more (`endless`; `FloodNeverUnderflows` says that
nothing else does). A `TX_ADDR` between the load and the store of `pkt_addr &= MEM_TX_MASK` is
undone (`main.c:375`; `QueueInOrder` ends there). A damaged command that the 8-bit CRC lets
through is executed (`main.c:142`). `rx_check_packet` compares a
packet with itself from its second word on, because `rx_read` moves the read pointer its
`mem_read` relies on (`main.c:91`). `RX_FLOOD`
during a dump skips the test for one in progress (`main.c:383`), and `rx_packet_ready` then sets
`rd_buf_addr` while the dump still reads through it (`extract_rx.c:61`), so the rest of the dump
is another packet's; a host that reads the ring during a dump does the same (`crossed`; excepted in
`DumpIntact` and `ForwardedIntact`). An `RX_NEXT` for a packet that the loop has taken
meanwhile takes it a second time (`main.c:249`; `stale`). A frame built between the two interrupts of a
received packet reseeds the scrambler, and the rest of that packet is descrambled wrongly,
also when its words were all in the FIFO before `rx_disable`; its header CRC still passes and
it is forwarded (`main.c:356`). A `SCRAMBLER_READ` between the two does the same (`main.c:157`);
`Descrambled` excepts exactly these packets. A `TX_LOOPBACK`
inside a frame leaves the receiver off until the next one (`main.c:357`, 378; excepted in
`ReceiverListens`). A flash write that starts inside a sector erases what precedes it there,
and may erase one sector too few, which the verification then reports; `flash.c:147` calls
the sector erase a bulk erase. A write whose size is no multiple of 4 is not verified to its
last bytes, so `WriteVerified` states that they are there only for a write at the start of a
sector.

### Fairness

`TxPath`: `WF(Main)`, since `main` never blocks outside the FIFO calls, which
`BuildTx` shows to return; `WF(LoadByte)`, a host delivers the bytes it announced. `RxPath`:
the loop, and the handlers together, the two receive interrupts (level-triggered and never
masked for ever) and `DumpWord`, a host that asked for packets reads them. `HbcMac`: the one
loop that runs both halves, and the handlers together, whose pending events are served while
interrupts stay on. In `RxPath` and `HbcMac` weak fairness is written out, `[]<><<A>>_vars`
or infinitely often not `ENABLED A`, with the enabling condition spelt out (`Main` always is
enabled, `Handlers` when `HandlerDue`), which means the same and lets TLC check it quickly.
`Interrupts`: `main` and `int_handler` run
on, a section ends, and `SF(ReadStatus)`, an interrupt that is enabled again and again is
taken; `EventsServed` is what justifies the fairness of handlers elsewhere, for a finite
number of events of higher priority. `BuildTx`: the processor, with
interrupts disabled, and a triggered transmitter. `Flash`: the processor, and a chip that
gets ready. The commands of a host are never fair: nothing makes it send one.

## 4. The proofs

Each theorem holds for every value of the constants that its module's assumption allows
(`TxAssumption`, `RxAssumption`, `SpiAssumption`, ...); a further hypothesis is named at the theorem.
An inductive invariant is a conjunction of named parts, and a step is proved action by action.

### The transmit path

`TxPathProofs`, for every ring size, every set of lengths and arguments and every choice of
commands:

* `TypeCorrect`: `Spec => []TypeOK`.
* `CounterNeverLeads`: `Spec => []NeverOvercounts`.
* `QueueSendsLoadedPackets`: `Spec => []NeverSendsUnloaded`.

*Types.* `TypeOK` alone is not inductive: what `MaskStore` and `SeedStore` store is what the
register has held since the load (`RegisterInv`), and a loaded byte's number is in range
only if a load never has more bytes to come than its packet (`LoadInv`). `TypeInv` adds
both. Numbers (`ScalarsInv`) and structured data (`DataInv`) are proved apart, handlers
and main loop apart.

*The counter.* `tx_pending` may lag behind the queue (the lost update above) but must
never lead it: if it did, the queue branch would send a packet that is not there.
`CounterInv` adds to the two properties what holds in the middle of the test and of the
decrement: at `TestBusy` a packet waits, at `PendStore` the register is at most what
waits, and the steps after a queue frame are those of queue mode. A handler moves
`tx_pending` and the queue's length by the same amount (`HandlersQueue`), so it can only
widen the lag.

and, in the same module:

* `FloodsEnd`: `Spec => []FloodNeverUnderflows`, for every host, argument and width of an `int`.
* `SeedsAlternate`: `Spec => []SeedAlternates`.
* `FramesAreIntact`: `Spec => []FramesIntact`, for a transmit half of more than 256 bytes (it
  has 16M), so that no single frame, which starts at 0, reaches the pointer's wrap.
* `QueueIsSentInOrder`: `Spec => []QueueInOrder`.

*Floods.* `FloodInv`: unless the host has asked for a flood without end, the counter is positive
between test and load and not negative outside the store; before the store it may be anything,
since what a command has put there is about to be undone, and the register holds what is left.

*Frames.* `SectionInv`: interrupts are off exactly in the section, and the frame under
construction is made of the header's present values (`FrameOf`). So every handler is outside the
section (`SectionHandler`), and `WordsInv`, which says what the section has made of the scrambler,
the read pointer and the count of words, need only be kept by the section's own steps. `SeedInv`
follows the seed through the toggle: equal to the last frame's up to `SeedLoad`, in the register
different from it, and different from it after the store, unless a command that the store does
not undo has set it since.

*The queue.* `QueueInOrder` speaks of the last frame only; what carries it, until a `TX_ADDR` is
lost (`OrderInv`), is where the packets that wait are. `QueueInv` says that there is a sequence `v` of positions, counted without
wrapping, one packet after the other (`Positions`), such that the reader is at the first unsent
packet (`ReaderAt`, also between the load and the store of `pkt_addr &= MEM_TX_MASK`), the writer is
where the newest packet ends or, once that is whole, at the ring's start when it ends there
(`WriterAt`), the unsent packets and the room that is left make up the ring (`RoomAfter`), and the
bytes of each unsent packet that have arrived are in place modulo the ring (`Unsent`). A store of
the loader falls into the newest packet, and two positions less than a ring apart are
different words (modular arithmetic, once, as lemmas), so it disturbs no packet that waits.
`LoaderInv` has the partial word of the loader, `TakingInv` what the section has read of the packet
it takes.

### The receive path and the whole firmware

`RxPathProofs`:

* `RxTyped`: `Spec => []TypeOK`, for every ring that holds any one packet.
* `ImplementsQueue`: `Spec => QueueSpec`, the refinement the run `rx_queue` checks, for every set of
  packets, every FIFO mark and every use of the commands, if the writer stays on its first round
  (`FirstRound`).
* `ForwardedIsIntact`: `Spec => []DumpIntact`, under `FirstRound`.

*Types.* Nothing in the code bounds `rd_packet_addr`; it stays a natural number because markers
count bytes or are -1 (`CellsInv`), and `packet_ready` counts no packet that was not received
because a packet is over once and, until `stale`, every packet taken is one that is there
(`CountInv`, `WriterInv`, `AirInv`: `rx_state` is "reading" exactly from the first
word taken of a packet to its end, and `wr_bytes` is 0 outside).

*The hypothesis.* `FirstRound`: there is a number of words that holds every packet with its marker,
and `MaxPackets` times that number fit into the ring. It is what the code needs: once the writer
has gone round, the reader does not follow it (`rx_second_round`), and `QueueSpec` is false. The
instances of `rx_queue` and `hbc_mac` satisfy it, the first with a ring that is full at the end.

*The queue.* `Layout`: the packets received, without the empty ones, lie one behind the other
from the start of the ring, each as its marker, its header and its payload in order (`Placed`), and the writer stands behind
them or, `Taken` words further, in the packet that is being received (`WriterAt`); `Room` keeps it from the end of the
ring. `QueueAt`: the reader is at the first word of the packet that is `packet_ready` from the last,
and what the host's last `RX_READY` found is that one, if the loop has not taken it since (`found`).
All of it holds until `stale`, after which `QueueSpec` asks nothing. From this `waiting`, read off the markers, is the last `packet_ready` of them
(`WaitingIs`): that the recursive function which follows the markers exists and comes upon every packet is
the one place with an induction, on the least number that goes wrong (`LeastNumber`,
`AddressesFollow`). A step then writes behind what lies there (`LayoutStays`), finishes a packet, which is `Arrive`
(`PacketLaid`, `PacketQueued`), or moves the reader to the next, which is `Take` (`QueueTaken`),
whoever takes it.

`HbcMacProofs`:

* `ImplementsTxPath`: `MacSpec => TxSpec`, the refinement the run `hbc_mac` checks, for every set of
  packets and of commands, if `TxPath` is given room for what the receive side does
  (`Nat \subseteq OtherAddrs`, every key in `OtherKeys`).
* `FirmwareFrames`, `FirmwareQueue`: `FramesIntact` and `QueueInOrder` of the whole firmware, by that
  refinement and the theorems above. The other theorems about `TxPath` carry over the same way.
* `Listens`: `MacSpec => []ReceiverListens`.
* `PayloadsDescrambled`: `MacSpec => []Descrambled`.
* `FirmwareQueuesPackets`: `MacSpec => RP!QueueSpec`, under `RP!FirstRound`: the refinement above in
  the whole firmware, where a frame may cut the packet on the air short.
* `ForwardedAsReceived`: `MacSpec => []ForwardedIntact`, under `RP!FirstRound`.

*The refinement.* The initial states are initial; a step of the transmit half is a step of `TxPath`
as it stands; a step of the receive half is `OtherHandlers` or changes nothing of `TxPath`. That needs the values: the read pointer the receive side leaves is a natural
number, hence `RxInv`, and nothing of it happens in the section (`SectionInv`, `TurnInv`).

*Keystreams.* Between the two interrupts of a packet the scrambler stays at the packet's next word
(`RP!InStep`), unless a frame has reseeded it or a `SCRAMBLER_READ` has taken a word since, which
counts the packet as disturbed (`KeysInv`); then every word an interrupt writes gets its own key
(`DrainedKeys`).

*Forwarding*, in `RxPathProofs`. `DumpInv`: until the dump is crossed, the words dumped are the
first ones of a packet in the ring, and `rd_buf_addr` is where the next one lies as long as there is
one (the padding may be anything). `LoopWaits`: no such dump is under way when `hbc_to_spi` is about
to be called, although the test of `hbc_spi_dump_busy` is steps before: nobody but the loop begins a
dump of the ring, a `MEM_DUMP` ends it, and a call that does not wait, of the flood mode, crosses it. A
packet that was taken stays where it lies, since `Placed` holds what is no longer waiting, too.
`Kept` joins this with the layout; `HbcMacProofs` carries it over step by step, as the ring's steps in
the firmware are steps of `RxPath` (`SameHead`, `SameLoop`, `SameCommands`, `SameHost`).

### The links

`SpiLinkProofs`, for every size of packets and replies, every set of commands, every loss, every
number of damaged packets that pass the CRC and of commands the host sends without waiting:

* `SpiTyped`: `Spec => []TypeOK`.
* `NeverStalls`: `Spec => []PumpNeverStalls`.
* `OrderlyExecution`: `Spec => []ExecutedInOrder`.
* `LossesAreCharged`: `Spec => []LossesCharged`.
* `AnswersKeepSequence`: `Spec => []AnswersInSequence`.
* `OrderlyStream`: `Spec => []StreamInOrder`.
* `ParserFindsItsWay`: `Spec => []Resynchronises`, for loads of any length.

*Execution.* Bytes arrive in the order they are sent (`HostInv`: what is still to be sent is the tail
of the newest attempt), and an attempt is executed when the last byte of its packet arrives, so it is
executed once and after those before it (`ExecutedInv`); a packet that passes the CRC without being an
attempt's is executed as none (`id = 0`). As long as nothing was lost the parser has exactly what
was sent of the newest attempt (`InStep`, `NoLossInv`), so the bytes a load takes are the load's and
their values do not matter.

*Losses.* `DamageInv`: each damaged packet, and one that is being collected and that the attempt under
way will not complete (`Astray`), has a lost byte of its own. It needs that only an attempt's first
byte looks like a header; with others that do, one lost byte may cost any number of packets.

*Resynchronisation.* `Debt` is how many bytes may pass before a parser that is out of step is idle: what
its packet misses and then the longest load, since what was put together may be executed as any
command. Attempts that arrive whole and bring no header but their own pay it
(`Paid`), so once they have brought `PACKET_SIZE + MaxLoad` bytes the parser is idle when
the next begins, and in step with it to its end (`Back`, `RecoverInv`).

*Answers.* `StreamInv`: what is due is what the host took, what is on its way and what is left of
acknowledgement, reply and dump, in this order, and nothing is left when the next command is
complete, so that its answers overwrite none. Without waiting, and with packets forwarded, all that is left is
the sequence within an answer (`SequenceInv`): of the answer that is in a field its last byte sent
is the last byte sent of that field.

### Frames, interrupts and flash

`BuildTxProofs`:

* `BuildTyped`: `Spec => []TypeOK`.
* `TriggersApart`: `Spec => TriggersBetweenFrames`, an action property.
* `DelimitersTellRates`: `Spec => []DelimiterTellsRate`, for every code length.

*Triggers.* `TodoInv`: a frame's calls end in a flush and a trigger; `TriggerInv`: until the
trigger nothing is being sent and there are words, or writes to come; `FlushInv`: what was flushed stops
with its last word, so that `fifo_wait` waits for its end.

*The delimiter.* A place is the chip at which the next word begins, the two registers and the part of the
word before. `Leads` says that calls lead from one place to another, each word on the way where a
frame of the rate has it; it composes (`LeadsOn`), so the calls of a frame are followed one
function of `build_tx.c` after the other, the 16 codes and the pads adding up to `80 * CodeBits + 96` for
every rate (`SfdLeads`), from registers that hold anything (`FrameLeads`). `PlacesInv` carries this through the
FIFO: the words in it follow what was sent, each with its chip (`Follows`), and the calls to
come lead on from the last of them; so it does not matter when the transmitter takes a word.

`InterruptsProofs`, for every set of lines, order of handlers and number of events:

* `InterruptsTyped`: `Spec => []TypeOK`.
* `NoEventLost`: `Spec => []NothingLost`.
* `HandlersComeFirst`: `Spec => []HandlersFirst`.

*Events.* `NothingLost` needs two facts it does not state: the line that was read is
pending until it is acknowledged, and it has a handler (`ServeInv`), or else its event is
acknowledged and gone. The second holds because every enabled line is in the list
(`BootInv`), which holds because `main` has added all handlers before it enables the first
line (`CallOrder`).

`FlashProofs`, for every size of memory, flash, page and sector that `FlashAssumption`
allows (pages divide sectors), every set of faulty words and every sequence of commands:

* `FlashTyped`: `Spec => []TypeOK`.
* `ChipTakesAll`: `Spec => []NothingIgnored`.
* `OtherSectorsSurvive`: `Spec => []OthersKept`.
* `WritesVerified`: `Spec => []WriteVerified`.
* `ReadBackIsWhole`: `Spec => []ReadsBack`.
* `MemTestCounts`: `Spec => []TestTellsFaults`.

*The chip.* `ChipInv`: it is busy only while the firmware polls it, and write enabled when it
is told to erase or program.

*The sectors.* `RangeInv`: while a write erases, `at` has not passed the last of the
`flash_num_sectors` sectors counted from that of the address, and while it programs, the last of
its pages. That each of them holds a byte of the write is arithmetic: `BlocksAreTouched` for sectors
and pages alike (the count is taken from the size alone, so it never reaches beyond the last
byte, though it may stop before it), `PagesInSectors` to come from a page to its sector.

*The write.* `WriteInv`: the sectors before `at` are erased; while the pages are programmed the read
pointer goes along with them, and, for a write that starts at a sector, the pages before `at` hold
the data and those behind are erased. The last needs that every page a write reaches
is in an erased sector (`PagesAreErased`), which is where the start of the write matters.

*The memory test.* `TestInv`: pointers, keystream and count go through the words together with
wrapping off, `errors` is the number of faulty words before the pointer, and a command other than
the test finds wrapping on.

### The header

`PlcpHeaderProofs`, for every set of headers and of damages that `PlcpAssumption` admits:

* `UndamagedHeadersTell`: `Spec => []FieldsRoundTrip`.
* `CrcMeetsComment`: `Spec => []CrcIsRemainder`.
* `BurstsAreDetected`: `Spec => []DetectsBursts`, if the damaged bits of each case lie within
  eight consecutive ones, wherever (the property says so of bursts only: the CRC's own multiples
  pass).

*The invariant.* `HeaderInv` says what the register holds: what `crc8_update` makes of the first
`k` bytes of the header (`After`), which is what was packed, then what was sent and damaged. The
rest is about operators. `crc8_update`, `Read` and `Remainder` are recursive functions; that there
are functions that obey their equations is shown by induction on the set of numbers up to which there
are (`Induction`, from the well-foundedness of `<`: the library's induction rules take an operator as
a parameter, this one takes a set).

*Fields.* The fields that matter are small enough not to reach their neighbours (`FieldBits`: only
the range of `PDSU_length` is a whole byte), and `HDR_READ` sums up their binary digits.

*The remainder.* `Divided` relates the long division to the register, bit by bit: what is left of the
dividend at the term `x^d` is the register, mirrored and its bit 0 at `x^d`, and the bytes still to
come. A turn of the loop cancels one term (`TurnDivides`), and the next byte of the message goes from
what is to come to the register (`NextByte`).

*Bursts.* The register is linear (`AfterLinear`), and the CRC of the whole of an undamaged word is 0
(`SentIsClean`), so what is left after a damaged one is the CRC of the damage alone. A byte is lost in
the register only if it is equal to it (`UpdateZero`), as a turn that leaves the top bit 0 has only
shifted (`CrcBitBack`). So a burst that ends in the byte it began in leaves something, and for one that
goes on in the next, high bits of the one would have to become low bits of the other by shifts alone,
`r` turns down from above and `8 - r` up from below, which only 0 does (`HighAndLow`).

### Before the proofs, and beyond them

Three properties are proved and in no run: `Interrupts!TypeOK`, `HandlersFirst` and
`FieldsRoundTrip`.

The invariants were also checked by TLC as invariants of the runs' instances (`HeaderInv` on part of
its run's headers), except for the conjuncts that assert a sequence of positions or places
(`QueueInv`, `PlacesInv`, `Layout`).
Once they failed for a good reason and the model was put right: the ring of `rx_queue` turned out to be
one the reader goes round only once (`rx_second_round`).

What is only model-checked: the liveness properties (`Drains`, `PacketsLeave`, `FramesLeave`, `EventsServed`, `CommandsEnd`):
fairness and `ENABLED` are out of the prover's reach.

## 5. Not modelled

* What the readers find after an `RX_NEXT` for a packet that is gone (`stale`), beyond that they are
  lost, and what a load across the end of the transmit half overwrites.
* Which byte values give an 8-bit remainder of 0 (the model lets every damaged packet pass, or fail).
* `rx_check_packet`'s reply, `RX_LENGTH` and the other commands that only reply: they
  change no state but the pump's, which `SpiLink` has.
* Time: that the processor refills the transmit FIFO and empties the receive FIFO fast
  enough is a matter of cycles. Ring overrun (nothing compares writer and reader) takes
  16M bytes of untaken packets and has no code to model; no run's ring is overrun.
* Flash addresses that are no multiple of 4 (words would straddle), `flash_get_id` and
  `flash_bulk_erase`, which nothing calls; `mem_init`'s wait before interrupts are on.
* `CMD_HBC_TX_FILTER`, which sets a pin; the `use_ri = 0` frame format (`use_ri` is 1
  throughout); LCD, USB and MD5, which carry no logic or are not built; the PSoC programmer, whose
  code is not in the repository and which never returns.

## 6. Plan

1. `SpiLink` with a host that times out and retries; `rx_check_packet` step by step over the
   shared read pointer.
