# Verification of the single cell battery simulator (SCBS)

The repository holds a battery pack simulator: up to several *cells*, each a
Raspberry Pi Pico that sets an output voltage and measures an output current,
daisy-chained by 9600 baud UARTs in a ring with a *master*, a PC that runs
`scripts/scbs_utils.py`. This directory holds TLA+ models of its firmware and
of the master, TLC runs that check them on small instances, and TLAPS proofs of
what matters most for every instance.

Paths below are relative to `src/`; `scbs.cc`, `scbs_comms.cc` are in
`firmware/firmware/src/app/`, their headers in `firmware/firmware/inc/app/`.

## 1. Inventory

| Component | State | Operations | Module |
|---|---|---|---|
| Packet codec, `scbs_comms.*` | a packet object: type, `is_valid_`, fields | `FromString`, `ToString`, `PacketizeContents`, `CalculateChecksum` of `BSPacket` and six subclasses | `SCBSPacket` |
| Cell protocol, `scbs.cc` | `cell_id_`, `output_voltage_`, `output_current_` | six packet handlers, `WriteRegister`, `ReadRegister`, `TransmitError`, `TransmitPacket`, the packet part of `Update` | `SCBSCell` |
| Chain: cells, links, master | sentences in flight, what the master waits for | `Update` of every cell, transmit, readline and its timeout; damage, loss, power cycles | `SCBSChain` |
| UART receive path, `scbs.cc` | FIFO, `uart_rx_buf_`, `uart_rx_buf_len_` | `ReceivePacket`, `AppendCharToUARTBuf`, `FlushUARTBuf` | `SCBSReceiver` |
| Status LED, `scbs.cc` | `status_led_on_`, `status_led_off_timestamp_`, the timer | `TurnOnStatusLED`, end of `Update` | `SCBSStatusLed` |
| Voltage output, `scbs.cc` | `output_voltage_`, PWM level | `SetOutputVoltage`, PWM part of `Init` | `SCBSOutput` |
| Current sense, `scbs.cc` | `output_current_` | `ReadOutputCurrent` | `SCBSDevice` (when), `SCBSChain` (any reading) |
| A whole cell: `Init` and the stages of `Update` | all of the above, the UART that receives beside them | `Init`, `Update` in its order and its time | `SCBSDevice` |
| UART transmit path, `scbs.cc` and the SDK's `uart.h` | transmit FIFO, receive FIFO of the next cell | `TransmitPacket`, `uart_puts` | `SCBSTiming` |
| Master, `scripts/scbs_utils.py` | serial input buffer, prompt loop | `packetize`, `transmit`, `readline` (5 s) | `SCBSChain`, in real time `SCBSTiming` |
| Spammer, `scripts/scbs_spammer.py` | the same | one multiple read for ever, `readline` (0.5 s) | `SCBSTiming` |

How they interact. The master sends a sentence to cell 1. Each cell receives it
whole, decodes it, acts on it and transmits exactly one sentence to the next
cell: the same command, the command with something added (`DIS`: the next ID,
`MRD`: its value), or an `SRS` response in its place. What cell N transmits
comes back to the master. A sentence that fails the base class check
(`IsValid`) is dropped. Cells share nothing but the links. Inside a cell
everything is sequential: `main()` calls `Update()` for ever, and the only
concurrency is with the UART hardware (its FIFO fills while `Update()` runs),
the timer and the PWM. `printf` goes to USB, not to the chain.

What is hard:

- **Interleaving and order.** The ring is a pipeline. After a timeout the master
  sends on while older sentences travel; cells consume some sentences and
  replace others. Which order do answers come back in, and does the pipeline
  behave as if commands were executed one by one?
- **Partial failure.** A multiple write takes effect hop by hop. There is no
  rollback, no sequence number, no retry.
- **Identity.** `cell_id_` is not initialised and not kept over a power cycle.
  Responses and single commands are matched by it alone.
- **Detection.** An XOR checksum, tokens whose absence is coded as "checksum 0",
  a subclass that rejects a header and still leaves the object valid.
- **Limits.** 200 character buffers, 20 values of 19 characters, `uint16_t` IDs,
  a 32 bit microsecond timer, a 32 character FIFO, a PWM of 1000 counts.
- **Timeouts.** The answer the master gave up on still arrives. Every cell stores
  a sentence before it sends it on, and a multiple read grows at every cell: the
  round trip grows with the square of the number of cells.
- **Busy waiting.** `uart_puts` blocks `Update()` for most of a reply. Meanwhile
  the receive FIFO fills, the output is not driven, the current is not sampled
  and the LED is not looked at.

What makes each component correct is stated in section 4; the complete list of
hazards, each at its line and with the properties about it, is `hazards` in
`PROJECT.json`.

## 2. Modules

```
SCBSPacket ── SCBSCell ─┬─ SCBSChain ── SCBSChainRefinement ── MCSCBSChain
                        │                  │ INSTANCE
                        │               SCBSPack (EXTENDS SCBSCell)
                        ├─ SCBSTiming ── MCSCBSTiming
                        ├─ SCBSDevice ── MCSCBSDevice
                        │     │ INSTANCE SCBSOutput, SCBSStatusLed
                        └─ SCBSOutput ── MCSCBSOutput
SCBSReceiver ── MCSCBSReceiver
SCBSStatusLed
```

The modules with proofs (each EXTENDS the ones it points from):

```
SCBSInduction ─┬─ SCBSCellProofs ─┬─ SCBSChainProofs ── SCBSRefinementProofs
               │   (SCBSCell)     │   (SCBSChain)        (SCBSChainRefinement)
               │                  ├─ SCBSOutputProofs (SCBSOutput)
               │                  ├─ SCBSDeviceProofs (SCBSDevice)
               │                  └─ SCBSTimingProofs (SCBSTiming)
               └─ SCBSReceiverProofs (SCBSReceiver)
```

**SCBSPacket** is the codec. A sentence is a record: header, whether the first
character is `$`, whether a `*` is there, what the transmitted checksum reads
as (the XOR, the number 0, anything else), and its fields. A field is a *text*:
what `strtoul` or `strtof` read it as, and its length. `IsValid` is
`BSPacket::FromString`, `Decode` the `FromString` of the six subclasses (one
definition: they differ in which fields they have), `Encode` is `ToString` with
`PacketizeContents`. Lengths are exact, so an MRD that has no room for a value
(`NumPrinted`) and a sentence that loses its `*` to `snprintf` (`FitsWithEnd`)
are there. An object whose subclass rejects the header has default fields and is
valid unless it is an MRD or an SRD (`Rejected`), as in the code.

**SCBSCell** is one cell as operators on the record of its three fields.
`Process(c, line)` is the packet part of `Update()`: the cell afterwards, the
sentences transmitted, what was changed. Voltages are hundredths of a volt, what
`%.2f` prints; not-a-number is a setting of its own, because `strtof` reads it.
A boot cell has any ID.

**SCBSChain** is the ring: `cell`, `wire` (one FIFO of sentences per link),
`master`. The actions and the code:

| Action | Code |
|---|---|
| `Transmit(r)` | `main()` of `scbs_utils.py`: `transmit(ser, packetize(...))` |
| `ReadLine`, `ReadTimeout` | `ser.readline()` with a sentence; at its timeout |
| `Update(i)` | an `Update()` of cell i that completes a sentence: parse, handle, transmit, flush, sample the current |
| `UpdateIdle(i)` | any other `Update()` |
| `Garble`, `Headless`, `Lose` | damage that the checksum detects; damage to `$` where the checksum reads 0; loss of a sentence |
| `PowerCycle(i)` | RAM, FIFO and what arrives during `Init()` are lost |

History variables tell what no part of the system knows: `master.missed` counts
the readlines that have timed out, each sentence carries the index of the
command it descends from, `wrote[i]` collects the commands that wrote a register
of cell i, `named[i]` is the command cell i has its ID from. No action's guard
reads them (but for `MaxCommands`).

`Update(i)` is atomic, because the cells share nothing but the links: what
happens between its receive and its transmit, nobody else can see. What can
arrive in between is the receiver's concern:

**SCBSReceiver** is the same receive path character by character, with the FIFO,
the buffer and its separate length counter. It justifies the chain's view of
links as FIFOs of whole sentences: with sentences that fit and a FIFO emptied in
time, everything that arrives is handed over once, in order and at line ends.
The loss the FIFO can cause otherwise is `Lose` in the chain.

**SCBSPack** is the abstract specification: a pack that executes each command at
once on all cells and queues the reply. **SCBSChainRefinement** shows that the
chain without faults implements it. Its refinement mapping *drains* the chain:
the abstract cell i is what cell i will be when everything on the links before
it has been handled, the abstract replies what will then be on the link to the
master. A command takes effect when it enters the first link, and a step of a
cell changes nothing. When a cell samples its current is not in the pack, so the
mapping takes every reading for 0.00 mA: it is right where no reading is asked
for or nothing draws a current (`ReadingHidden`).

**SCBSStatusLed** models the blink against a wrapping timer, with the conversion
of the `double` deadline to `uint32_t` as the linked library does it (clamped).
**SCBSOutput** models the setting, the rails, the calibration cubic (in fixed
point, 0.1 uV), the clamp, the inverted duty and the level before the first
`Update()`.

**SCBSDevice** is one whole cell: it composes the handlers, the output and the
LED in the order of `Init()` and `Update()`.

| Action | Code |
|---|---|
| `Init`, `EndInit` | `Init()` up to its `sleep_ms(100)`, and its end |
| `UpdatePacket(line)` | `Update()` with a sentence, up to the reply: blink, decode, handle (a write calls `SetOutputVoltage`), blink again, start to transmit |
| `UpdateRest` | the rest of `Update()`: `SetOutputVoltage`, `ReadOutputCurrent`, the LED. An `Update()` without a sentence is only this |
| `Tick` | time, which passes in `sleep_ms` and in `uart_puts` |
| `Arrive(line)` | the link: a sentence is complete in the FIFO, from `Init()` on |

The chain has all this as one step; this module shows what the step may take for
granted (the value reported is that of the present output) and what happens
beside it.

**SCBSTiming** is the ring in real time and character by character, with both
programs. A tick is the time of a character (9600 baud: 960 in a second), and
nothing is scaled. In a `Tick` every transmitter sends a character, every cell
whose `uart_puts` has returned moves what is in its receive FIFO to its
receive buffer, up to the end of a sentence (`Taken`) and no more than the buffer
has room for (`Room`, `Fitting`: the condition of the loop in `ReceivePacket`);
what it makes of a sentence (`Process`) is put behind what it still has to send,
and the buffer is flushed. A cell whose buffer is full is deaf: the loop is not
entered again. `uart_puts` has not returned as long as more characters are left
than fit the transmit FIFO (`Blocked`). The master's `readline` is pyserial's,
whose timeout starts anew with each character (`Silence`). The module has no
faults: it asks when a healthy ring gets into the situations of `SCBSChain` (a
timeout, a lost sentence) by itself.

## 3. Abstractions

- A field is what it reads as and how long it is; the digits are not there.
  Cutting a number at 19 characters keeps its value to the precision modelled.
- The XOR checksum is abstracted to whether it detects the damage. Damage it
  does not detect is modelled for the start token only (`Headless`).
- Links carry whole sentences. Damage to the `\n` between two of them is
  modelled in the receiver, not in the chain. The requests are such that every
  field a handler takes is there (`Request`); a user who types an empty field,
  or puts a comma or a `*` into one, is not modelled.
- The current sense reads anything in its range at any `Update()`. In
  `SCBSDevice`, where only the time of the sample matters, a sample is the level
  it was taken at; in the chain's runs the reading is constant.
- In `SCBSTiming` the clocks of all cells agree and a pass of `Update()` takes no
  time of its own, so a reply starts one character time after the end of the
  sentence; USB latency of the master's adapter is not there. The reach of the
  spammer (below) is an upper bound for that reason.
- In `SCBSDevice` time passes in whole ticks, in `sleep_ms` and `uart_puts` only,
  and at most one sentence waits in the FIFO (what waits behind it is
  `SCBSReceiver`'s concern).
- The calibration is exact where the firmware uses single precision: at the edge
  of a count the level can differ by one (5 mV).
- The two fields of a `Text` of the address column are read in base 16, of the ID
  column in base 10; `ToNum` is the number read, not its digits.

## 4. Runs

Every `pass` run ends with no error; every `violation` run shows one
disagreement between the code and what its comments or documents say.

| Run | Instance | Shows |
|---|---|---|
| `Chain_faults` | 3 cells, IDs modulo 3, 2 of 4 commands (three writes, discovery), 2 faults of any kind | `TypeOK`, `InOrder`, `AnswersLag`, `WritesFormPrefix`, `EchoMeansWritten`, `SingleWriteOnce`, `OkMeansWritten`, `ErrorMeansUntouched`, `Discovery` |
| `Chain_pack` | 3 cells, packets with room for exactly 3 versions, 2 of 10 commands of all types, timeouts, no faults, fair | `NothingLost`, `ReadFromAll`, `ImplementsPack`, `AllAnswered` |
| `Receiver_lines` | buffer of 4, sentences of up to 6, FIFO of 2 that overruns, 6 characters, fair | `TypeOK`, `OneSentence`, `NothingSkipped`, `NeverDeaf`, `Heard` |
| `Device` | timer of 16 ticks, blinks of 1, 2 and 6, replies of up to 3, 5 sentences (writes, a read, a response, a bad one) in any order | `TypeOK`, `LevelFollows`, `FreshCurrent`, `BootWindow`, `BlinkEnds`, `NeverShort` |
| `Timing` | rings of 1 to 21 cells, real limits; `scbs_utils` with 7 commands, one of them a sentence of 199 characters, `scbs_spammer` for 4 rounds; two readings | `TypeOK`, `InTime`, `NotDeaf`, `NoOverrun`, `ReadsComplete`, `WholeLines` |
| `Output_calibration` | every setting from -0.03 to 4.55 V, each after each, and not-a-number | `TypeOK`, `NotFullScale`, `Monotone`, `Resolved` |
| `Chain_start` | 1 cell | `StartTokenChecked` violated: damage to the `$` goes unnoticed |
| `Chain_versions` | 12 cells, one version read | `ReadFromAll` violated: the twelfth value is dropped silently |
| `Chain_silent` | 2 cells, one damaged sentence, fair | `AllAnswered` violated: no error reply for a bad checksum |
| `Receiver_deaf` | sentences that fit, FIFO of 1 that overruns, fair | `Resync` violated: two merged sentences fill the buffer for ever |
| `Led_stuck` | an `Update()` at every tick, fair | `TurnsOff` violated: a deadline clamped to the end of the timer |
| `Output_nan` | as `Output_calibration` | `OnRails` violated: not-a-number passes both rails |

**Bounds and why they suffice.** `MaxCommands` and `MaxFaults` end a behaviour,
so the chain and receiver runs check no deadlock: a behaviour at its bounds
stops. So does the `Timing` run, when the program has had all its rounds. Two commands are what ordering needs (which of two is first), and with
`MasterTimeout` both are in the chain at once. Two faults let a sentence be
damaged on one link while another is lost, or a cell lose power behind a
sentence that was damaged before. Three cells give a first, a middle and a last
one; twelve are needed for an MRD packet to run full of version strings
(`Chain_versions`). IDs modulo 3 make the increment of discovery wrap and make
duplicates likely. In `Chain_pack` a packet of 67
characters and 3 values has room for the versions of all cells and none to spare
(with 66 the last is left out), so a multiple read comes back whole, at its
limit. The refusal of a chain with more cells than a packet has values for is
reached by the `Timing` run, at the real limit: its ring of 21 cells gets an
error where the one of 20 gets 20 values. The
receiver's buffer and FIFO are scaled from 200 and 32 to a few characters, with
sentences below and above the buffer; the guards depend on the differences only.
The timer is scaled from 2^32 to 16 with blinks of less than half of it; the
blinks of the `Device` run keep their order but not their ratio, and a reply is
longer than the shortest blink, as in the code (10 ms and up to 200 ms).
`MaxAge` only ends the counting of a blink's age, beyond every age the
properties ask for. `SCBSTiming` is not scaled: 21 cells are one more than a
multiple read has values for, the longest request is the longest sentence that
`uart_rx_buf_` has room for, four rounds show a ring that is overtaken by its
own late answers. The output run is not scaled: it enumerates every setting that
`%.2f` can show.

**Fairness.** `main()` calls `Update()` in an endless loop and every call
returns, so a cell with a sentence at its input handles it: for each cell,
infinitely often either the link is empty or `Update(i)` is taken. The link
before cell i is emptied by `Update(i)` alone when there are no faults, which
makes this weak fairness of `Update(i)`, with the guard written out in place of
ENABLED. `readline` returns when a line is there (weak fairness of `ReadLine`).
The receiver's loop and the timer get the same. `SCBSDevice` and `SCBSTiming`
need none: what they promise is a bound in time, not an eventuality. Nothing
obliges the user to type, a readline to time out, a fault to happen or
characters to arrive.

**Undetected damage.** `Discovery`, `OkMeansWritten` and `ErrorMeansUntouched`
are claimed as long as all damage was `Detected`. After a `Headless` a packet
with default fields is executed: a DIS that lost its ID numbers the cells from 1
again, and an error can come back for a write that was executed by the cells
before. `InOrder`, `WritesFormPrefix`, `EchoMeansWritten` and `SingleWriteOnce`
hold in spite of it: the default fields name no register, and nothing creates a
second descendant of a command.

The receiver's `NeverDeaf` and `Heard` are claimed as long as every sentence is
`whole`: it fits the buffer and has not lost its end of line to a full FIFO.
`NothingSkipped` and `OneSentence` speak of the characters that entered the FIFO:
that none of them is skipped, repeated or left behind the end of a sentence. What
an overrun costs is the concern of `NoOverrun`.

**Requests that fit.** A sentence of 200 characters or more makes the cell that
receives it deaf: `uart_rx_buf_` is full before the end of the line. No cell
transmits one (`RepliesFit`), but a user can type one. The links of `SCBSChain`
hand over whole sentences, and the requests of `Timing` fit, so what is said of a
healthy ring (`NothingLost`, `AllAnswered`, `ImplementsPack`, `NotDeaf`,
`NoOverrun`, `InTime`) is said for requests that fit (`RequestsFit`).

## 5. Proofs

Every theorem is for every value of the constants: any number of cells, any
requests, any fault kinds, any sizes of buffers, FIFOs and timers, as far as the
assumptions named in the modules (`PacketAssumption`, `ChainAssumption`,
`ReceiverAssumption`, `LedAssumption`, `DeviceAssumption`, `TimingAssumption`)
allow. These say that limits are natural numbers, requests are requests and
readings are readings; the ones that exclude something are

- a UART buffer has at least 2 characters (one and the `\0` it is flushed to),
- a blink is shorter than the range of ages that are counted (`MaxAge`),
- a ring has no more cells than there are IDs (its cells are numbered).

Some theorems need more, as a hypothesis of their own:

- `Roomy`: the buffer of a field has at least 17 characters and that of a packet
  26 more than that of a field (the code: 20 and 200);
- `RoomForAll`, `RoomForReads`: a sentence has room for as many values as are
  read, which finding 2 of section 6 shows is not so for the versions of more
  than eleven cells;
- `RequestsFit` and `RepliesFit`: what the user types makes sentences that are
  shorter than the receive buffer, and that buffer is longer than the field
  buffer by more than 26 and longer than what a packet has besides one field by
  more than 17 (the code: 200 for a receive buffer, against 46 and 197);
- `FaultKinds = {}` and `ReadingHidden`: the refinement is that of a chain
  without faults, for commands that do not ask for the current or cells that draw
  none.

The theorems `...InCode` replace the hypotheses about room by the sizes of
`scbs_comms.hh` (`CodeSizes`; `CodeBuffers` with the receive buffer of `scbs.hh`)
and, where versions may be read, at most eleven
cells (`RoomInCode`).

| Module | Theorem | Statement |
|---|---|---|
| `SCBSChainProofs` | `TypeCorrect` | `Spec => []TypeOK` |
| | `OrderCorrect` | `Spec => []InOrder` |
| | `LagCorrect` | `Spec => []AnswersLag` |
| | `PrefixCorrect` | `Spec => []WritesFormPrefix` |
| | `EchoCorrect` | `Spec => []EchoMeansWritten` |
| | `SingleWriteCorrect` | `Spec => []SingleWriteOnce` |
| | `OkCorrect` | `Spec => []OkMeansWritten` |
| | `ErrorCorrect` | `Spec => []ErrorMeansUntouched` |
| | `DiscoveryCorrect` | `Spec => []Discovery` |
| | `ReadsCorrect` | `RoomForAll`: `Spec => []ReadFromAll` |
| | `ReadsCorrectInCode` | `CodeSizes`, `RoomInCode`: the same |
| | `NothingLostCorrect` | `Roomy`: `Spec => []NothingLost` |
| `SCBSRefinementProofs` | `ChainImplementsPack` | `FaultKinds = {}`, `ReadingHidden`, `Roomy`, `RoomForAll`: `Spec => ImplementsPack` (a refinement) |
| | `ChainImplementsPackInCode` | `FaultKinds = {}`, `ReadingHidden`, `CodeSizes`, `RoomInCode`: the same |
| `SCBSOutputProofs` | `TypeCorrect`, `NotFullScaleCorrect` | `Spec => []TypeOK`, `Spec => []NotFullScale` |
| | `MonotoneCorrect`, `ResolvedCorrect` | `Spec => Monotone`, `Spec => Resolved` (action properties) |
| `SCBSReceiverProofs` | `TypeCorrect`, `OneSentenceCorrect`, `NeverDeafCorrect`, `NothingSkippedCorrect` | `Spec => []` of `TypeOK`, `OneSentence`, `NeverDeaf`, `NothingSkipped` |
| `SCBSDeviceProofs` | `TypeCorrect`, `LevelCorrect`, `FreshCorrect`, `BootCorrect`, `BlinkCorrect` | `Spec => []` of `TypeOK`, `LevelFollows`, `FreshCurrent`, `BootWindow`, `BlinkEnds` |
| | `NeverShortCorrect` | `Spec => NeverShort` (an action property) |
| `SCBSTimingProofs` | `NotDeafCorrect` | `RequestsFit`, `RepliesFit`: `Spec => []NotDeaf` |
| | `NotDeafInCode` | `CodeBuffers`, `RequestsFit`: the same |
| | `NoOverrunCorrect` | `RequestsFit`, `RepliesFit`: `Spec => []NoOverrun` |
| | `NoOverrunInCode` | `CodeBuffers`, `RequestsFit`: the same |
| | `WholeLinesCorrect` | `Spec => WholeLines` (an action property) |
| | `ReadsCompleteCorrect` | `RoomForReads`: `Spec => []ReadsComplete` |
| | `ReadsCompleteInCode` | `CodeSizes`: the same |

*Types.* The chain's `TypeOK` is inductive. Its core is that `Process` maps a
cell and a well formed line to a cell and well formed lines; the lemmas
`DecodeType`, `HandlePost`, `EncodeType` of `SCBSCellProofs` follow a line
through the codec and the handlers. This is what says that no `strtok` in a
handler returns NULL on a sentence of another cell, that settings stay on the
rails (or not-a-number) and IDs in `uint16_t`.

*Order.* `InOrder` is inductive with `TypeOK`. It orders the tags along the
whole ring: along each link, between links, and behind the last answer printed.
Every step but `Transmit` and `Update` only removes sentences (`ShrunkInOrder`);
`Update(i)` moves a tag from the head of one link to the end of the next, which
keeps the order because it is below all behind it and above all ahead.
`AnswersLag` follows by induction with it: what `readline` returns is younger
than what it returned before, so only a timeout leaves the master further
behind.

*Writes.* None of the three write properties is inductive. A cell that takes a
multiple write extends the prefix only because the cells before it have written
and none behind it, which is what `EchoMeansWritten` says of the sentence it
takes; that a write of this cell does not falsify it for another sentence needs
that no other has the same tag (`InOrder`), and that a tag is never used before
it is sent (`WritersSent`). A cell may take a single write because the
sentence that still carries it is `Unspent`. And a response can never turn into
a write again (`DescentKeepsType`). `WriteInv` is their conjunction; the proof
that each step preserves it splits into steps that write nothing (`CarriedInv`),
`TransmitInv` and `UpdateInv`.

*Replies.* What an answer means depends on what happened to the command on its
whole way, so the invariant (`ReplyInv`) speaks of sentences on every link, as
long as all damage was detected: a sentence that passes `IsValid` has its start
token (`Intact`) and the address it was sent with (`AddressKept`); an OK for a
single write is on a link only behind the cell that wrote (`OkWritten`); an error
is on a link only while no cell has written for its tag (`ErrUntouched`): the
first cell refuses a write or none does, because refusal depends on the address
alone. For discovery, the ID in a DIS sentence is that of the command plus the
cells passed (`Numbering`).

*Lengths.* That `ToString` leaves out no value is a fact about sums of lengths.
`ContentsLen` is a recursive function, and the lemmas about it (`SumsExist`,
`SumsAgree`, `ContentsAppend`, `ContentsUpto`) are inductions. The library's
induction theorems take a predicate, which none of the provers can instantiate;
`SCBSInduction` therefore states induction for a *set* of numbers
(`NatSetInduction`), proved from the well-foundedness of strict inclusion on
finite sets, and each use names the set for which its claim holds (`UptoInduction`
stops at a number, `Recursion` says that recursive equations over `0 .. n` have a
solution). `ReadInv` then
follows a multiple read around the ring: its values are short (`ShortRead`) and
as many as the cells it has passed. `FlightInv` is the same for whole sentences
without faults: every one fits with its `*` (`Roomy`), so no cell drops it, and a
command that has not been answered is on exactly one link.

*Refinement.* `Drained` and `After`, the recursive functions of the mapping, are
used through the equations they solve (`Drains`, `DrainedSteps`, `AfterSteps`),
by induction along the cells and along the sentences of a link. Three facts then
say what the steps are:

- `Update(i)` is a stutter (`DrainUpdate`). Draining link i - 1 from the state of
  cell i is handling the first sentence and draining the rest from the state
  after it (`AfterHead`), and what the cell has transmitted is on the next link
  earlier. So every link behind holds the same once drained.
- `Transmit(r)` is `Execute(r)`. A line more on link 0 runs through the cells as
  they are when they have handled everything before it (`DrainAppend`), which is
  the pack. What comes out at the end is found with one lemma per command
  (`ExecuteDIS`, `ExecuteMWR` and so on), each an induction along the
  cells with the line behind cell i and what the cells before it have become: a
  multiple read has one value of each, or is the error of the first cell without
  room, a single command has been answered by the first cell with its ID. That
  no line is dropped on its way is where the hypotheses about room are used.
- `ReadLine` takes the head of the replies (`DrainRead`), `ReadTimeout` is
  `GiveUp`, and `UpdateIdle` changes a reading only.

The readings need an invariant of their own (`Hidden`): either no cell has one
other than 0.00 mA (`Loadless`), or no sentence on a link asks for it (`Unasked`,
`Quiet`).
In both cases what a cell does is what it does without a load
(`ProcessUnloaded`).

*Receiver.* `TypeOK /\ OneSentence` is inductive for all sizes of buffer and
FIFO. `NothingSkipped` compares what was handed over with what had arrived
(`Printable`, a recursive function over the history): by induction it does not
depend on what is appended, and a character moved from FIFO to buffer changes
nothing in it.

*Output.* The level of a running cell is that of its setting (`LevelSet`), so
all properties are facts about the composition of calibration, rails and duty.
`RawSlope` is the one that matters: from any setting to any higher one the
calibrated voltage rises by at least 5 mV, one count of the PWM, for every 10 mV.
It bounds the two differences of products a Horner step makes, with every
rounding of the division. Together with the values at the end of the dead band
(`RawDead`) and at 4.50 V (`RawTop`) it says that the upper rail is never
reached, the lower one in the dead band only, and that distinct settings have
distinct levels (`LevelFalls`). The coefficients are those of the code: with
others the bounds of the lemmas have to be found anew.

*Device.* `LevelFollows` and `FreshCurrent` need which of the stages of `Init()`
and `Update()` the cell is in (`Boot`), and that no stage between a write and the
end of its `Update()` samples. `BlinkEnds` and `NeverShort` count the age of a
blink on a timer that wraps: the deadline is the age away (`Lit`), unless it was
clamped at the end of the range, which the properties exclude.

*Time.* Two invariants of `SCBSTiming` hold in any case: every character stream
carries lines some cell may send (`Streams`, for any family of sets of lines
closed under `Process`: all good lines for one proof, those with one value per
cell passed for another, those that fit the receive buffer for a third), and a stream that is not empty ends with the end of
a sentence as long as its transmitter is (`Closing`). The latter is why a
readline that has seen part of a sentence sees a character in every tick
(`WholeInv`).

That no cell is deaf needs to know where the ends of the sentences are on its way.
`Spaced` says it of the characters a cell has not taken yet (its FIFO, then what
the cell before it has still to send) together with the number it holds in its
buffer: the first end comes before the buffer is full, and from each character on
there is an end within the length of a buffer. Taking characters keeps this, with
an end or without one (`SpacedTaken`), a sentence that fits keeps it when it is
put behind (`SpacedConcat`), and what a cell makes of lines that fit does fit
(`FitLinesClosed`, from the lengths in `EncodeLength`). It holds however many
sentences are in the ring, until a FIFO overruns and loses an end.

Until a readline has timed out there is exactly one sentence in the
ring and it is on one link (`Alone`, `At`): the cell behind the link is not in
`uart_puts`, takes each character in the tick after it came (there is room for it: `NotDeaf`),
and replies when the link is empty. So a FIFO of a single character would do.

*Only model-checked:*

- liveness (`AllAnswered`, `Heard`), which is beyond the prover;
- `InTime` and `TypeOK` of `SCBSTiming`: `InTime` is a sum of the lengths of all
  replies against the timeouts of the two programs, for rings up to a given size,
  and the run covers these sizes with the limits of the code. The bound of
  `TypeOK` on what a transmitter may hold is no invariant of every instance: a
  master overtaken by its own late answers may add commands faster than it sends;
- the refinement where the current is read while something is drawn: the chain
  samples when a cell is done with a sentence, and the pack has no such moment.
  `ReadFromAll` and `FreshCurrent` say what holds of such a reading.

## 6. Findings

`findings` in `PROJECT.json` has them with their quotations. In short:

1. A damaged `$` and a checksum that reads 0 is a valid packet (`Chain_start`).
2. A multiple read of long values loses the last ones silently
   (`Chain_versions`).
3. A bad checksum is dropped without the promised error (`Chain_silent`).
4. The "String too long! Abort." branch cannot be reached and a full buffer is
   never flushed (`Receiver_deaf`).
5. A blink at the end of the timer's range leaves the LED on instead of making a
   short blink (`Led_stuck`).
6. Not-a-number passes the rails and is acknowledged with OK (`Output_nan`).

Observations that contradict no document and have no run of their own:

- The master never resets its input buffer, so after one timeout every answer is
  printed for a later command than the one it answers, without any fault.
  `AnswersLag` bounds by how much: one command per timeout, for ever.
- `Timing` says when this happens. `scbs_utils` with its 5 s never times out in a
  healthy ring of up to 21 cells (the largest checked). `scbs_spammer` with its 0.5 s does
  from 11 cells on, if every one reports a current of six characters
  (`SpammerReach`); with 0.00 mA everywhere, from 12 on. It then has several
  sentences in the ring. That is harmless for a FIFO in most sizes, but longer
  exploration (7 rounds, 19 cells) does overrun one: `NoOverrun` is claimed until a
  readline has timed out.
- `kPWMDefaultDuty` is 0 and the duty is inverted, so from `Init()` (which sleeps
  for 100 ms) on the PWM asks for the full 5 V. `BootWindow`: this is over after
  the first `Update()`, which transmits a reply first if a sentence arrived during
  `Init()` (some 100 ms, and up to 176 more for the characters of a full reply
  that do not fit the FIFO). `NotFullScale` speaks of a running cell only.
- A read of the current that arrives during `Init()` is answered with 0.00 mA:
  nothing has been sampled yet (`FreshCurrent` excepts it).
- A typed request whose sentence has 200 characters or more makes cell 1 deaf
  until it is power cycled (finding 4 is the same buffer, filled by an overrun).
- A sentence that passes through replaces the 500 ms blink of a write by its own
  10 ms. The blink is that of the last packet.
- A write to 0x3000 is refused with ERR:1 (not recognised), though reads know the
  register and ERR:3 exists.
- The datasheet gives 2.5 V as the lowest setting, the code takes 0 V; a text that
  is no number sets 0 V and is answered with OK.

## 7. Not modelled

The vendored SDK and GoogleTest (but for the few functions the firmware's timing
hangs on: `uart_puts`, `uart_write_blocking`, the conversion of a `double`), the
hardware design (`kicad`, `ltspice`, `solidworks`, `excel`, `affinity`,
`images`, `word`, `literature`), the unit tests; pin set-up; `printf`.

Two sentences merged by a lost end of line: the receiver models the text, the
codec is not given it. The `FromString` of an MRD computes the lengths it copies
from the first `*` in the buffer, behind which its values then lie; what it
stores is not defined by the code. `NoOverrun` shows that a healthy ring does
not lose the end of line in the first place.

A ring in real time *with* faults: a power cycle in the middle of a transmission
or an answer torn by noise. `SCBSChain` has the faults, without time.

`GetCellID`, `GetOutputCurrent`, `send_dis`, `validate_address`, which change
nothing or are never called.

## 8. Plan

Done, in this order: codec, cell, chain with faults; receiver, LED, output; the
abstract pack and the refinement; type, order and write theorems; the ring in
real time with both programs; the whole cell; the lag of the answers; the
theorems about replies, reads and lost commands, the receiver, the whole cell and
the ring in real time; the refinement as a theorem; the theorems about the
output.

Dropped: loss and damage inside the abstract pack. A command that stops at cell
i is no longer one step on all cells, and what can be said of it is what
`WritesFormPrefix` and `EchoMeansWritten` say of the chain itself. A recovery
protocol of the master: the scripts have none, there is no code to model.

Open: a closed form of the round trip time, from which `InTime` would follow for
rings larger than those checked; a ring in real time with faults.
