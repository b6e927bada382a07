# TLA+ models of the driver-bsp drivers

The repository is a collection of study projects. Its own core logic is
`driver-bsp/`: Linux drivers and tools for a telecom board. This directory holds
TLA+ models of the parts of it in which threads, interrupts, timers and a lossy
link meet, TLC configurations that check them on small instances, and proofs.

The paths below are relative to `src/driver-bsp/`, whose sources are GB18030 text.
Outside it, the programs that meet a lossy network, a signal or a device that
writes on its own are modelled too: the TFTP client, ping and traceroute of
`src/tcpip/`, the AER injector of `src/aer-utils/` and the memory check of `src/virt/`.

## 1. Inventory

| Component | Source | State | Operations | What is hard | What makes it correct |
|---|---|---|---|---|---|
| CSME channel, transmit side | `netboot/csmencaps/af_csmencaps.c` | per channel: queue of unacked skbs, timer, retries, a 4-bit sequence number per opcode | `csme_tx`, `csme_rx_ack`, `handle_channel_timeout`, `csme_tx_msg_next`, `channel_reset`, the ack option | lost and repeated packets and acks, the timer racing an ack, `csme_tx` working on after its unlock, resets with packets on the wire | in order, at most once; the queue drains; an ack is only taken for what was accepted; no use of a freed skb |
| CSME targets, receive side, sockets | same | list of targets and channels, `/proc` files, the one socket, its receive queue | `target_add`, `target_change_mac`, `csme_rx_msg`, `csmencaps_rcv`, `csmencaps_create`, `_release`, `_sendmsg`, `_ioctl` | check-then-act without one lock, ack before delivery, a READY that replaces a target, packets for a socket that is going | one target per address; a message reaches the socket once; an acked one was new once; a socket is destructed empty |
| UART read path | `uart/uart-drv/src/rcNtty.c`, `rctty_io.c`, `serial_xr16m752.c` | flip buffer (two halves), delayed work, circular `read_buf`, wake-up level, wait queue | receive interrupt, `flush_to_ldisc`, `n_tty_receive_buf`, `read_chan`, `rctty_poll`, `CMD_SET_MIN` | four contexts, ring that wraps, lost wake-ups, VMIN/VTIME | the stream is kept; nobody sleeps on input that satisfies it |
| UART write path | `rctty_io.c`, `rcNtty.c`, `rcserial_core.c` | `write_buf`, circular `xmit`, semaphore, wait queue, tasklet | `rctty_write`, `write_chan`, `uart_write`, `uart_tasklet_action` | sleeping on a full ring the interrupt empties, signals, failed allocations | calls leave one after the other; every write returns |
| DUART port | `serial_xr16m752.c` | interrupt enable, RTS, FIFOs, line control register and divisor latch | transmit and receive interrupt, RS-485 switching, shutdown, line settings, break | bursts without looking, RTS against the last character, DLAB window | no FIFO overrun; RTS up while sending; the line is as it was asked for |
| QUICC Engine port | `ucc_uart.c` | two rings of buffer descriptors, event and mask register | `qe_uart_int`, `qe_uart_int_rx`, `qe_uart_tx_pump`, startup, shutdown, break | the engine runs beside the driver; two rings wrap independently; events cleared before work is done | engine and driver agree on the descriptors; no character lost, repeated or forgotten |
| UART open and release | `rctty_io.c`, `rcserial_core.c`, both ports' probes | `tty_opened[]`, lifetime of the tty, handlers, memory of the ports | `rc_tty_init`, the probes, `rctty_open`, `rctty_release`, `rc_tty_exit` | two opens at once, failures half-way, teardown order | one owner; nothing used after it is freed; nothing left behind but what is named |
| UCC library | `ucc.c`, `ucc_slow.c` | multiplexing registers shared by eight UCCs and four TDMs | `ucc_set_qe_mux_rxtx`, `ucc_set_tdm_rxtx_clk`, `_sync`, `ucc_mux_set_grant_tsa_bkpt`, `ucc_set_type`, allocation and release | two UCCs and two directions in each register | routing one clock leaves the others alone |
| netboot, loadmsp | `netboot/netboot.c`, `netboot/loadmsp.c` | boot dialogue with an MSP, place in the image | commands and answers over the CSME socket, `check_and_load` | lost and unasked messages, kills and restarts, writes that fail | PLLs and DDR set up once; marker and load stand for a complete set-up; the image is loaded right |
| Local bus driver | `localbus/cpld_drv/localbus_dev.c` | semaphore, interrupt flags, CPLD and SoC registers | ioctls, handler, tasklet, release | error paths that keep the semaphore, files shared by fork, a handler that writes the CPLD without it | fields keep their values; interrupts registered and freed once |
| Long-light detection | `longlightdetect/longlightdetect_dev.c` | two timers, a counter, an interrupt | timer handlers, proc writes, load and unload | edges, ticks and writes mix; timers revived while leaving | off only when no edge was taken meanwhile; never asleep |
| MDIO driver | `mdio/mdio-drv/mdio_dev.c` | controller registers, busy flag | ioctls | calls that time out and complete late | a read answers for its register |
| AER injector | `../aer-utils/aer_drv/aer_inject.c` | list of errors, list of replaced bus operations, error masks | write, config accesses, unload | replaced operations seen before they are listed, one static register block | operations put back; masks restored |
| I2C mutex device | `mutex/mixdev.c` | one mutex | ioctl lock, unlock | owner dies | only the owner unlocks |
| TFTP client | `../tcpip/udp/tftp.c` | block number, retransmission count, file position | `tftp_put`, `tftp_get`, the alarm handler | lost and repeated packets, the alarm jumping out of the receive loop, block numbers that wrap, byte order, a full disk, the last block | blocks stored in order, none twice; success only after the last one; the transfer ends |
| traceroute, ping | `../tcpip/raw/` | probe and alarm flag; sequence number, checksum | `traceloop`, `recv_v4`; `send_v4`, `proc_v4`, the alarm handlers | late, repeated and foreign ICMP, an alarm at any point, carries and borrows | the right host on each line; true times; ping never stops sending |
| KVM memory check | `../virt/kvm_pci_memcheck.c` | VM, IOMMU groups, mapped ranges, search position | `main` | a failure at every call, devices opened half-way, devices that write behind the search | reports only what a device in its hands can have written, watches what it opened, finds what stays, gives back the VM |

**Interaction.** User threads enter the UART driver through `rctty_io.c`, which
calls the line discipline (`rcNtty.c`), which calls the port through function
pointers (`rcserial_core.c`); ports call back through the flip buffer's delayed
work (input) and a tasklet (room in the ring). netboot talks to an MSP through a
CSME socket; `csme_tx` hands skbs to a network device and acks come back in
softirq context.

**Left aside:** the interactive test programs, the I2C mutex device, and the directories of exercises and vendored code outside
`driver-bsp/`. `PROJECT.json` lists them with reasons.

## 2. Modules

| Module | Models | State and actions |
|---|---|---|
| `CsmePipe` | what a channel promises: a lossy pipe, in order, at most once, that settles messages in order, each once, and confirms only what was delivered | `sent`, `delivered`, `acked`, `givenUp`, `overtook`; Accept, Deliver, Confirm, GiveUp, and Overtake, after which nothing is promised |
| `CsmeChannel` | the transmit side of one channel and the link to the MSP | the fields of `struct csme_channel`, the place of each thread inside `csme_tx` (`pc`, `skb`), two FIFO lossy links. `csme_tx` is the part under the lock; `csme_tx_arm`, `csme_tx_clone`, `csme_tx_xmit` what the thread does after the unlock, with softirqs and other threads between any two of them: `overtook` records that a clone was transmitted after a newer message; `csme_rx_ack` and `handle_channel_timeout` are softirqs, one step each. `MspReceive` is external: the MSP numbers and acks like `csme_rx_msg`. A kernel crash is the value of `oops` |
| `MC_CsmeChannel` | TLC instances | chooses a scenario: `giveup`, `wrap`, `faults` |
| `CsmeChannelProofs` | theorems about `CsmeChannel` | proof modules declare no state; they define the inductive invariants |
| `RcttyRead` | the read path, fed by the DUART's interrupt | `flip` is the half being filled, `cp` the half the work has taken. `xr_rx_chars_duart` is atomic; the work takes the steps `flush_to_ldisc`, `FlipBuffers`, `n_tty_receive_buf`, `WakeReaders`; `read_chan` is cut where another context can observe a difference: `AtomicRead`, `Arm`, `TestInput`, `Resume`, `CopyCount`/`CopyOut` (twice), `CheckMinimum`, `LeaveLoop`, and at both ends the test and the store of `minimum_to_wake` as two steps: `late` records a store on an outdated test |
| `MC_RcttyRead` | TLC instances | scenarios `many` and `one` |
| `RcttyWrite` | the write path above the ports | `head`, `tail`, `buf` of the ring, one record per call of `rctty_write`. `write_chan` leaves `tail'` and `tlet'` to the port |
| `DuartTx` | `RcttyWrite` on the DUART | `xr_tx_chars_duart` moves a burst and wakes; `xr_stop_tx_duart` busy-waits inside the handler; RS-485 switching and shutdown are cut at their busy wait |
| `UccTx` | `RcttyWrite` on a UCC | descriptors `bd`, `tx_cur`; `qe_uart_tx_pump` from `xr_start_tx_ucc` or `qe_uart_int`; `QeSend` is external |
| `MC_UartTx` | TLC instance of both ports | `port` selects the port of the behaviour, `ioctls` whether breaks and RS-485 switching happen |
| `UccRx` | reception on a UCC | descriptors, `rx_cur`, event register. The handler takes one step for the events and one per descriptor (`CopyBd`, `NoRoom`, `AllRead`), then `WriteBack`, because the engine receives beside it; open and close keep the ring as the code does |
| `Tftp` | the TFTP client, an external server and the network between them | `pc` is the place in `tftp_put` or `tftp_get`: `first` (waiting without alarm), `wait` (in the receive loop), `written` and `got` (a packet used, alarm still armed). `sig_alrm` jumps back from any of the `AlarmPoints`. A file is a sequence of blocks; of a block's length only the classes the code tells apart are kept. `little` is the byte order of the host, which decides what `AckNum` puts on the wire; a `write` that the disk does not take in full leaves a `Partial` block |
| `CsmeHost` | the rest of `af_csmencaps.c`: targets, channels, `/proc` files, receive side and socket calls | `list`, `mac`, `chan`, `lastRx` are the tables; `thr` is where a thread is inside a socket call, cut at every point where a softirq or, in an allocation, another thread can come in; `msp` is an external MSP that repeats what was not acked and remembers which channels it was told to create. `races` says whether such a point is hit while a thread relies on what it looked up |
| `MC_CsmeHost` | TLC instance | symmetry over targets and sockets |
| `UartPorts` | the life of the UART module and of an open port | `mod`, `pxr`, `res` (what is allocated, the device numbers and the mapping `itmp` included), `opened`, `pc` and `on` of each process, `irqs`, `work`, `tlet`. Probes, `rctty_open` and `rctty_release` are cut at each acquisition and release; the interrupt, the delayed work and the tasklet run in between |
| `UartLine` | line settings and break of both kinds of port | registers as sets of bits; `xr_set_termios_duart` is cut at each register write, and the receive and the transmit interrupt come in between; `hit` says which half of the open divisor latch the latter wrote |
| `UccMux` | the multiplexing registers of `ucc.c` | registers as sets of bits; one action per routing function |
| `MC_UartHw` | TLC instance of `UartPorts`, `UartLine`, `UccMux` and `UccRx` | `scene` selects the part a behaviour is about |
| `Netboot` | the boot program over a CSME socket | `step` in the script of commands, `phase`, queues to and from the MSP, `dsp`, the external MSP's state with the set-up commands it has carried out; kills and restarts. `mixed` records a message that can be taken for an answer it is not |
| `AifLoader` | loading an AIF image | the section, the offset, `mem`, the chain of regions; a write moves up to `CHUNK` bytes or cannot be sent, and the loader waits for any message: writes and answers get lost, an unasked message comes in |
| `MC_Netboot` | TLC instance of both | eight images, one with a chain of regions that comes back |
| `LocalbusDev`, `Longlight`, `MdioDev`, `AerInject` | the small drivers | one action per ioctl, handler, tick or file operation, cut where another process, tick or interrupt can run: inside `timer2_tick`, between the handler's CPLD writes and a process's read and write back, between `aer_inject`'s unlock and the filling of the registers. The variables named `...Seen`, `...Raced`, `...Met` record that calls met in a way the property excludes |
| `MC_Drivers` | TLC instance of the four | `driver` selects the one a behaviour is about |
| `Traceroute`, `Ping`, `KvmMemcheck` | three programs of the host | `trPc`, `pgPc`, `kvPc` follow the program; `TrSigAlrm` and `PgSigAlrm` are the alarm handlers; the network and the devices are external. `kvConts`, `kvHeld` and `kvFds` are the VFIO descriptors, which nothing closes; only the destination sends port unreachable (`TrAnswers`) |
| `MC_Tools` | TLC instance of these and of `Tftp` | `program` selects the one a behaviour is about |
| `CsmeScenarioProofs` | theorems about `MC_CsmeChannel` | uses `CsmeChannelProofs` once per scenario, with INSTANCE |
| `CsmeHostProofs`, `RcttyReadProofs` | theorems about `CsmeHost` and `RcttyRead` | |
| `RcttyScenarioProofs` | theorems about `MC_RcttyRead` | uses `RcttyReadProofs` once per scenario |
| `UartTxProofs` | theorems about `UccTx` and `DuartTx`, composed as in `MC_UartTx` | |
| `DeviceProofs` | theorems about `LocalbusDev`, `Longlight`, `MdioDev`, `AerInject`, `UartPorts`, `UartLine`, `UccMux`, and `UccRx` as composed in `MC_UartHw` | |
| `ToolsProofs` | theorems about `Traceroute`, `Ping`, `KvmMemcheck`, `Tftp`, `Netboot` and `AifLoader` | |

Characters and messages are numbered, so that losing, repeating or reordering
one is visible. Payloads, headers, statistics, logging and parity flags are left
out. Names follow the source; where one function is cut into several actions
each has a name of its own and `PROJECT.json` maps it to its lines.

**Contexts.** The boards are uniprocessors. An interrupt handler or softirq is
atomic to threads; hardware is not atomic to anything. Threads, the event thread
and softirqs interleave wherever the code holds no lock that excludes the other.
Two things are restricted by constants: `PREEMPT` and `LnPREEMPT` say whether a
process can lose the processor to another between two statements that do not
sleep, and `EARLY_OPEN` whether a file is opened before `rc_tty_init` returns. They
are FALSE in the runs: the test and set of `tty_opened[]` and the divisor latch have
no lock, so one opener and correct line settings rest on exactly that.

## 3. Runs

| Run | Result | Shows |
|---|---|---|
| `csme_channel` | passes (0.3 M states) | three scenarios: `giveup` (two threads, acks required, RETRIES 2, everything may be lost), `wrap` (SEQ_MOD 3, five messages, three packets in flight), `faults` (resets, clones that sleep or fail, suppression switched). `InOrder` holds in all until a clone is transmitted after a newer message; `MCQueueServed` (the queue has its timer), `MCAckedWasDelivered` (no stale ack is believed, nothing freed is cloned, no crash) and the refinement `MCPipeSpec` where no reset, failed clone or suppression happens; `MCDrains` under fairness in `giveup` |
| `csme_stall` | violates `QueueServed` | a queued message with suppressed ack is sent without timer, and the messages behind it are never sent |
| `csme_host` | passes (1.8 M states, about 2 minutes) | one thread, one MSP, two targets, two sockets, SEQ_MOD 2: `SockFreedEmpty` and `RxOnce` in all behaviours, `AckedArrived` and `TablesSound` where nothing comes in between a search and its use |
| `uart_read` | passes (0.5 M states) | scenarios `many` (two threads, VMIN changed meanwhile) and `one` (every VMIN/VTIME mode, O_NONBLOCK, signals, faults, poll): `StreamKept`, `MCNothingForgotten` (work queued, readers woken), `ReadReturns` (a read returns no less than it promises), and `FlipDrains` under fairness, a full flip buffer apart |
| `uart_write` | passes (0.2 M states) | two threads write on either port: `MCWritesInOrder`, `MCNoOverrun`, `MCPumpComesBack`, `MCRtsWhileSending`, and `MCWritesReturn` under fairness |
| `uart_hw` | passes (0.8 M states) | a UCC and a DUART port with two processes: `NoUseAfterFree`, `PortsOwned`; line settings by two processes, with five combinations of rate, length, parity and stop bits: `LnAsAsked`; two routing calls on eight UCCs and four TDMs with every clock: `MuxKept`; reception on a UCC in two sessions, three descriptors of two characters, six characters: `MCRxKept`, as long as the handler has not returned from the middle of its loop |
| `ucc_rx_empty` | violates `EmptyMeansAllRead` | after such a return `rx_cur` points at an emptied descriptor and closed ones stay unread |
| `netboot` | passes (0.1 M states) | three starts, one unasked message, every message may be lost: `InitOnceWhenClean`, and `BootsInStep`: the marker is written and the image loaded only after every set-up command was carried out; eight images (sections of less than a write, of one and of several, zero-init, regions not in the file or chained in a circle), sends that fail, writes and answers that are lost, an unasked message: `LoadedRight`, and `MCLoadEnds` under fairness |
| `drivers` | passes (1.7 M states, about 2 minutes) | local bus: `LbFieldsKept`, `LbIrqOwned`; long-light: `LlWatches`; MDIO: `MdAnswers`; AER: `AerOpsKept`, `AerCallsApart`; two processes each |
| `tools` | passes (0.3 M states, about 3 minutes) | traceroute: `TrHopsRight`; ping: `PgEchoRight`, `PgKeepsSending`; TFTP put and get of up to five blocks with numbers modulo 4, on hosts of both byte orders and with a `write` that falls short: `TransferComplete`, `Ends`, the alarm coming in the receive loop or after the block was counted; memory check: `KvVerdictRight`, `KvFinds` |
| `trace_hang` | violates `TrEnds` | an alarm between the test of `gotalarm` and `recvfrom` is lost, and traceroute waits for ever |
| `tftp_twice` | violates `GotPrefix` | an alarm between `write` and `num++` has the block written twice |

The types of a module's state are a conjunct of one of the invariants of its run,
with the constants of the scenario.

**What the passing properties leave out.** Where the code is known not to keep a
promise, the property names the exception instead of the model leaving it out.
Met while modelling, and visible in the models although no run is about them: a
`poll` beside a sleeping reader raises its wake-up level (`rctty_io.c:591`); with a
full flip buffer the DUART's receive interrupt stays asserted
(`serial_xr16m752.c:126`); close discards what the xmit ring holds
(`serial_xr16m752.c:455`); a port opened before `rc_tty_init` returns loses its flag
(`rctty_io.c:761`); the loop that clears a zero-init area writes every piece to its
start (`loadmsp.c:95`); a boot program that is killed, or reads a wrong message, may
set up PLLs and DDR twice (`netboot.c:670`); two searches of the CSME tables may
both find nothing (`af_csmencaps.c:532`, `:1875`); a failed long-light request keeps
the semaphore (`localbus_dev.c:767`); `tftp_get` does not take a block of 508 to 511
bytes, or the first one, for the last (`tftp.c:418`).

The exceptions that are state of the models and part of a property, each recorded at
the step that makes it true:

- `csme_tx` clones and transmits after its unlock. With two senders the timer may
  send the message, its ack and the next message may pass, and only then the first
  clone leaves: the MSP takes it for a new message (`af_csmencaps.c:1287-1302`,
  `overtook` in `InOrder`, `MCAckedWasDelivered`, `CsmePipe`).
- A thread that is preempted between the test and the store of `minimum_to_wake`
  raises the level of a reader that went to sleep meanwhile (`rcNtty.c:113-114`,
  `:199-200`, `late` in `NoLostWakeup`).
- A full flip buffer with characters left in the UART keeps the level interrupt
  asserted, and nothing else has to run (`Storm` in `FlipDrains`).
- The transmit interrupt inside `xr_set_termios_duart` writes a character or a mask
  into the open divisor latch (`serial_xr16m752.c:227`, `:72`; `hit` in `LnAsAsked`).
- Unloading, or a load that fails, leaves the device numbers and the mapping `itmp`;
  a failed `xr_probe_ucc` leaves the DUART ports (`rctty_io.c:709-729`; `PortsOwned`).
  While `rc_tty_exit` runs, a proc file leads to a port already freed
  (`rctty_io.c:798-801`; `stale_proc` in `NoUseAfterFree`).
- The local bus handler writes the CPLD byte 0x16 without the semaphore; a write back
  of that byte under way undoes it (`localbus_dev.c:161-165`; `cleared` in
  `LbFieldsKept`). `irq_init` writes 0x14 to 0x16 inside the semaphore its ioctl took.
- An edge of the long light inside `timer2_tick` after its test, or while the
  interrupt is masked, does not stop the light from being switched off
  (`longlightdetect_dev.c:89-136`; `llInside`).
- A message that the boot program did not ask for, or the answer to a program that
  was killed, is taken for the answer it waits for (`netboot.c:295`; `mixed`). The
  loader believes a write that was lost when such a message comes, skips a section
  whose first write could not be sent, waits for ever for a lost answer, and follows a
  chain of regions that comes back (`loadmsp.c:118`, `:205`; `LoadedRight`, `LoadEnds`).
- A little-endian host acks block 1 as 256, so that `tftp_get` never ends well there
  (`tftp.c:376`); what `write` did not take is missing from a file reported complete
  (`:363`, `:402`; `TransferComplete`). `tftp_twice` is about full blocks on a
  big-endian host as well as about the empty one of its trace.
- `open_pci` never closes what it got from VFIO, so a second device of a group is not
  watched, and clears 16 bytes of the stack beyond `config_region`
  (`kvm_pci_memcheck.c:532-549`, `:586`; `KvVerdictRight`).

`ping` takes an answer with 16 bytes of ICMP for one that holds the time it was sent
(`ping.c:147`), where a `timeval` of an LP64 host needs 24. The model has answers too
short for the guards and complete ones; a host that answers a request sends back all
of it.

**Bounds.** Every bound is a named constant. Rings and buffers have 2 to 4
places, so that they fill, wrap and are met full by every context; each bound on
calls, messages or characters is larger than the ring it goes through. Two
threads are enough for every pair of concurrent calls. `SEQ_MOD` is 16 in the
code; 2 and 3 make the wrap happen with few messages. `MaxGivenUp` stays below
`SEQ_MOD - 1` in `wrap`: beyond it a new message has the number the MSP saw last
and is taken for a repetition, which is the limit of a 4-bit number and not of
the code. In `Tftp` numbers wrap after 4 blocks on a network that keeps the
order; on one that reorders, files are shorter than that, as no packet outlives
65536 blocks. Two retransmissions and two packets per direction (`NetCap`)
let an old packet meet the next blocks. `Radix` 2 makes a number two digits, so that
swapping them changes block 1 as swapping bytes does; `MaxPartial` lets one `write`
fall short.

In `CsmeHost` sequence numbers are taken modulo 2, so that every second message
has the number of an old one; `MaxMsgs` lets an MSP send one more message than
there are numbers, and one message fits the receive buffer, so that it is met
full. In `LocalbusDev` a behaviour mixes the groups of calls of one of `LbMenus`,
which are the groups that share state (the handler and the field calls on the CPLD's
bytes among them); `LB_LL` bounds how often the long-light
handler is registered. `MD_SPAN` 2 makes an address too wide after two, and
`MD_WRITES` 2 lets a write meet an earlier one. `AE_CALLS` 2 are the two calls that
meet. `MUX_CALLS` 2 are a call and the neighbour it might disturb. Traceroute's
destination is `TR_DIST` 2 hops away with `TR_MAX_TTL` 3 and two probes per hop, so
that answers of the last probe, of the last hop and of a router past the limit
meet. Ping's words have `PG_WORD` 8 values, which makes carries of carries happen;
`PG_CLOCK` and `PG_USEC` let an answer cross a second. The memory check has five
words, with a low mapping, a hole and two high mappings (`KV_RAM`, `KV_LOW`,
`KV_HIGH`, `KV_GB`), and three devices, one without a group.

Deadlock is not checked: with bounded inputs
every behaviour ends, and the TFTP client waits for ever when its request is lost.

**Fairness.** Pending timers, enabled interrupts, scheduled tasklets and queued
work are served, an alarm that is due is delivered, and a runnable thread inside a call is scheduled (weak
fairness). The transmitter sends. The loader, ping, traceroute and the memory check
are running processes: their next step is taken, and an alarm they armed comes. Where
the receive interrupt of a full flip buffer is never quiet, no thread is assumed to run.
Nobody has to call anything, the line brings characters at will, no answer and no
ICMP message ever has to come, and the link may lose everything. `trace_hang` is
checked under the same fairness: traceroute is blocked although its alarm came.

## 4. Proofs

A theorem holds for every value of the constants that satisfies the named ASSUMEs of
its module: any number of threads, processes, ports, devices, messages and blocks,
rings and buffers of any size, sequence and block numbers of any modulus. The
assumptions are types and ranges (a ring has at least one place, a device has one
group), and TLC evaluates them on every run. Each proof has the same shape: an inductive invariant, checked by TLC on
the run's instance before it was proved, one lemma or step per action, and below it
one step per part of the invariant.

**CSME channel** (`CsmeChannelProofs`).

- `TypeCorrect`: `Spec => []TypeOK`.
- `QueueAlwaysServed`: if acks are never suppressed, `Spec => []QueueServed`.
  It is not inductive: between the unlock and `add_timer` the queue is filled
  and no timer is pending. The invariant `ServedInv` says that a non-empty queue
  has its timer pending or a thread about to arm it, and that no queued message
  has its ack suppressed, so that `csme_tx_msg_next` always arms the timer.
- `DeliveredInOrder`: `Spec => []InOrder`, for any suppression, resets and clones. The
  invariant `OrderInv` orders all places a message can be in by id: what was delivered,
  then the outgoing link, then the queue, and the clone a thread still has to transmit
  (`ThreadsInOrder`). Retransmissions make the order weak, so it also says that two
  packets with one id are the same packet, and that if a message in flight or in the
  queue is the newest the MSP accepted, the MSP's last number is its number (the
  repetition is recognised). It is kept until a clone is transmitted after a newer
  message (`OrderKept`).
- `OneSenderInOrder`: with one sender that never happens, so the order always holds.
- `ImplementsPipe`: `Spec => PipeSpec` for a steady channel (below) that gives up fewer
  than `SEQ_MOD - 1` messages, by step simulation with the identity mapping. Confirm
  is `csme_rx_ack` taking the head of the queue: that the head is the oldest open
  message is `QueueIsRest`, that the MSP has it is the theorem below.
- `NoStaleAckTaken`: what is dropped from the queue as acked was accepted by the MSP,
  the skb a thread is about to clone after the unlock has not been freed, and nothing
  crashes, if acks are always required, channels are not reset and a clone neither
  sleeps nor fails (`Steady`), while `FewGivenUp`: fewer than `SEQ_MOD - 1`
  messages were given up, and until `overtook`. The bound is tight: with `SEQ_MOD` 3 and two messages given
  up TLC finds a stale ack taken. The invariant quantifies over a history that the
  code does not keep: `AckInv(O, N, A)` says that there are an opcode and an unbounded
  number for every message accepted so far, and a message for every ack under way,
  such that the numbers in packets and acks are these modulo `SEQ_MOD`. An ack that
  could be mistaken needs two messages with the same cut number and only given-up ones
  of their opcode in between, which are at least `SEQ_MOD - 1` (`ComesRound`).
- `ScenariosAlwaysServed` (acks never suppressed in the first scenario),
  `ScenariosNeverMistakeAnAck` and `ScenariosImplementPipe` (`Steady`,
  `MaxGivenUp + 1 < SEQ_MOD`): the properties
  as the run states them, over the scenarios of `MC_CsmeChannel`
  (`CsmeScenarioProofs`). The hypotheses are about the constants of the scenario
  `giveup`, which the cfg chooses; the constants of the others are written in the
  module.

**CSME targets, receive side and sockets** (`CsmeHostProofs`): `SockAlwaysFreedEmpty`,
`RxAlwaysOnce`, `AckedAlwaysArrived`, `TablesAlwaysSound`, all from `HostInv`. Beside
the types it says what a thread holds at each stage of a call (`ThreadsOk`), where a
socket is in its life (`SocksOk`), and that a message that reached the socket is the
last one remembered by the target in which its repetition will be looked up
(`OnceInv`). Two parts hold only while no two calls have raced,
as the properties do: the tables seen by a thread in the middle of a call
(`TablesInv`: what it looked up is still there, what it did not find is still missing)
and the relation between the last number a target has seen and the number its MSP
gives next (`SeqInv`), which is what makes an ack safe.

**UART read path** (`RcttyReadProofs`).

- `StreamAlwaysKept`, `WorkAlwaysScheduled`, `ReadTypeCorrect`, from `RrInv`. The
  stream (`RrOrder`: user space, ring, half being flushed, half being filled, UART,
  joined in that order, are sorted and complete but for what was counted as lost) is
  kept by the copies around the end of the ring only because the ring's indices and
  its count agree (`RrRing`), a half is taken only when the last one is empty
  (`RrHalf`), one thread at a time is inside the loop (`RrMutex`), and the count
  taken in the first critical section of `copy_from_read_buf` is still covered in the
  second (`RrCopy`).
- `NeverALostWakeup`: `NoLostWakeup` when no mode has VTIME and nobody polls
  (`Untimed`). Both set `minimum_to_wake` for everybody, and with them the property is
  false in the code; the run restricts it in the same way. The invariant `RrWakeInv`
  follows each thread from its test of `minimum_to_wake` over the store and arming its
  wait to sleeping; it holds until a store came late.
- `ReadAlwaysReturns`: `Spec => ReadReturns`, an action property, in every mode. The
  invariant `RrPromises` relates what a call has copied, what is left of its request
  and the minimum it took at its start.
- `ScenariosForgetNothing` (`RcttyScenarioProofs`): `MCNothingForgotten` over the
  scenarios of `MC_RcttyRead`, if the scenario `many` is `Untimed`, as in the run.

**UART write path** (`UartTxProofs`), for both ports at once, from `TxInv`; the order of
the bytes from `OrderInv`, which adds to it.

- `HardwareNeverOverrun`: `MCSpec => []MCNoOverrun`. On a UCC the invariant names how
  many descriptors are in use (`InUse`): the pump adds as many as it fills, never more
  than are free, and the engine takes one away.
- `PumpAlwaysComesBack`: `MCSpec => []MCPumpComesBack`. The invariant says more than the
  property: the transmit interrupt of a UCC is enabled exactly while the circular
  buffer holds characters (`UccMask`), and an enabled one has an event or a descriptor
  behind it (`UccEvent`). A thread that goes to sleep leaves the buffer full, and
  whoever empties it schedules the tasklet.
- `RtsAlwaysWhileSending`: RTS is up with the transmit interrupt, not only with
  characters in the FIFO (`DuartRts`).
- `ChunkAlwaysFits`: the locals of each call fit `write_buf` (`WriterFits`), which only
  grows.
- `WritesAlwaysInOrder`: `MCSpec => []MCWritesInOrder`. One thread holds `atomic_write`,
  and its call is the next to return (`TxLock`); calls are never more than the bound
  (`TxTurn`). `Ordered` says of the stream (line, descriptors or FIFO, circular buffer)
  that the calls before it are there in full, as they reported, and that its last
  bytes are the ones the holder has stored so far; so `write_chan` may append, and
  returning needs no look at the ring. That the pump moves bytes without changing the
  stream is shown once for the texts: taking from the circular buffer and storing into
  it around its end (`PendingTake`, `PendingStore`), and the descriptors as a chain of
  texts that begins at the engine's position (`WaitingFills`, `WaitingSends`).
  Those two go by induction over the number of descriptors, through a set of numbers
  closed under successor instead of a predicate (`CountUp`, from the well-foundedness
  of the naturals).

**UART life and line** (`DeviceProofs`): `PortsNeverUsedAfterFree` and `PortsAlwaysOwned`
under `~PREEMPT /\ ~EARLY_OPEN`, `LineAlwaysAsAsked` under `~LnPREEMPT`: the conditions
of section 2, without which the code does not keep these promises. `PtInv` says which
processes hold, own and are attached to a port, and what may still come to a port
(`PtIrqs`, `PtTlet`, `PtWork`) given where its process is: the order of the teardown.
`PtRes` says which resources each stage of loading and unloading holds, so that what is
left at the end, or after a failure, is exactly what the property names. `LnInv`
follows the registers through the window in which DLAB is set, and which half of the
latch the transmit interrupt has written.

**Reception on a UCC** (`DeviceProofs`): `ReceptionAlwaysKept`, `MCSpec => []MCRxKept`,
from `RxInv`. `RxServed` is not inductive because of its condition that the port is
open: the invariant says that a closed descriptor is pending, in work or deferred even
while the port is closed (`RxHandled`). The rest holds while `rx_cur` has always been
written back: the closed descriptors reach from the handler's position to the engine's
(`RxRings`), with all of them or none where the two meet; the characters, taken as
sets, are ordered from the line discipline over flip buffer and descriptors to the one
being filled, and complete (`RxStream`); and each text is sorted (`RxSorted`). The
facts about the ring are proved of distances from the handler, modulo the number of
descriptors. That the flip buffer is never overrun needs the place that `RoomFor`
keeps free for the overrun mark.

**Multiplexing** (`DeviceProofs`): `ClocksAlwaysRouted`, `MuxSpec => []MuxKept`, from
`MuxInv`: for each UCC and TDM direction what its field holds when it was routed, and
that the field of a TDM is zero until then, because `ucc_set_tdm_rxtx_clk` only sets
bits. It rests on facts about the layout: fields of different directions do not
overlap, the grant, TSA and breakpoint bits are in no field, and the bits of a field
tell the codes of the clocks apart.

**netboot and its loader** (`ToolsProofs`): `PllsSetUpOnce` and `BootsAlwaysInStep` from
`NbInv`. Its part for clean behaviours says that at most one command or answer is under
way and that the marker tells whether the PLLs have been set up (`NbPipe`, `NbOnce`).
Its part for behaviours in which no message is mistaken says that commands and answers
take turns (`NbTurns`) and that the commands behind the program's step have been
carried out (`NbBehind`), whatever was lost and however often it started again.
`ImageLoadedRight` is for images whose sections are disjoint and inside the memory
(`LdSane`; the loader does not test it); `LdInv` says what is in memory below the place
the loader has reached, what the write under way will put there (`LdPipe`), that
nothing outside is touched, and that the sections gone through are closed under the
chain of regions (`LdChain`), which may come back.

**Small drivers** (`DeviceProofs`). `LbFieldsAlwaysKept`, `LbIrqAlwaysOwned` from
`LbInv`: the semaphore's count against who is inside (`LbCounted`, `LbSemHeld`), the freshness of what a read-modify-write has read, but for the handler's byte
(`LbReadFresh`, `LbRegFresh`), and who
registered the interrupt (`LbIrqAlone`, `LbIrqTold`, `LbTletOwned`). `LlAlwaysWatches`
from `LlInv`: the interrupt is unmasked exactly while a suspicion is being confirmed,
an edge that came since is still waiting for its handler, and one that the handler
took inside a tick is remembered until that tick ends. `MdAlwaysAnswers`, `AerOpsAlwaysKept`, `AerCallsStayApart`
from `MdInv` (while calls have not met, the controller has caught up with the last
access) and `AeInv` (operations, masks and the shared register block, which is filled
after the unlock).

**Programs of the host** (`ToolsProofs`).

- `HopsAlwaysRight`, from `TrInv`: the sequence number tells TTL and probe
  (`TrCounts`), so an answer that has the number of the probe in hand is an answer to
  its TTL (`TrMessages`).
- `EchoAlwaysRight`, from `PgInv`: a request has five words besides its checksum, whose
  sum is at most five times the largest word; after two folds it is a word, and
  differs from the sum by a multiple of `PG_WORD - 1` (`PgFolds`). A message under
  way holds the time it was sent, and `tv_sub` of two times is their difference
  (`PgDifference`).
- `VerdictAlwaysRight`, from `KvInv`: which calls have succeeded at each place of
  `main` and, inside `open_pci`, how far the mapping of the device in hand has come
  (`KvAtHand`), so that a device opened to the end is watched (`KvCovers`); one
  device of a group at most has a descriptor (`KvOwned`); and a word is written only through
  a mapping of a group that was given (`KvHonest`).
- `TransferAlwaysComplete`: `TransferComplete` if no alarm comes between `write` and
  `num++` (`"written" \notin AlarmPoints`); with it the property is false, as
  `tftp_twice` shows. On a little-endian host the server stays at block 1, because every
  ack under way says `Radix` (`Acked`). The invariant `TfInv` describes a put and a get alike as a sender
  at most one block ahead of a receiver. Where the order is kept, the data and the acks
  under way are about two neighbouring blocks and sorted, so two neighbours having
  different numbers is enough, however often the numbers wrap. Where it is not, nothing
  under way is newer than the sender's block, and no number has wrapped. For a get it
  says that the client may still be acking the block before the last one written,
  after an alarm between `num++` and `alarm(0)`.

**Only model-checked.** All liveness properties (`MCDrains`, `FlipDrains`,
`MCWritesReturn`, `MCLoadEnds`, `PgKeepsSending`, `Ends`, `KvFinds`): liveness under
fairness is out of reach of the prover. Every safety invariant and every action
property that a passing run checks is stated by a theorem.

## 5. Plan

Modelled: the channel, the rest of the CSME driver, the UART driver from the module's
life to both ports' rings, netboot and its loader, the local bus, long-light, MDIO and
AER drivers, TFTP, traceroute, ping and the memory check. Proved: section 4.

Left: the liveness properties, which stay with TLC.

## 6. Not modelled

The components with status `not_modelled` in `PROJECT.json`: exercises of kernel and
library interfaces without state of their own, the interactive test programs, the
I2C mutex device (two ioctls around one kernel mutex), vendored code, and start-up
code of an ARM board. Of the KVM memory check `run_vm`, which nothing calls,
and `vfio_get_iommu_info`, which only prints; of the UCC library the plain register setup. Within the
modelled components: multiprocessor behaviour (`del_timer_sync` under the channel
lock), statistics, modem status, what proc files print, name lookup and output of
the programs, and the content of messages.
