# A verification development for Firmverse

Firmverse emulates PHY6252 Bluetooth chips closely enough to run unmodified
vendor firmware: a Cortex-M core executes the firmware, and whenever the CPU
fetches an address inside the mask ROM, Rust code answers the ROM function
instead (the operating system abstraction layer OSAL, the Bluetooth host
controller interface HCI, the link layer, the drivers). Around the emulated chip
there are a line protocol for the host, a flash programmer for real and emulated
chips, simulations of several chips, and a small PLC.

This directory holds TLA+ models of the parts of that program whose correctness
depends on long or unlucky sequences of steps, model-checking runs for TLC, and
theorems that TLAPS has checked. Paths in this text are relative to the root of
the repository.

Contents: [inventory](#1-inventory), [modules](#2-modules-and-the-code-they-model),
[runs](#3-the-runs), [bounds](#4-bounds-and-why-they-are-enough),
[fairness](#5-fairness), [proofs](#6-what-is-proved),
[disagreements between code and documents](#7-where-the-code-does-not-do-what-is-said),
[what is not modelled](#8-what-is-only-model-checked-and-what-is-not-modelled),
[plan](#9-plan).

To repeat the checks, with the community modules and the TLAPS library on the
search path:

    tlc -config MCOsalKernel.cfg MCOsalKernel      (likewise for the other .cfg files)
    tlapm OsalKernel_proofs.tla                    (likewise the other *_proofs modules)

## 1. Inventory

### How the parts hang together

    host: line protocol, TUI, ble_host, browser          flash.rs (real or harness UART)
            |  Command                                            | ROM commands
            v                                                     v
    Chip::apply ---> mailbox words in guest RAM <--- bus.rs   HarnessTransport / Chip ROM monitor
            |              ^        |
    Chip::tick             |        | polled in the idle loop
      one millisecond      |        v
      of CPU steps   ble_rom::handle before every CPU step
            |              |-- osal_power, osal_queue, cbtimer_rom, bm_rom
            |              |-- hci_security, hci_caps, hci_task, hci_extra, hci_rom
            v              '-- ll_crypto, ll_rom
       zmu CPU core <--> HostOsal (osal.rs): scheduler, messages, timers, heap, flash calls
                                                   |
                                             flash_state.rs: snapshot file of the NOR

Everything that concerns one chip happens on one host thread: the chip redirects
the CPU as long as a handler answers (at most 32 hops), then lets it execute one
instruction. So between the host's code and the guest's code there are no data
races. What interleaves is the guest code itself (tasks, interrupt handlers,
callbacks), the host's commands between ticks, the chips of one `World` that take
turns on one thread, the resets of a chip, and the life and death of the
emulator's process around files.

### Components

| Component | State | Operations | What is hard | What makes it correct |
|---|---|---|---|---|
| **OSAL kernel** `osal.rs` | `started`, `running`, event words in guest RAM, queue `messages`, `allocs` | start, dispatch, finish, set/clear event, allocate/send/receive/free message | cooperative interleaving: events arrive while the handler they belong to runs and hands back leftovers; one queue for all tasks | no message without its wake-up; messages conserved; per-task FIFO; no flag lost; delivery |
| **Software timers** `osal.rs` | list of timers, 32-bit wrapping time | start, reload, stop, expire | wrap of the clock, late service, restart of a running timer | fires exactly when due; no drift; one timer per task and event |
| **Heap** `osal.rs` | bump pointer, allocated and free blocks | allocate (with and without message header), free, reset | splitting without joining, saturating sizes | disjoint, inside the arena, as large as asked, nothing leaks |
| **Buffers** `bm_rom.rs` | table from moved pointers to blocks | allocate, move the header, free | places that are reused, headers that move twice, a table that survives resets | a buffer is freed as its own block |
| **Message queues** `osal_queue.rs` | links in guest memory | enqueue, enqueue_max, dequeue, extract, push | stale links in recycled blocks, taking from the middle | plain FIFO queues |
| **Callback timers** `cbtimer_rom.rs` | thread-local table of 16 timers | start, stop, update, dispatch, return | wrap, starvation, the table is shared by chips and survives resets | never early, never starved, chips independent |
| **Host link** `mailbox.rs`, `chip.rs`, `bootrom.rs`, `hci_rom.rs`, `hci_task.rs` | mailbox words, shadows of what was polled, queue of packets, mode of the CPU or the ROM | CONNECT, DISCONNECT, CCCD, WRITE, tick, sleep, system reset, ROM monitor, polls | single-slot channels sampled at different rates; counters set back by restarts; shadows that go stale; a full guest heap | packets in order, newest frame shown, guest knows its link and its subscriber |
| **HCI commands** `hci_rom.rs`, `hci_extra.rs`, `hci_security.rs`, `hci_caps.rs`, `hci_task.rs` | three continuation engines: saved registers, stage, words of the event | a command, or a change of the mailbox, becomes a message to a task in stages between which guest code runs | refused allocations at any stage, the return through a trap, the caller's registers, two events or two blocks for one call | one answer for a call, caller restored, blocks kept, writes addressed, calls return |
| **Link layer ROM** `ll_rom.rs`, `ll_crypto.rs` | control queues keyed by guest pointer | status, resets, queues, AES-CCM | shared by chips, cleared by the reset of any of them | status as the mailbox has it; AES vectors |
| **HEX files** `programmer.rs`, `hex.rs` | none: functions of a file | read, coalesce, lay out, read back, write | two readers; overlaps, bases, 64 KiB borders; parts that nothing keeps apart | both readers agree; parts apart; a verified file comes back |
| **Flash programming** `programmer.rs`, `flash.rs`, `bin/phy6252-flash.rs` | NOR, parts, the range erased last; baud rates of both ends, mode of the ROM, report | enter the ROM, agree on a rate, erase, program, check, reset, break off | parts that share sectors, padding, 64 KiB erases; lost and late words; sessions that die anywhere | success means that the image reads back; nothing else is touched; the next session gets in |
| **Persistent NOR** `flash_state.rs` and the flash calls of `osal.rs`, `bus.rs`, `dma_engine.rs` | snapshot file, temporary file, baseline fingerprint | load, program, erase, write temporary file, rename | kills between any two steps, unreadable files, several HEX files with one snapshot | a restart finds what was stored, and nobody else's data |
| **World and simulation** `world.rs`, `sim.rs` | poses, clock, memory of links; channel of lines, state of each chip | tell every chip what it hears, drain lines, tick all chips, end | memory by position and address; virtual advertisers that move; resets that forget what was told; broadcast errors; chips that stop | a chip is told who its neighbours are; runs end |
| **Run of one chip** `emu.rs` | channel of commands, state of the chip, its number of instructions | drain commands, tick, end | no count of ticks; a chip that sleeps counts no instructions | the run ends |
| **Browser lab** `web_runtime.rs` | lab, nodes, links that are shown | new, reset, add, move, remove, set world, tick | positions that move up, a clock that goes on | shown links are heard links |
| **Bluetooth bridge** `ble_host.rs`, `cmd.rs` | two child processes, lines in flight, `connected` | lines of helper, emulator and user | two copies of the link | same link on both sides when quiet |
| **Saturn compiler** `saturn_compiler.rs`, inspection in `saturn.rs` | none: functions of an IR or a program | check, write, inspect | everything is found by counting; the C runtime looks at no bound | what is accepted can be walked; what was named is found |
| **Saturn PLC** `saturn.rs`, `saturn_bridge.c` | the one C runtime, its lock and NVRAM, a controller per thread | load, step, inputs, setpoints, snapshot, restore, drop | one runtime for all, loads that fail, panics | own program, own inputs; the lock comes back |
| **Bus, registers, discovery, DMA, pins** | register words | reads and writes | volume rather than protocol | register semantics |
| **TUI, probe, boards, SoC registry, packaging, firmware** | none or tables | drawing, lookup, examples | | |

`PROJECT.json` lists every component with its status, and every hazard that a
test would hardly reach, at its line, with the properties that watch it or the
reason why none does.

## 2. Modules and the code they model

Every component is one module with its constants and their assumptions, its
variables, one action per operation, and its properties at the end. An `MC...`
module and a `.cfg` give the constants values; some of them put components side
by side that share no state, and a variable says which of them a behaviour is
about. A few definitions are called *faulty variants*: they are the code with a
plausible mistake in it and are used nowhere; replacing the true definition by its
faulty variant makes TLC report the property it stands for, which shows that the
property can fail.

The theorems are in seven modules, each about the components of one part of the
system: `OsalKernel_proofs`, `OsalTimers_proofs`, `OsalServices_proofs` (heap,
buffers, message queues, callback timers), `Flash_proofs` (`FlashState`,
`FlashSession`, `Flashing`, `HexFiles`), `HostLink_proofs`, `HciController_proofs`, and
`Runtime_proofs` (`RadioWorld`, `BrowserLab`, `Simulation`, `Bridge`, `SaturnPlc`,
`SaturnCompiler`).
`ProofLemmas` has the facts about numbers, sequences and recursion that several of
them cite.
`Selection` defines `Selected(list, those)`, the entries of a list that are in a
set, as a recursive function: it is what `SelectSeq` does, but it takes a set where
`SelectSeq` takes an operator, which the provers cannot instantiate.

### `OsalKernel`, `TaskMailboxes`, `OsalKernel_proofs`

The state is that of `HostOsal`: `started`, `running`, `messages`, `allocs`, and
the words in guest RAM it works on: `events` (the event table) and `dest` (the
addressee in a message header). Two variables stand for the guest: `inHand`, the
flags that the running handler got in R1 and still owes, and `held`, the messages
that guest code owns.

| Action | Code |
|---|---|
| `Start`, `IdleDispatch`, `Finish(left)` | `osal_start_system`, the idle branch of `handle`, `finish`; each ends in `dispatch` |
| `Dispatch(word)` | first task with a raised flag; clears its word, sets `running` |
| `SetEvent`, `ClearEvent` | `osal_set_event`, `osal_clear_event` |
| `MsgAlloc`, `MsgSend`, `MsgReceive`, `MsgDealloc` | the four message calls; `Take` removes the entry from the shared queue and raises `SYS_EVENT_MSG` again if another one waits |

The guest is as free as the OSAL contract lets it be: any call, in any order, from
any place. The contract is written at the head of the module and is what the
kernel cannot check by itself: a task sends and frees what it owns, receives its
own mail, and does not swallow `SYS_EVENT_MSG` without receiving once.

`TaskMailboxes` is the abstract specification: a set of waiting flags and a FIFO
per task, with nothing said about event words, one common queue, or how mail is
announced. The refinement mapping takes `SYS_EVENT_MSG` out of the event words and
splits the queue by addressee.

### `OsalTimers`, `TimerCountdown`, `OsalTimers_proofs`

`Handle(ms)` is any number of milliseconds between two entries of `handle`, with
`expire` at the end, as `handle` runs it. `SetTimer`, `SetTimerNow`, `StopTimer`
are the timer calls; times are numbers modulo `MsRange`. `TimerCountdown` is
what timers mean without a wrapping clock: each has so many milliseconds left.
The mapping computes what is left from the wrapped deadline.

### `OsalHeap`

The bump pointer, the allocated blocks and the free list of `alloc_block` and
`free_block`, with the width of the address space as a constant, so that the
saturating arithmetic of `align4` and of `len + 8` is really computed. `need`
records how many bytes the caller of an allocation counts on. The order of the
free list is left open: any block that fits may be split.

### `MsgQueue`, `MessageQueues`

Links in guest memory and the six calls of `osal_queue.rs`, including what they do
to the link of a message that is refused. Messages outside the queues may have
their header overwritten at any time (`Recycle`). `MessageQueues` has sequences
instead of links.

### `BufferViews`

The buffers of the link layer live on the heap, so the module extends `OsalHeap`
and its steps are steps of the heap (`BuffersUseTheHeap`). `views` is
`BASE_BY_VIEW`: `AdjustHeader` (which is also `adjust_tail` and its kin) removes
the old pointer and enters the new one, `BmFree` looks the block up and forgets
every pointer that leads to it. `buffers` is what the firmware holds. A reset
leaves the table as it is; after one that leaves entries the model stops, because
then the table says nothing about the blocks of the next boot.

### `CbTimers`

The thread-local vector `TIMERS` and, per chip, the clock, what the CPU executes,
the callback that runs, and a counter of boots. `DispatchDue` is what happens when
the CPU fetches the idle loop; `Return` is the continuation trap, which is found
by a constant in R3 that the callee may have overwritten (then the CPU is lost).
`owner` and `wait` in a timer are history.

### `Flashing`

`Parts` computes the layout of `build_flash_image`: header, flash-window segments
and SRAM segments below or behind them. `Begin`, `SkipErased`, `EraseBig`,
`EraseSector`, `SendChunk`, `NextPart`, `Finish` are the loop of `Flasher::flash`
through `write_block`, `erase_range` and `send_chunk`, one ROM command a step.
Between any two, `Interrupt` and `PowerCycle` may happen; `Handoff` and `EnterRom`
bring the chip back into its ROM. A NOR cell holds the set of those who have
programmed it since its last erase, so writing over data that was not erased shows
up as a mixture. `Undisturbed` is the condition on an image under which the erases
for one part spare the others; no code tests it.

### `HexFiles`

A file is a sequence of lines over a small address space: data records, bases,
start and end lines, comments, and lines that are no records or have a wrong
checksum. `Read` is the loop of `parse_intel_hex`, with one step `ReadLine` for a
line; `Coalesce` is its stable sort (`InOrder`, which inserts each byte behind those
for the same address) and the loop that joins bytes to segments (`Join`). `ImageOf`
and `Builds` are `build_flash_image`, whose layout is that of `Flashing!Parts`;
`Verified` and `ReadBack` are what the tool does after flashing, `Encode` is
`encode_intel_hex`, with one step `EncodePiece` for a record. `Parse` and `Memory` are
the other reader, that of the emulator in `hex.rs`. Each loop is a recursive function
of the number of its rounds, so that it can be proved about.

### `FlashSession`

One session after the other on the serial line. `host.at` is the place in
`flash.rs` where the tool is: the probe, the break and the token of the handoff
with their retries, `UXTDWU`, revision, unlock, the change of the baud rate and its
check, the erase of the chip and its polls, `spifs`, and for each part an erase,
`cpbin`, payload and echo of the checksum; then the reset. `chip` is the state
machine of `HarnessTransport`. `Exchange` is one word and its answer: each may be
lost, the answer may come after the tool has stopped waiting (then it is in `rx`
and is read in place of the next), a payload may change. `Abort` and `CutPower`
come anywhere. `found` is history: the chip as the session found it.

### `HostLink`, `HostLink_proofs`

The mailbox (`status`, `rx`, `tx`), the chip's side of it (`pending`, `lastTx`),
the polled shadows of `hci_rom.rs`, the mode of the CPU or of the ROM, and whose
turn it is: the host's commands are applied between ticks, a tick gives the chip a
burst. The host's actions are the arms of `Chip::apply` that touch the link and
the two things that happen on the UART of the ROM; the chip's are the parts of a
tick; the guest's are HCI calls; `PollRadio`, `PollCccd`, `PollRx` are the polls
in the idle loop in their order, each with a heap that may have no room. An
injected event is one step here; its stages are the subject of `HciController`.

### `HciController`, `HciController_proofs`

A command of the guest, or a change of the mailbox that the idle loop sees,
becomes a message to a task. The Rust code cannot call the guest's allocator, so
it points the CPU at it with a return address that traps, and goes on when the CPU
gets there. `cpu` has the registers that matter; `resume[e]` and `pending` are the
shadow words of the three engines (`hci_rom`, `hci_extra` with `hci_caps` and
`hci_task`, `hci_security`). Commands that differ in their bytes only are one
action over a set of names. `OsalAlloc` may refuse, `OsalSend` gives the block to a
task, and each `finish_...` of the code is an action. The search for the
attributes of a write (`Resolve`, `FindCccdAfter`) runs over a table of handles,
UUIDs and owners. `call` is history: the events a call is owed and was sent.

### `RadioWorld`, `BrowserLab`, `Simulation`

`RadioWorld` is `World::radio`: which transmitters a chip hears, what it is told
(`SCAN` on the beat of a source, `GONE` once) and the memory `last_link`, which is
keyed by the position of the listener and the address of the source. Distances
are abstracted to which places hear each other. `BrowserLab` adds and removes
chips while the world runs and keeps the links that the page draws; `Simulation`
is the loop of `sim.rs`: lines from a thread of its own, the air, the chips, and the
reasons to end.

A packet that `Chip::apply` was given waits in `pending_rx`, from where the ticks hand
it on, one at a time. `told[id]` is what all packets since the last start of the chip
add up to, those that wait included; that the firmware gets them in their order is
the business of `HostLink`. A system reset and a restart (`StartAnew`) clear the queue,
and the firmware that boots knows nothing: `told[id]` becomes empty, and `lost[id]`
keeps what was in it until the world says it again, at the next beat or by a `GONE`.
`steady` says that these histories mean something: it ends with a chip that is removed, a
world that is replaced, and a `SCAN` or `GONE` line that the user types.

### `SingleRun`

The loop of `emu.rs`: `DrainCommand` and `AllDrained` are `drain_cmds`, `TickChip` is
`Chip::tick` with what the loop makes of it. It has no world and, unlike `sim.rs`, no
count of ticks. What the chip does in a burst is left open (`Execute`): it sleeps, resets
into the ROM, stops, or uses the burst up, and `insn` counts what it executed. While it
sleeps or is in the monitor nothing is executed; only a pin that rises and a restart
from the monitor, both commands of a live run, change that.

### `Bridge`

Two children and the user, whose lines are in flight in one channel per source,
and the pipes into the children. `FromHelper`, `FromEmulator`, `FromUser`,
`HelperGone` and `EmulatorGone` are the arms of `bridge_loop`. The helper is
external and follows what `bluez.py` prints: it reports a connection before the
first write only, and an end of the link whenever a subscription ends.

### `SaturnCompiler`, `SaturnPlc`

A program is a front whose length is computed in bytes (types, references,
parameters, options) and a rest in which every byte has a place: texts with their
zeros, padding, screens, hints. `Buildable`, `Texts`, `Rest` and `Written` are
`build_schema`, `Inspect` is `inspect_fbdbin`, and `Walk` is how the C runtime finds
its way: by counting zeros and lengths, with no bound. `Damage` is any other tool
that changes a program. What the code does in a loop over the elements, texts or
screens is a recursive function of how many of them were done. `Letters` are what
texts are made of, and a screen record is a byte that stands for its header and its
elements (of `Items`), followed by bytes that only count. An element has the fields that
the inspection looks at: visibility, the width and ends of a line, the value and the
letters of a text as far as its record goes, the value and scale of a gauge. A program
brings its own number of options, and those it lacks count as zero (`Option`); the
compiler writes ten. `Buildable` is every refusal of `build_schema` before it writes:
no elements or more than 65534, an empty id or one used twice, inputs, parameters and
captions, and counts or a size beyond 31 bits. That the index of a hint is a byte is an
assumption on `Hints`, as its type in the code. `SaturnPlc` has the controllers of several threads over
the one runtime: the lock that a controller keeps from its load to its drop, the
NVRAM, snapshots with their fingerprint (`Fits` is `fv_fbd_restore` of
`saturn_state.inc`, `Unloaded` what `fv_fbd_unload` of `saturn_bridge.c` leaves), and
panics, which poison the lock.

### `FlashState`

A NOR image is a set of programmed cells. `Load` is `ensure_loaded`; `Program` and
`Erase` are the guest's flash calls and DMA; `OpenTmp`, `FillTmp`, `Rename` are the
steps of `persist_image`; `Kill`, `LoadFails` and `TmpFails` are what can go wrong.
`due[f]` is the history variable that says which images HEX file `f` may find.

### How the modules fit together

The kernel's messages live in blocks of the heap: `OsalKernel` takes from
`OsalHeap` that an address that is allocated is not allocated again (proved there
as `NoSharedByte`). `BufferViews` is a client of the heap and is proved to be one.
Timers raise events in the kernel: `OsalTimers!Handle` does what
`OsalKernel!SetEvent` does, and `TakeEvents` there is `Dispatch` here. The events
that `HostLink` injects in one step are the staged ones of `HciController`, whose
blocks come from the heap and reach a task through the kernel. `HexFiles` extends
`Flashing` for the layout; `FlashSession` has one erase and one chunk where
`Flashing` has their addresses. `Flashing` and `HostLink` meet in the ROM monitor.
`BrowserLab` and `Simulation` extend `RadioWorld`; `SingleRun` has no air.

## 3. The runs

| Run | Checks | Shows |
|---|---|---|
| `osal_kernel` | `NoStrandedMessage`, `MessagesConserved`, `ImplementsMailboxes`, `MessagesDelivered` | A queued message always has its wake-up flag with its addressee; an allocated message has one owner or one place in the queue; tasks see plain mailboxes; a message is taken once the higher priorities fall silent |
| `osal_services` | `BlocksApart`, `RequestHonoured`, `ArenaCovered`, `FreesOwnBlock`; `ListsSound`, `ImplementsQueues`; `NeverEarly`, `DueTimerIsCalled`; `DeadlinesAhead`, `ImplementsCountdown` | No byte of the heap has two owners, none is lost, also for sizes that saturate; a moved buffer is freed as itself; linked lists with arbitrary stale links are queues; callbacks of one chip over wraps and a reset; wrapping deadlines are a countdown: not early, not late, no drift |
| `flash` | `FlashedImageReadsBack`, `OthersUntouched`; `ReadersAgree`, `LayoutApart`, `VerifiedBoots`; `EntryRecovers`, `ReportedIsStored`; `OwnNorOnly`, `NorKept` | Two overlapping images flashed over each other, broken off anywhere; every file of four lines through both readers; sessions on a line that loses and delays words; a snapshot that survives any kill and belongs to its HEX file |
| `host_link` | `WritesInOrder`, `NewestFrameShown`, `LinkTold` | Packets in order and never twice, newest frame printed, link known |
| `bluetooth` | `AnsweredOnce`, `WritesAddressed`, `CallerRestored`, `NothingLost`, `CallsReturn` | Every kind of command and every event of a link with a heap that may refuse each allocation |
| `lab` | `ToldWhatIsHeard`, `ShownIsHeard`, `HeardIsShown`; `LinkFollows`; `RunsEnd` | Chips that come, move, reset and go; the bridge with all lines in flight; runs of several chips and of one on the command line |
| `saturn` | `AcceptedIsWalkable`, `CompiledIsFound`; `OwnRuntime`, `LockReturns` | Every program compiled of small IRs and its changed copies; controllers of two threads |
| `cb_timers_shared` | `CallsItsOwnCallbacks` violated | see section 7 |
| `flashing_shared` | `FlashedImageReadsBack` violated | see section 7 |
| `host_link_subscribe` | `CccdTold` violated | see section 7 |
| `flash_state_sram` | `OwnNorOnly` violated | see section 7 |
| `single_once` | `OnceEnds` violated | see section 7 |

Each module also states the types of its variables (`TypeOK` and the like). Those
of the kernel, the timers, the heap, the host link and the HCI are theorems, and
where another module has a theorem its types are a part of the inductive invariant;
the others hold for the instances above (for the parts of a composed run: in their
own part) and are kept out of the runs, which are about behaviour.

`DeadlinesAhead` says that nothing is overdue after `expire`; the comment at each
property names the code it is about. Some properties exclude a case on purpose,
because the code does not handle it; each is listed as a hazard:

* `LinkTold`: a link event for which the guest's heap had no room (the code never
  repeats it), and a link that went and came back before the guest looked.
* `NorKept` speaks of starts that can read the snapshot: a guest whose snapshot
  could not be read runs from the HEX file, and its next flash call replaces it.
* `FreesOwnBlock`: the boot after a reset that left entries in the table.
* `NothingLost`: the message of a packet whose second block is refused (`hci_rom.rs:602`
  does not free it), in the one step in which the allocator has answered null there; and
  events for a layer that has not registered.
* `LayoutApart`: files with data in the window below the end of the boot header, SRAM
  segments that need padding, and a file without data in the window whose SRAM
  segments alone do not fit, none of which the builder checks.
* `VerifiedBoots`: files of more than 128 segments, which the builder accepts and the
  reader of the boot header refuses.
* `EntryRecovers` names the chips that a session through the application cannot
  enter: one whose application does not listen, one whose ROM works at another
  rate, and one in the middle of a chunk.
* `ReportedIsStored`: a payload that was changed on the line, since the tool sends
  the ROM's checksum back without a look at it; and the start of the application,
  which is not acknowledged, on a line with faults.
* `LinkFollows`: a user who types `CONNECT` or `DISCONNECT` and a firmware that ends
  the link behind the bridge's back.
* `ToldWhatIsHeard`: transmitters that share an address; what a reset or a restart has
  made a chip forget, until the next beat of the transmitter; and everything after a
  chip was removed, the world replaced, or a `SCAN` or `GONE` typed by hand.
  `HeardIsShown`: transmitters that share an address.
* `RunsEnd`: a run of one chip that is not live while its chip sleeps or is in the
  monitor of the ROM (section 7).
* `AcceptedIsWalkable`: that a text which formats a number has one. The inspection lets
  a text ask for a number and refer to no element (65535); what is shown for it is the
  C runtime's choice.
* `CompiledIsFound`: texts with a zero byte inside, and screens that the inspection
  refuses or that have another length than they say.

## 4. Bounds, and why they are enough

* **osal_kernel**: two tasks of different priority, one application flag, three
  messages. The hazards need two messages for one task with one for the other in
  between, a flag raised while its task runs, and a leftover; all fit.
* **osal_services**. *Heap*: addresses of six bits, an unaligned arena of 23 bytes,
  five aligned words; requests that need one and two words, zero, and requests that
  saturate with and without the header. Every split and every order of frees
  occurs, and headers move by an odd number of bytes in both directions. The
  theorems cover all other sizes. *Queues*: four messages, two queues, one of them
  limited to two, and a walk bound of two, so that the refusal of a list that is
  too long occurs. *Callbacks*: two timers, so that each can be starved by the
  other, a clock of six values, timeouts up to two, one reset. No due timer is left
  waiting for half the clock, unless its CPU is lost. *Software timers*: eight clock
  values, timeouts up to half the clock, steps of up to three milliseconds, two
  tasks with a timer each. The clock wraps within a few steps, a period of one
  passes three times between two services. Timeouts beyond half the clock (24.8
  days) are outside: the code counts them as reached at once.
* **flash**. *Flashing*: addresses are divided by 512, so a sector has eight cells;
  the ratio of chunk to sector is kept, that of a 64 KiB erase to a sector is four
  instead of sixteen. The images are chosen for what the layout distinguishes:
  SRAM parts that fit below the flash window and parts that do not, a shared
  sector, a blank chunk, a part large enough for the big erase with one sector
  more, a padded last chunk. *Files*: four lines of records that overlap, set an
  address twice and cross the border of a base (scaled from 2^16 to 16), with three
  bases and every kind of other line; four lines hold two bases with a record
  each. *Sessions*: two parts, two faults in a session, two tries of each retry;
  the number of sessions is not bounded, so each state that a session can leave
  behind is found by another. *Snapshots*: three cells in two sectors, two HEX
  files; any number of starts, kills and flash calls, as no counter is involved.
* **host_link**: three packets (one in the slot, one behind it, one after a
  restart) and two notifications.
* **bluetooth**: two blocks, as the longest call takes two; one command of each
  kind, since those of a kind take the same path; two attribute tables, one that a
  UART service has and one with a value that cannot be written and a subscription
  that belongs to another characteristic. The number of calls is not bounded.
* **lab**: three chips, two of them with the same address, at two places; a virtual
  advertiser that leaves and comes back; beats of two and three milliseconds on a
  clock that wraps after five. Two lines typed, so that `quit` is behind another
  one, and runs of three ticks. Runs start with one chip or with two that hear each
  other, each of which may reset and be restarted in any millisecond. The run of one
  chip: a limit of three instructions, bursts of two, so that a burst ends before the
  limit and at it, and two commands. Four events of a central: two subscriptions and
  writes with an end of the link in between.
* **saturn**: IRs of three elements out of a watchpoint, a setpoint, a constant, a
  block of two inputs, an id used twice, a caption that is missing or holds a zero,
  an empty id and a type that does not exist; one hint; one screen out of sixteen:
  without bytes, without elements, two that lie about their length, three that are in
  order if the elements they refer to are there (lines, a gauge, texts with one number and
  with none), and nine with one fault each, which are the refusals of the inspection
  (references of a gauge and of a text that lead out, a scale of zero, a line too wide
  or not on the picture, two numbers, a text without an end or too long, 257 elements);
  one changed place, with or without a size and a checksum that fit again, and programs
  with 0, 5, 6 and 11 options. Two threads, three programs, one of which does not start
  and could not be saved.

## 5. Fairness

* `osal_kernel` (`Fairness`): weak fairness of `Start`, `IdleDispatch` and of
  `Finish`: the chip steps the CPU forever and redirects it at every fetch, and a
  cooperative handler returns. Strong fairness of `MsgReceive` with
  `SYS_EVENT_MSG` in hand: a handler that is given the flag again and again does
  not return it unread forever. Strong, because other handlers run in between. It
  is the obligation of the firmware under the OSAL contract, and nothing is
  promised to a firmware that ignores it. Scheduling is by priority, so delivery
  is conditional on higher-priority tasks falling silent for good.
* `osal_services`: weak fairness of `DispatchDue` per chip: a CPU in the idle loop
  with a due callback does not stop there. That the CPU comes back to the idle loop
  at all depends on guest code and is a premise of `DueTimerIsCalled`, not an
  assumption.
* `bluetooth` (`FairSpec`): weak fairness of `Stage`: the chip executes a ROM
  function whenever the CPU has arrived at its address, before anything else runs
  on that chip. Nothing is assumed of the guest.
* `lab`: weak fairness of `Loop` and of `SingleLoop`: the loop of a run waits for nothing
  but a millisecond. Lines need not be typed. `single_once` has the same fairness.
* `saturn` (`PlcFairness`): weak fairness, per thread, of what `load` does under the
  lock and of dropping the controller, as `run_plc` does after its last step.
  Nothing is assumed about the order in which threads get the lock, and `LockReturns`
  does not say that a thread gets it.

The other runs check safety only; a host that never sends a command, a session
that is never repeated and a chip that sleeps are legal.

## 6. What is proved

All theorems are of the form `Spec => ...`, for every value of the constants that
satisfies the assumptions of the module. Each rests on an inductive invariant,
which TLC checked on the instance of the run before it was proved. What the
assumptions leave out:

| Module | Assumed of its constants |
|---|---|
| `OsalKernel` | from 1 to 64 tasks; `SYS_EVENT_MSG` is not an application flag |
| `OsalTimers`, `CbTimers` | a clock of even size, timeouts up to half of it; time is looked at before half the clock has passed |
| `OsalHeap`, `BufferViews` | a word of whole units of four, an arena inside the address space, moves by whole numbers |
| `MsgQueue` | finitely many messages, a null that is none of them, stale links that lead to messages or to null |
| `HciController` | a null that is no block, blocks that are no status; attribute tables that a firmware may register (`Registrable`: handles that ascend, a descriptor behind the value it belongs to) |
| `FlashState` | an address `Beyond` the cells, sectors made of cells, a NOR image for each HEX file |
| `FlashSession` | rates, parts, tries and polls that are not zero, and a ROM that starts at another rate than the one the tool uses after the handoff (9600 and 115200) |
| `RadioWorld`, `BrowserLab` | beats and a clock of at least one millisecond, an address for every chip and advertiser, an identity kept free for "no node" |
| `Flashing` | a sector of whole alignment units, a NOR of whole blocks of `er64k`, images with at least one segment, each of them with data |
| `HexFiles` | an SRAM above the flash window, a boot header that ends before the store of the SRAM segments (the code keeps it there for up to 752 of them), lines whose addresses are whole numbers |
| `SaturnCompiler` | the letters that the model names are letters, texts are made of letters and screens of bytes; the counts of an IR are natural numbers, the index of a hint is a byte |
| `SaturnPlc` | programs that start, that are accepted and that can be saved are programs; inputs are whole numbers and 0 is one |

Five theorems have a hypothesis of their own. `Durable` and `OnlyOwnNor` assume
`Distinct` (HEX files differ in their NOR images), `CallbacksNeverEarly` assumes
`Alone` (one chip on the host thread), `ReadsBackTheorem` assumes `AllUndisturbed`
(the parts of each image stay off each other); the runs `flash_state_sram`,
`cb_timers_shared` and `flashing_shared` show what happens without them.
`SparedTheorem` assumes `AllFit` (the sectors of each image are in the NOR), because
the ROM wraps addresses at its end. Both images of the run `flash` fulfil
`Undisturbed`, although their SRAM parts share sectors.

**`ProofLemmas`.** The theorems of the library that state induction take an
operator as a parameter, which the provers here cannot instantiate. Induction over
a *set* does as well where the statement can be turned into a set of numbers
(`InductionOverSet`, `LeastElement`, `GreatestElement`), and it follows from the pigeonhole principle
for finite sets: if a set of numbers up to N held 0 and with each number the next,
but not N, "one more" would map it into itself without 0. So recursive functions
over lists (`Selected`, the walk along links, the memory of a world, the inspection of
a program) are within reach, and what they compute is stated as lemmas:
`SelectedAppend`, `SelectedFirst`, `SelectedKept`. Two recursions that take the same
steps agree (`StepsAgree`), and numbers that go up with each step are in order
(`Ascends`). `Division` and `Remainders` are the facts about
`%` that clocks need.

### Kernel and timers

**`OsalKernel_proofs`** (`TypeCorrect`, `NothingStranded`, `Conservation`,
`MailboxesRefined`). `NoStrandedMessage` is not inductive: it needs to know that a
queued message's addressee is a task (otherwise a raised flag would miss it), that
a message is queued once (otherwise stamping a new addressee on a message would
strand its second entry), and that no handler runs before the start (otherwise
dispatching would clear the flags that the first handler holds). The inductive
invariant is `TypeOK`, `NotRunningBeforeStart`, `MessagesConserved` and
`NoStrandedMessage` together. With it, `MailboxesRefined` shows that the kernel
implements `TaskMailboxes`: a handler that returns, a flag that is raised, a
message that is sent or taken are each one step of the mailboxes, everything else
is none. Its core is that the first entry of the common queue for a task is the
head of that task's mailbox, and that taking it leaves the other mailboxes alone.

**`OsalTimers_proofs`** (`TypeCorrect`, `OneTimer`, `NothingOverdue`,
`Countdowns`). The inductive invariant is written timer by timer: `Sound(x, at)`
says that the deadline of `x` lies ahead of the clock value `at` by no more than
the timer was set to. It is needed because the test of the code for "reached" is a
comparison modulo the clock size and means something only for deadlines that are
near enough. `Countdowns` is the whole refinement: each call or tick of
`OsalTimers` is one step of `TimerCountdown`. Its core is arithmetic modulo the
clock size (`ModShift`, `MovedLemma`) and the lemma that the catch-up of a periodic
timer ends at the next multiple of its period (`RearmedLemma`), which is why there
is no drift.

### Services of the OSAL: `OsalServices_proofs`

*Heap* (`NoSharedByte`, `InsideArena`, `Honoured`, `NothingLeaks`). Disjointness
and position are inductive together: a block carved from the arena starts at
`heapNext`, above everything else. The lemma to read is the one about `Align4`:
near the top of the range the sum saturates and the result is *smaller* than the
request; such a request cannot be satisfied because no arena is that large, so
whatever is granted is at least what was asked for.

*Buffers* (`BuffersUseTheHeap`, `BuffersFreedAsThemselves`). Every step is a step
of `OsalHeap` or leaves it alone, so the heap's invariant holds here by citing its
theorems. The property needs that a moved pointer stays inside its block
(`ViewsRight`), because then `BlocksApart` keeps the pointers of different buffers
different; and that each entry leads to a block of a buffer that is still held,
because a new block at the place of an old one must not find an entry.

*Message queues* (`QueuesAreLists`, `ListsTheorem`, `QueuesRefine`). The invariant
is `Represents`: there is one list of messages for each queue, no message twice and
none on two, such that `head` and `next` lead along it. It says nothing of the link
of a message outside, which is what the code relies on. The walk of the host is
shown to visit the list up to its bound and to end, and the six calls to change
the lists as the operations of `MessageQueues` do, in the middle and at both ends.

*Callback timers* (`CallbacksNeverEarly`). The history `wait` in a timer is the
time left; the invariant is that deadline and `wait` agree on the clock of the
timer's owner (`Timely`), for the boot that runs only, since a reset keeps timers.
An update computes the deadline on the clock of the chip that calls it, whoever
owns the timer: there, and only there, `Alone` is used.

### Host link and HCI

**`HostLink_proofs`** (`TypeCorrect`, `InOrder`, `NewestShown`, `LinkKnown`). The
inductive invariant has a part for each channel. `PacketsOk`: the packets that the
guest has, that is in the slot and that wait are numbered in this order, and a
slot whose number differs from its shadow holds one the guest has not got; the
shadow counts only between `HCI_Init` and the end of a boot, because restarts set
the two numbers back at different times. `FramesOk`: a slot with a number other
than zero holds the newest frame, and the number seen last says whether it was
printed. `LinkOk`: what the guest knows is what its shadow says, but for a link that
ended since. Each part is preserved by itself, given the types.

**`HciController_proofs`** (`TypesTheorem`, `AnswersTheorem`, `WritesTheorem`,
`CallerTheorem`, `BlocksTheorem`). For every heap, number of tasks, set of commands
and registrable table. The invariant says, for each stage in which the guest's
allocator or sender may be running, what the registers hold and whom they lead back
to (`EngineOwns`), what was sent and is still owed (`Progress`), which blocks the
engine keeps (`BlocksKept`), and that a handle which is remembered belongs to an
attribute that is meant (`Addressed`). `GuestOwns` says that nothing of this is left
behind when the guest runs; without it one engine could take the number of another
out of a register. `CallerRestored` and `NothingLost` are action properties that
follow step by step; for `NothingLost` the step that counts most is the one after the
second block was granted, where the first must go out with the second noted in it.

### Flash: `Flash_proofs`

*Snapshots* (`OnlyOwnNor`, `Durable`). The inductive invariant has a part for each
place where an image can be: `FileOk` (the snapshot is complete and one that its
owner may find, and every other HEX file finds its own image), `RunningOk`,
`TmpOk`, `CallOk` and `DueOk`.

*Sessions* (`ReportedTheorem`, `EntryTheorem`), for every number of parts, tries,
polls and faults, and however earlier sessions ended. Both come from one invariant,
`LineInv`. `Late` says which answer of an earlier word can still be on the line at
each place of the tool: after the entry and the change of rate, none, because an
answer that is read in place of another one never fits it and ends the session.
`Kept` says that the parts before the current one are stored, and that the ROM
reaches `checksum` with an intact chunk only by a payload that the line did not
change. `Quiet` says that on a line without faults the ROM is always in the mode and
at the rate that the next word needs, and `Entering` the same for the words before the
ROM has answered. The proof reads an answer in one place (`Exchanged`): the lemmas
say what the ROM does and says for each kind of word (`Did`, `Says`), and what the
tool can have read if it goes on (`Came`).

*The NOR* (`SparedTheorem`, `ReadsBackTheorem`), for every geometry. `Seated` says
where the tool is in its part and holds for every image. What is stored needs more:
`Session` says that earlier parts can be read back (`Stored`), that of the current one
the cells sent so far are right (`SentOk`) and the others blank as far as the erases
have come (`BlankOk`), that the range erased last is blank where nothing was sent
(`RangeOk`), and that this range covers the sector just before the place of the next
erase, at the beginning of a part the last sector of the part before (`LastOk`). That
is the reason why one remembered range is enough for an `Undisturbed` image: the only
sector that its part shares with an earlier one was the last of the part just before,
so it is skipped (`ErasesNoOther`). Of the sums over segments only the type is needed.

*Files* (`AgreeTheorem`, `LayoutTheorem`, `BootsTheorem`), for files of any length. The
three are about functions, so the invariant is no more than that the lines of the file
are lines; the proofs are inductions over the rounds of the loops, each with the
invariant that the loop keeps. `ParseFollows`: as long as the flasher's reader accepts a
file, the emulator's collects the same bytes. `OrderKeeps`: sorting keeps, of the bytes
for an address, the last one last, which is where stability is needed. `CoalesceIs`: the
segments that are joined ascend with a gap between any two, none is empty, and they put
at each address the byte that was read last. With `MemoryIs`, which says the same of the
emulator's memory, this is `ReadersAgree`. `PartsBeside` follows the two counters of
`Flashing!Parts`, the one behind the window and the one in the store: what each has
given out lies behind it. For `VerifiedBoots`, a segment is read back from a part because
each of its cells holds one value (`BackIs`); the file that is written of it puts the
same bytes at the same addresses (`PieceRead`, `SegmentRead`, `EncodeRead`: a record
never crosses a border, and the base that was written last is that of the record); and
lists of segments with gaps between them that put the same bytes at the same addresses are
equal (`SegmentsSame`). The proof needed `ReadLine` to say in which order the
code asks its questions: a `CASE` with a guard for a wrong checksum and one for each
kind of record left it open what a record is that fulfils two of them.

### What runs around a chip: `Runtime_proofs`

*Air* (`SimToldTheorem`, `LabToldTheorem`, `ShownTheorem`, `DrawnTheorem`). Both
runtimes contain the same step of the world, so one invariant serves both:
`AirInv` says that while no chip has left (`steady`) and addresses are distinct
(`Single`), the memory of links is exactly what was audible a millisecond ago, what a
chip was told is in it, and what is in it but was not told is `lost`: taken away by a
reset and not said again. The sources with one address are
looked at in their order, each against the one before it; the lemma is that the
last of them decides (`LatestIs`). `LabInv` adds
that the links on the page are both heard and remembered, for equal addresses as well,
which is what survives when `remove` moves the positions; and, for `HeardIsShown`,
that a link not yet drawn has been audible for no longer than the remainder of the clock
since the last beat (`Waiting`).

*Bridge* (`LinkTheorem`). The two copies of the link agree only when nothing is in
flight, so the invariant is about the lines: `Leads(by, queue, from, to)` says that
the lines of a queue, each doing what its kind does to a flag, lead from one value
to the other. `Followed` is that the emulator's link is led by the pipe to the
bridge's `connected`, and that its subscription is led by the pipe, and then by what
the bridge has not read from the helper, to what the helper has told. The lemmas
are what a line at either end does to `Leads`. The exception of the property,
`past.meddled`, is a user or firmware that ends the link itself.

*Saturn PLC* (`OwnRuntimeTheorem`), for any number of threads and programs.
`OwnRuntime` needs that only the controller with the lock works on the runtime
(`OneHolder`), that a snapshot bears the fingerprint of the program it came from
(`SnapshotsTrue`), and that a load starts from inputs of zero (`LoadsFresh`).

*Saturn compiler* (`WalkableTheorem`, `FoundTheorem`, on `SaturnTypeTheorem`), for any
number of elements, texts, screens and hints. The invariant is short: the IR and the
program are of their types, whatever was cut or changed (`SaturnTyped`), and a program
that was compiled and not changed is what was written of its source (`SourceKept`). The
work is in two facts about the functions. Missing options count as zero wherever they
are read (`OptionsAre`, `OptionsOfIs`), so neither fact asks how many there are.

`InspectedIsWalkable` takes no more than that a program was accepted. The inspection of
strings and screens is a recursion that stops for good when it finds nothing, and the
walk of the runtime is another that never stops. Where the inspection got to its end it
had got to every place before (`NeverNone`), and as long as it does, both take the same
step (`StringsWalked`, `ScreensWalked`): the first zero behind a place is the same,
whether one looks up to the checksum or not, if there is one before it. A text that is
formatted is cut where the state of the scanner is "text" again; each piece is then a
letter, "%%" or a format of one number, and those are as many as the scanner counted
(`AcceptedPrints`). What an element of a screen refers to and divides by is what the
inspection asked of it.

`WrittenIsFound` is about the layout. A program is five lists behind each other, and
each of them is made of parts: `ConcatIs` says where each part of a joined list lies,
`FiveParts` and `PartsLaid` bring that to the places in the program. A text without a
zero, followed by one, is a string that both find where it was put (`StringsLaid`), a
screen as long as its header says is one that both step over (`ScreensLaid`), and the
number of texts is that of the captions that the inspection counts, plus three
(`TextsAre`, by `SelectedCount`). `RefsFound` says that references come in the order
of the inputs, and each leads to the element with that id because ids are distinct. So
what is in order compiles, which is the first half of `CompiledIsFound`, and what was
compiled is found.

## 7. Where the code does not do what is said

1. **Chips of a World share callback timers** (`cbtimer_rom.rs:33`). The table is
   thread-local and a World ticks all chips on one thread. `docs/GITHUB_ACTION.md:99`
   promises "an independent firmware instance" for each node. In the run, a chip
   calls the address of a function in another chip's firmware.
2. **A later erase wipes a sector that was already programmed** (`flash.rs:355`). Only
   the range erased last is remembered, and the number of sectors of a part is
   taken from its padded size. `HARDWARE_FLASH.md:150` says that segments in a
   shared sector cannot erase each other. Three SRAM segments of 0x400, 0x1200 and
   0x400 bytes are enough, and the session reports success.
3. **A subscription made together with the connection is lost**
   (`hci_rom.rs:167`). The poll for a new link copies the whole status word into
   the shadow, the notify bit included, so the poll for the subscription sees no
   change. `PROTOCOL.md:27` says that `CCCD` enables notifications.
4. **Programs that load into SRAM share one snapshot** (`flash_state.rs:146`). The
   fingerprint is taken over the NOR image, which is blank for all of them.
   `flash_state.rs:25` says that an image is accepted only for the exact baseline
   HEX.
5. **`--once` may never end** (`emu.rs:92`). A run of one chip that is not live ends when
   the chip has stopped or has executed as many instructions as it may. A chip that
   sleeps or was reset into the monitor of the ROM executes none (`chip.rs:320`, `336`),
   and no command comes to wake it. `PROTOCOL.md:11` says that `--once` runs until halt
   or the instruction cap, the help text in `main.rs:34` that it runs until completion,
   fault or `--max-insns`.

Each is the counterexample of a run, with the quoted line in `PROJECT.json`.

## 8. What is only model-checked, and what is not modelled

Only model-checked, and why:

* Liveness (`MessagesDelivered`, `DueTimerIsCalled`, `CallsReturn`, `RunsEnd`,
  `LockReturns`), and with it `SingleRun`: out of reach of the provers used here, as is `ENABLED`.
* That the layout of `build_flash_image` is `Undisturbed` for a given firmware. It is
  not for some (section 7), and for the others it is a matter of their lengths.
* The five properties that a run finds violated.

Every other property of the runs, that is every invariant and every property of steps,
is stated by a theorem.

Left out of the modelled parts: GPIO, ADC, PWM, UART lines, faults and instruction
limits in `chip.rs`; the bytes of HCI events and the names of commands of one kind;
how a handler's address is found in the task table; the arithmetic of distances and
signal strength in `world.rs`; the pins, inputs and ADC values of the browser lab,
which only pass through to a chip; the JSON of the browser and of the compiler's
input; the C runtime of the PLC, a submodule of which only the interface is
modelled, from how `saturn.rs`, `saturn_bridge.c` and `saturn_state.inc` use it; the control queues of
the link layer, which hold what guest code puts into them.

Not modelled: register maps and their discovery, board tables, the parsing of a
command's arguments, drawing, packaging and the firmware examples, which have no
protocol of their own or are the environment of the models; ABI helpers and power
calls of one step; AES, which test vectors cover; the Python flasher, an older tool
for the protocol that `FlashSession` has; `zmu`, a submodule whose source is not part
of the repository.

## 9. Plan

In order of importance:

1. **Kernel and timers together.** A module that composes `OsalKernel` and
   `OsalTimers` over the same event words: an armed timer leads to its handler, and
   a stopped one does not run it unless its flag was already raised; its safety from
   the theorems about its parts.
2. **`HostLink` refined by `HciController`**: an injected event of the one is a
   stage by stage event of the other.
3. **Tables that chips share** besides the callback timers: control queues, buffer
   views and the snapshot of the NOR.
