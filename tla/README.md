# projekts: a TLA+ verification project

The repository is a collection of small embedded programs and tools. Its heart
is the uC/OS kernel in `MOD5441X_FlexBus/ucos.cpp`, on which the NetBurner
programs run; the rest are programs on top of it, a few bare-metal programs for
other boards, and some command-line tools. The modules here model the kernel
completely enough to state what it promises, the two programs on it with the
most interesting concurrency, and the one for another board that has a protocol,
a programmer for the SWD debug port. Everything is checked with TLC on small
instances. Proved with TLAPS for all instances is every safety property that a
passing run checks: of the scheduler, of every kernel object, of the TCB lists and
the bit table, and of the programs.

## 1. Inventory

### The kernel (`MOD5441X_FlexBus/ucos.cpp`, `ucosmcfc.h`, `cfinter.h`)

| Part | State | Operations |
|---|---|---|
| scheduler | `OSRdyGrp`, `OSRdyTbl`, `OSTCBCur`, `OSLockNesting`, `OSIntNesting` | `OSSched`, `OSIntExit`, `OSLock`, `OSUnlock`, the `INTERRUPT` prologue |
| time | `OSTCBDly` of each task | `OSTimeDly`, `OSChangeTaskDly`, `OSTimeTick` |
| tasks | TCBs, `OSTCBList`, `OSTCBFreeList`, `OSTCBPrioTbl` | `OSTaskDelete`, `OSChangePrio`, `OSTCBGetFree`, `OSTaskCreate` (in the library) |
| semaphores | `OSSemCnt`, wait table | `OSSemInit`, `Pend`, `PendNoWait`, `Post` |
| mailboxes | `OSMboxMsg`, `OSMboxDataAvail`, wait table | `OSMboxInit`, `Pend`, `PendNoWait`, `Post` |
| queues | ring of pointers, `OSQEntries`, wait table | `OSQInit`, `Pend`, `PendNoWait`, `Post`, `PostFirst` |
| FIFOs | chain of elements, head, tail, wait table | `OSFifoInit`, `Pend`, `PendNoWait`, `Post`, `PostFirst` |
| critical sections | `OSCritTaskNum`, `OSCritDepthCount`, wait table | `OSCritInit`, `Enter`, `EnterNoWait`, `Leave` |

The kernel preempts. Interrupts nest, posts come from tasks and from
interrupts, and a call that waits has two critical sections with the scheduler
between them. What makes it correct: the most urgent ready task runs; a unit, a
message or a section is handed to one task, once, although the waiter's timeout
may fire at the same time; nobody sleeps forever who asked for an end; lists and
tables stay intact under any sequence of calls.

### Programs on the kernel

* **DSPISlaveToTCP**: a DMA channel fills a ring of two halves, an interrupt
  handler copies each half to a pool buffer and posts it to an `OS_FIFO`, and
  `UserMain` writes it to a TCP connection and gives the buffer back. Hard: the
  DMA waits for nobody, the network may be slow, the pool may be empty.
* **Control_Mon_demo**: a stepper motor stepped by a timer interrupt, a knob
  with a button read by another, a lidar and a nunchuck on a shared I2C bus (an
  `OS_CRIT`), a web page. Hard: every setting is kept twice, the timer is
  switched off by its own handler while the knob switches it on, a new rate
  takes effect at the next interrupt, contacts bounce and a count of
  milliseconds wraps.
* **RoundRobin**, **SchedulerTest**: clients of the kernel that schedule tasks
  in turns, and that try a semaphore and a FIFO.
* **stepper_driver**, **encoder**, **lidar**, **servo**, **beeper** and the
  **nunchuck** demos: earlier versions of, or parts for, Control_Mon_demo.
* **SPI_PWM**: a DMA that sends a bit pattern.

### Other boards and tools

* **FRDM/KL03Z**: a programmer for the SWD debug port of another chip (`swd.c`),
  with a serial console (`bsp.c`), which puts a small program into the other
  chip's memory and starts it (`main.c`). Its state is a count of attempts and
  one answer; the target's is what the packets wrote and its sticky error flags.
  Hard: the target answers WAIT, FAULT or nothing to any packet, data fail their
  parity, and `main` looks at no result: what keeps half a program from being
  started is the flag that refuses all later packets, and which of the two values
  written to ABORT clears it.
* **pdfsplit.go**, **anagram**, **mcf54_spi_baud_calc**, **hex**: sequential
  tools.
* **8051**, **NANO**, **HW**, **canvas**, **sslsess_test**, **IPSetup_QT**:
  vendor headers, drawings, an HTML page and single-call tests.

`PROJECT.json` lists every part with its status and every hazard with the
properties that watch over it.

## 2. Modules

```
UcosKernel ── UcosSem ── implements CountingSem
          ├── UcosMbox ┐
          ├── UcosQueue├ implement MessageQueue
          ├── UcosFifo ┘
          └── UcosCrit
RdyTable ──── UcosTask    TCB lists, priorities, the bit table, the tick's walk
DspiRx                    DSPISlaveToTCP
Encoder, StepControl      Control_Mon_demo's knob, and the motor it drives
Swd                       the SWD programmer and its target
```

`MC*.tla` and `MC*.cfg` are the instances for TLC, `*_proofs.tla` hold the
theorems: one module beside each kernel module, and `Programs_proofs` for DspiRx,
Encoder, StepControl and Swd. Definitions called "Mutant of X", which stand before X, are variants
of X with a plausible mistake; they are used by no specification, and for each
property one of them is known to break it.

**UcosKernel** is the scheduler. A task is its priority. The code between
`UCOS_ENTER_CRITICAL` and `UCOS_EXIT_CRITICAL` runs with all interrupts masked,
so each such section is one action; `pc` says where in a call with several
sections each task is, and any number of interrupts and switches of the task
fit between two actions. `intNesting` is the stack of interrupt frames, of which
one may be the timer's (its level masks itself); the timer's handler comes to
the TCBs in `tickTodo` in any order, since `OSTCBList` has the order of
creation. A post in an interrupt handler calls an `OSSched` that does nothing,
because `OSIntNesting` is not 0, and the outermost `OSIntExit` chooses the task.
Assumed of callers, as the source assumes it: calls that wait are made with
the scheduler unlocked, and delays are at least one tick. The ready table is the
set `rdy`, and its lookup the least member.

**RdyTable** justifies that set. It has no state of its own: it is the value that
`OSRdyGrp` and `OSRdyTbl` (or a wait table) have together, and the operations on
it: to set a bit, to clear it and the group's with it when the byte becomes 0, and
to look the first one up. The 256 entries of `OSUnMapTbl` are copied from the
source, and the module's assumption `UnMapIsLowestBit`, which TLC evaluates for
all of them, says what they mean. **UcosTask** schedules with it.

**UcosSem, UcosMbox, UcosQueue, UcosFifo** add one kind of object each. A
semaphore's post hands its unit over to the waiter it wakes. The other three
leave the message in the object until the woken task takes it, which is why
they are modelled with one consumer, as they are used in this repository; with a
second one see `fifo_stolen` below. FIFO elements are posted while in nobody's
chain, as programs that take them from a pool do. **CountingSem** and
**MessageQueue** are what they promise, without scheduler, flags or delays.

**UcosCrit** keeps what the source does when `OSCritEnter` times out: it leaves
the bit in the wait table and the status flag. `Patient` names the tasks that
never ask for a timeout, like every caller in Control_Mon_demo. Tasks leave
sections they have entered, and priority 0, which means "nobody", is no task's.

**UcosTask** is the kernel seen from its lists: TCBs linked forward and back,
the free list, the table by priority, and a tick that walks the list one
critical section at a time. Here priorities change and tasks come and go;
`OSTaskCreate` is in the NetBurner library and modelled from its use. The
scheduler finds the next task as the code does, by two lookups in the bit table
and one in `OSTCBPrioTbl`.

**DspiRx** has the DMA, the handler and `UserMain` as three processes. The DMA
writes one sample per step even while the handler copies, and the handler
(masked at 0x2700) excludes `UserMain`. `unnoticed` is a history variable: how many
halves the DMA has completed before the handler was done with the one before, so
that one request stood for both. `HalvesAccounted` counts them: each costs exactly
one half. What the chunks hold from then on (`BackHalf` is off by one) the source
does not promise, and `ChunksInOrder` ends there; nothing else is
conditional. `sent` counts what is handed to `writeall`, whose result `UserMain`
ignores (main.cpp:111): after an error it does the same. The FIFO is a sequence, as UcosFifo is shown
to implement one.

**StepControl** has one action per handler and per branch of the knob's
callback. PIT1's and PIT3's handlers both run at 0x2600, so neither interrupts
the other. `stale` is a history variable: a modulus left in `new_pmr` by
`ChangeStepRate` when `ConfigureStepperTimer` set another rate; the next
interrupt then brings the old one back, until the rate is changed again. The code
does that and nothing in the repository promises otherwise, so `RateIsSpeed` exempts
the modulus, and only the modulus, in that state. Not modelled: the calls from `InputTask`
(it parses only an empty buffer), `MoveStepper` and `StopStepper`.

**Encoder** is what decides when those callbacks are called: one action per
interrupt of PIT3, which samples the two phases and the button with any levels.
`prev`, `lastStable`, `dupCount` and `lastButtonUp` are the code's variables; a
history of runs, gaps and releases, kept apart from them, is what the properties
compare with. Its callbacks are StepControl's actions `EncodeStep`,
`ButtonChange` and `ButtonDoubleClick`, which may there come at any time; Encoder
says at what distance they come. The start value of `lastButtonUp` and its wrap are
in the model; a double click by either is one the code accepts, and
`DoubleClickIsTimely` allows it: what it catches is a limit off by one and a restart
at the wrong release.

**Swd** is the host as the sequence of calls `main` makes, a call the sequence of
its packets, and one attempt to send a packet one action with the answer it gets:
acknowledged, refused because a sticky flag is set, WAIT and sent again, given up
after `SWD_MAX_FAIL`, missed by the target, or with a parity error in the data of
either direction. Whether an answer ends the call is the packet's `must`, as the
code tests some results and drops others. `reset_and_power_debug` and
`clear_faults` loop as they do. The target is external: debug port, access ports,
memory and core do what the registers that `swd.h` names are used for. `lost`
is a history of what went wrong and no flag of the target keeps: a packet it missed,
a read that failed its parity, an error of its bus that the ABORT of a later call
cleared (0x16 clears STICKY_ERR, not the write-data error), and a register written
before the last one was transferred. An error of the bus is not `lost` while its flag
stands, since everything after it is refused.

## 3. Runs

| Run | Instance | States | What it shows |
|---|---|---|---|
| `sem` | 2 tasks and idle, 2 semaphores, nesting 2, liveness | 54108 | the scheduler always runs the most urgent task; a count is its waiters; served and timed out are told apart; nobody times out who did not ask; sleepers wake; the semaphores implement CountingSem |
| `crit` | 3 tasks, one patient, depth 2 | 73612 | exclusion and handover hold although other enters time out and leave their bits; who owns a section knows |
| `crit_stale` | the same, nobody patient | | counterexample, see section 6 |
| `mbox` | 3 tasks, 2 messages, nesting 2, changed delays | 161631 | no message is lost to a timeout or taken twice; a woken task finds its message; a mailbox implements a MessageQueue of capacity 1 |
| `queue` | 2 tasks, ring of 2, posts at both ends | 19864 | pointers and count agree over every wrap; no message is left with its consumer asleep; a queue implements MessageQueue |
| `fifo` | 2 tasks, 3 elements, posts at both ends | 18608 | pointers are the chain; a woken task finds an element; a FIFO implements MessageQueue |
| `fifo_stolen` | two consumers, `OSLock` never called | | counterexample, see section 6 |
| `task` | 4 TCBs, 3 priorities in two bytes, delays 1 and 2 | 227672 | lists and table stay intact, the tick misses nobody, a sleeper has a delay, and the lookups find the most urgent live task |
| `dspi` | 12 samples, halves of 2, 2 buffers, liveness | 16690 | no buffer is lost; chunks are whole and in order until the DMA overtakes the handler; every half is accounted for, also after that; buffers come back |
| `step` | 4 speeds, 4 phases, positions that wrap after 8, liveness | 18432 | the timer runs exactly while there is something to do; phase is position; the rate is the knob's, but for a modulus left behind; the motor stops |
| `encoder` | debounce 2, double click 5, count that wraps after 9, liveness | 194148 | what is reported was stable; reports are spaced; double clicks are in time; a level that stays is followed |
| `swd` | 2 words, one resend, 3 faults, liveness | 204970 | a reported success is one; a core that was started has its whole program, but for the four losses that `lost` names; the injection ends |

### Bounds

Two tasks over the idle task are enough for each race the kernel has between a
waiter and a poster, and a third (in `mbox` and `crit`) for a bystander who
preempts either; interrupts nest twice where a post from a handler above the
tick matters. Delays and timeouts are 1 or 2 ticks: the code tells apart only 0,
1 and more. `MaxCnt` 1 reaches the overflow of a semaphore, `Size` 2 and three
elements reach full, empty and both wraps. Four TCBs include the idle task's, a
first, a middle and a free one; their priorities are one
in the idle task's byte and one in each of two others. Twelve samples go three times round the ring.
A debounce count of 2 has levels that bounce before and at the limit, a wrap of 9
lies beyond the double click's 5, so that a release comes in time, late, and after
the wrap. Three faults reach a packet that fails, the clearing of its flag that
fails, and a failure of what comes after; one resend reaches both a packet that is
sent again and one given up. Two words are a first one and a last one of an array written with
auto-increment.
`MaxNesting`, `MaxLock`, `MaxDepth`, `MaxCnt`, `MaxSamples`, `MaxRem` and
`MaxFaults` are the bounds, all constants; what is proved holds for every value of
them. Type invariants other than UcosSem's are not in the configurations: they hold
in the same instances, and those of UcosSem, UcosCrit and Encoder are parts of the
proved invariants, as are those of DspiRx and Swd and the ranges the others need.
The inductive invariants are not in the configurations either: TLC has checked
them on the instances of the runs before they were proved, and the theorems say
it of every instance.

Deadlock is not checked where a bounded run may stop: `DspiRx` when the bus has
delivered its last sample.

### Fairness

* Kernel: the timer's request is latched in hardware, so `TickEnter` is strongly
  fair although other interrupts come again and again; the tick's handler goes
  on whenever the handlers above it return (strong fairness of `OSTimeTick` and
  of its `OSIntExit`); every handler returns (weak fairness of `OSIntExit`).
  Tasks are owed nothing: a more urgent one may run forever.
* DspiRx: the handler and the interrupt run to their end (weak); `UserMain`
  gets the processor again and again between handlers, and the network's peer
  reads (strong, since the handler disables it each time).
* StepControl: an enabled timer interrupts (weak). Encoder: PIT3 interrupts
  (weak).
* Swd: the host goes on with its program (weak; nothing runs beside it), and the
  target ends what it has begun, its power-up and a transfer of a register (weak).
  Faults are not fair.

## 4. Proofs

All safety theorems hold for every value of the constants allowed by the named
assumptions of the modules (`KernelAssumption`, `SemAssumption`, ...).

**UcosKernel_proofs** has the lemmas that the objects share: the kernel's steps,
`Block` and `Wake` preserve `SchedInv`, that is the types, the most urgent task
running, the idle task ready and each sleeper with a delay. `CurIsHighestReady`
is not inductive alone: it needs to know that a task that has taken itself out
of the ready table is on its way to `OSSched` or holds the lock.

**UcosSem_proofs** proves `SemInv`: `SchedInv`, the types, the flag exactly for
those in a table, the count as the number of them. The flags say who leaves a
table and why, so the count needs them; they need that a task outside the call
is in no table. From it follow `SemTypes`, `SemCount`, `SemFlag`,
`SemSchedules` and `SemNoSleeperLost`. `SemForever` (no timeout unless asked) needs one more: a
task that waits without end has delay 0, so no tick makes it ready. It assumes
that nobody calls `OSChangeTaskDly`, which could give it a delay.
`SemImplements` maps every step to a step of CountingSem or a stutter; the tick
maps to a stutter, and the timeout to `GiveUp`.

**UcosCrit_proofs** proves `CritInv`, whose extra part is that a new owner that
has not run since the handover has depth 0. `MutualExclusion` follows from
`DepthIsHeld`. `CritPatient` and `CritAllPatient` say what is left of the
promise when some, or all, tasks never ask for a timeout: the latter is exactly
the property that `crit_stale` violates, under the assumption under which it holds.

`CritOwner` is the promise made to a patient task: who was made the owner
is inside or about to be.

**UcosMbox_proofs** proves for any number of receiving tasks that a pend that
times out loses nothing (`MboxTimeout`). The argument: if the mailbox is full while
somebody waits, the message is promised to a task that was woken, is ready and is
more urgent than every waiter (`Promised`), for a post takes the most urgent one
and no other gets in before it runs; a waiter that executes is the most urgent
ready task, unless the scheduler is locked, which it is not in a call that waits
(`LockedRuns`). With one receiving task (`OneConsumer`, as every mailbox of this
repository has) a woken task also finds its message, and the mailbox is a
MessageQueue of one.

**UcosQueue_proofs** proves, with one receiving task and any `OSQSize` up to 255,
that the pointers and the count are the same ring (`QueueRing`), that no message
is left with its consumer asleep, and that a queue is a MessageQueue. The slot `k`
after `i` is `At(i, k)`, which needs no division; `Wrapping` shows that it is what
the refinement mapping's `%` gives. That the woken task finds a message is in the
invariant because without it the count, a byte, would go below 0.

**UcosTask_proofs** begins with the bit table: the bytes hold exactly the members
and the group exactly the bytes that are not 0, and from the assumption about
`OSUnMapTbl` the lookup finds the least (`TableLookup`). Then it proves the five
invariants of the `task` run for any number of TCBs. The two lists are kept as
history sequences `order` and `pool`, and the lemmas about each action say how the
links follow the sequence: at the front, in the middle, at the end. That
`OSTaskDelete` never unlinks the last TCB is used, since it is the idle task's.

**UcosFifo_proofs** proves, with one receiving task and any finite set of elements,
that the pointers form the chain (`FifoChain`), that a woken task finds an element
at the head (`FifoWoken`), and that a FIFO is a MessageQueue (`FifoImplements`).
`Linked` says of any sequence, head, tail and links what `PointersFormChain` says,
and that no element is in the chain twice, without which it is not inductive: to
take the head, which clears its link, would cut the chain further back. Three
lemmas say what taking the head and posting at either end do to it. The elements
in the chain are finitely many, so it never outgrows the abstract queue
(`ChainHasRoom`); this is why `FifoAssumption` asks for a finite set. As in the
queue, that the woken task finds its element rests on the post that woke it having
left one there, and on nobody else taking it.

**Programs_proofs** has the programs, after some lemmas about remainders that
they share.

* *Encoder*: the three safety properties of the `encoder` run. The count is the run
  of equal samples, up to the limit, and at the limit since the last report at the
  latest.
* *StepControl*: the three safety properties of the `step` run, and that knob and
  motor agree on direction and mode. `StepPhase` needs that `SeqLen` divides the
  range of `stepsTaken`, as any power of two does, which `StepAssumption` states.
* *DspiRx*: the three safety properties of the `dspi` run, for any size of the
  halves, finite pool and number of samples. Which of the four places a buffer is
  in is told by the two program counters (`PoolInv`), which gives
  `BuffersConserved` whether or not the DMA has overtaken the handler; so does
  `HalvesAccounted` hold, because a second half can be completed only while the
  request for the first stands, and the handler clears it once. The data
  need the ring: it holds the last `2 * Half` samples, each at its remainder
  (`RingInv`); the handler copies the half that ends where the DMA's begins
  (`HandlerInv`), as long as it is not overtaken, so what it has copied so far is
  a run of samples; and the chunks that are not sent are in the order of the bus
  and all lie before the half that is requested (`OrderInv`). Without that bound
  the order would not survive the next post.
* *Swd*: both safety properties of the `swd` run, for any length of the program,
  number of resends and faults. The argument: a packet that was not done leaves a
  sticky flag, or is one the target missed; while a flag is set (`Stuck`) all packets
  but ABORT, IDCODE and CTRL_STAT are refused; ABORT stands only at the begin of a
  call, and its 0x16 never clears WDATA. So at every packet of a call the target is
  stuck, or has missed a packet, or has done what the packets before say (`MemInv`,
  `ArrayInv`), and the last packet of a call, which only a target that is not stuck
  acknowledges, reports on all of them (`SwdReport`). If nothing at all went wrong
  (`Clean`), the port is set up, the core halted, the program loaded and each
  register transferred before the next is begun (`CleanInv`, `RegsInv`). The flag that
  0x16 does clear is the bus's: the power-up ends without it (`ErrInv`), so one
  that is cleared later is an error of an access to memory, which `lost` records
  (`CleanBefore`). For
  `SwdReleased` one more part is needed: only the last call writes what starts the
  core, and from then on no transfer is under way (`CoreInv`).

Only model-checked: liveness (`SleeperBecomesReady`, `BuffersComeBack`,
`MotorStops`, `LevelIsFollowed`, `InjectionEnds`), which the prover does not
reach, and the contents of `OSUnMapTbl`, which TLC evaluates exhaustively. Only
for one receiving task are the theorems about queues and FIFOs, and about
mailboxes those that say what a woken task finds: with a second one they are
false, as `fifo_stolen` shows.

## 5. Not modelled

The definitions stand for code of nine source files. By far most lines of
the repository are not its own logic: the CMSIS and SDK headers and start-up code
of the KL03Z (`src/FRDM/.../SDK`, register names and bit masks), the 8051 vendor
headers (`SFR_Macro.h`), generated web pages (`htmldata.cpp`), and third-party
code (`md5.cpp`). They have no behaviour to model, which is why the modules map to
a small part of all lines.

* Kernel: time-of-day counters, the task log and the trace code; the registers of
  interrupt prologues (the window before `OSIntNesting` is counted, and the
  `USER_` variants of the critical sections, which nobody calls). A composition of
  UcosTask with the objects, a task that is deleted or renumbered while it owns
  a section or waits for one, is left open. `OSChangeTaskDly`, which nothing in the
  repository calls, is in the `mbox` run only: `SleeperBecomesReady` and
  `TimeoutOnlyIfAsked` are for tasks whose delays nobody changes.
* The NetBurner library (TCP, web server, pools, `OSTaskCreate`), known only by its
  use. `InputTask`'s web socket is shared with the web server's task, whose side of
  it is there.
* RoundRobin sets and clears ready bits through `rtosTaskBitList`, of a later
  kernel whose source is not in the repository.
* Swd: `send_halt`, `swd_read_reg`, the read-back and `takeover_and_inject`, which
  nothing calls, and the shifting of single bits.
* `lidar`, `servo`, `nunchuck`, `beeper` and `streamer` programs: loops that read
  a sensor and write registers; the one call in them that waits is UcosSem's.
  `stepper_driver` and `encoder` are earlier versions of what is modelled.
* pdfsplit, anagram, hex, SPI_PWM and the baud-rate search: sequential, with their
  result printed or sent at once and no state that a second step could find wrong.

The hazards in `PROJECT.json` without a property say where each of these bites.

## 6. Findings

* `crit_stale`: `OSCritEnter` that times out (ucos.cpp:1637) leaves its bit in
  the wait table, so "something pending" (ucos.cpp:1677) is not: the next
  `OSCritLeave` hands the section to a task that does not know, and if that is
  its last interest in the section, nobody enters it again. Programs that always
  wait without end, as Control_Mon_demo does, are not affected
  (`CritAllPatient`).
* `fifo_stolen`: a pend that gets no element returns NULL, as the test of the
  FIFO expects (`if (!pEl)`, SchedulerTest/main.cpp:43). With two receiving tasks
  `OSFifoPend` may instead take the head of an empty FIFO (ucos.cpp:1424 to 1427)
  and read through a null pointer: a post makes one ready, and before it runs the more
  urgent one takes the last element, in a call that need not wait. No
  lock of the scheduler is needed (`MaxLock` is 0 in this run). The FIFOs of the
  repository have one receiving task each, so none of its programs does this, and
  `FifoWoken` proves that with one it cannot happen. The mailbox and the queue have
  the same window.

## 7. Plan

1. *Done*: the kernel with all its objects, the TCB lists over the bit table,
   DspiRx, StepControl, Encoder and Swd; proofs of all safety properties and
   refinements of the passing runs.
2. *Left*: a composition of UcosTask with UcosCrit, for tasks that are deleted
   inside a section. The register level of interrupt prologues. What remains true
   of a FIFO, a queue or a mailbox with several receiving tasks.
