# The engine controller, specified and verified

This is a TLA+ development kept beside the engine controller of Rice Eclipse's
hybrid rocket test stand (the *Luna* and *Titan* engines). The controller is a
two-thread C++ process on a Raspberry Pi: it reads sensors, drives valves and an
igniter through GPIO pins, runs a timed burn sequence, and is operated over TCP
from a base station. Paths below are relative to the repository root; the
controller proper lives in `src/src/final`, `src/src/visitor`, `src/src/server`,
`src/src/adc/lib` and `src/src/util`.

## 1. Inventory

| Part | State | Operations | Talks to |
|---|---|---|---|
| Worker thread (`final/main_worker.cpp`, `visitor/worker_visitor.cpp`) | `burn_on`, `start_time_nitr`, `pressure_avg`, the pins | `worker_method` (poll, visit), `visitProc`, `visitIgn`, `visitNone`, `check_ti_list`, `visitTimed` with the pressure shutoff | takes from `qw`, puts on `qw` and `qn`, reads `nw_ref->connected`, writes GPIO |
| Timed items (`final/timed_item_list.*`, `final/timed_item.*`) | per item `enabled`, `scheduled`, `time_delay`, `last_send`, `buffer` | `enable`, `disable`, `set_delay` | called by the visitors only |
| Luna visitor (`visitor/luna_visitor.*`) | `gitvc_on`, `gitvc_count`, `gitvc_times` | cases of `visitProc`; `ign2`, `ign3`, `gitvc` in `visitTimed` | overrides the base visitor |
| Titan visitor (`visitor/titan_visitor.*`) | none of its own | presets in `visitProc`; `ign2`, `ign3` in `visitTimed` | overrides the base visitor |
| Network thread (`server/network_worker.*`, `final/main_network_worker.*`, `util/listener.cpp`) | `connected`, `connfd_tcp`, `connfd_udp`, `pf`, `last_recv`, `has_acked`, `timeout` | `worker_method`, `process_nqi`, `do_recv`, `fail_connection`, `open_connection`, `send_header` | takes from `qn`, puts on `qw` and `qn` |
| Queues (`server/safe_queue.hpp`, `queue_items.hpp`) | a deque, a mutex, a condition variable | `enqueue`, `poll`, `dequeue` | both threads |
| Circular buffers (`util/circular_buffer.*`), log files (`final/main_buff_logger.*`) | `data`, `bytes_written` | `add_data`, `write_data`, `get_data` | written by the worker, read by the network thread, without a lock |
| Start-up (`final/main.cpp`, `initialization.cpp`, `ini_config.cpp`, `pins.hpp`) | configuration variables | range checks, `initialize_pins` (also at exit), registration of the converters, thread creation | everything |
| End of the process (`atexit`, `exit(1)`, SIGPIPE) | none | `initialize_pins` on the thread that calls `exit` | runs beside the worker thread |
| ADC access (`adc/lib`) | select pins | `register_pin`, `read_item` | the worker, over SPI |
| Clock (`util/timestamps.cpp`) | base time | `get_time`, `set_base_time` | everything |
| Threaded ADC test (`adc/threaded_adc_test.cpp`) | `sending`, `last_send`, two queues, a buffer | its own worker and network thread | a base station |
| Counter and echo servers, `udp_test`, other ADC and SPI tests, logger | their own | test programs, text output | |

### How a command becomes a valve movement

The base station sends one byte per command. The network thread reads a byte
when it takes an `nq_recv` from `qn` and puts `wq_process` on `qw`. The worker
takes items from `qw` one at a time and visits them. `ign_normal` is put back on
`qw` as `ign1`; its visit lights the igniter and arms the timed item `ign2`.
When `qw` is *empty*, the worker scans the timed items and enqueues the due
ones. `ign2`'s visit opens the main valve and arms `ign3` (and, on Luna, the
`gitvc` pulses); `ign3`'s visit ends the burn. A reading of the chamber pressure
out of range, more than a second into the burn, closes everything
(`worker_visitor.cpp:129-145`).

### What is hard

* Commands arrive between any two steps of the worker, also between the items
  one scan enqueues; a due item is visited later than it was due, possibly after
  the state that made it due has gone.
* A second ignition, an abort and the shutoff do not disarm everything a burn
  has armed.
* An unknown byte goes back on the queue as `wq_none`, which scans the timers
  although the queue is not empty, so items may be queued twice.
* Reading commands and sending telemetry share one queue and one thread; a read
  is queued only when that queue is found empty, and writes may block.
* The connection may be closed, reset or stall at any point; `connected` is
  shared between the threads without synchronisation and is not initialised.
* Telemetry is read from a circular buffer that is being written.
* The queues' waits and wake-ups: a notification between a test and a wait.
* Any `exit` runs `initialize_pins` while the other thread goes on; SIGPIPE ends
  the process without it, and the next process finds the pins as they were left.
* Configured times are multiplied in an `int`, and compared before or after.
* A converter's 12 bits arrive shifted, in the other byte order, among undefined bits.

`PROJECT.json` lists these under "hazards", each at its line, with the
properties aimed at it.

### What makes each part correct

* Burn sequence: whatever the sequence turned on has a timer running that turns
  it off; the igniter leads the main valve; the configured times are kept; a
  shutoff is final; an ignition starts and ends; an abort is executed.
* Network thread: commands are forwarded in order, once, without a gap; reads do
  not pile up and are not forgotten; a base station that calls again is accepted,
  also one that calls before the end of the last connection is noticed.
* Queues: every call is one atomic operation on a FIFO queue; no wake-up is lost.
* Buffers: what is sent is what was written, in order and once.
* Start-up and end: an accepted configuration is timed as it says; outputs are
  off at the start and after `exit`.
* ADC: the value returned is the value of the channel that was asked for.

## 2. Modules

| Module | Models |
|---|---|
| `WorkerVisitor` | `main_worker`'s loop, the timed item list, `worker_visitor`; the environment of the worker: clock and network thread |
| `LunaVisitor` | extends it with `luna_visitor`; next-state relation, Luna's properties |
| `TitanVisitor` | the same for `titan_visitor` |
| `ExitHandler` | extends `LunaVisitor`: composition of the running worker thread with `exit` and SIGPIPE on the network thread |
| `NetworkWorker` | `network_worker` and `main_network_worker::process_nqi`; the station, the sockets and the worker thread are its environment |
| `FifoQueue` | the abstract queue: what `safe_queue` promises |
| `SafeQueue` | `safe_queue` statement by statement; implements `FifoQueue` |
| `Telemetry` | one sensor's `circular_buffer`, written by the worker and read by both threads; the log file; the send items |
| `AdcBlock` | `adc_block`: chip select, command byte, reply, decoding |
| `Startup` | extends `AdcBlock`: `main` up to the start of the threads, then the worker's sensor readings |
| `ThreadedAdcTest` | both threads of `threaded_adc_test.cpp` |
| `MCLuna`, `MCTitan`, `MCExit`, `MCNetwork`, `MCQueue`, `MCTelemetry`, `MCStartup`, `MCAdcTest` | instances for TLC |
| `WorkerVisitorProofs` | lemmas about the base visitor that both engines' proofs use |
| `LunaVisitorProofs`, `TitanVisitorProofs`, `TelemetryProofs`, `ThreadedAdcTestProofs`, `SafeQueueProofs`, `NetworkWorkerProofs`, `StartupProofs` | theorems, checked by TLAPS |

Definitions whose comment begins with "Mutant" are plausible mistakes. They are not
part of any specification; `PROJECT.json` names the property each of them breaks.

### WorkerVisitor, LunaVisitor, TitanVisitor

Every visit of a work queue item is one action: the worker thread is the only
writer of the pins, the timers and the burn flags, and the network thread
touches only `qw`, `qn` and `connected`, so the only points where another thread
can be seen are the queue operations, each of which is atomic (`SafeQueue`).
The exception is `check_ti_list`, which performs one `enqueue` per due item: it is
modelled as `visitNone` (take the time, determine the due items; only the worker
could change the outcome) and one `check_ti_list` step per enqueued item, in the
order of `tis`. Commands get in between.

* `qw` is the work queue. Items are records of an action and an argument.
* `enabled`, `age`, `time_delay` are the timed items. Timestamps are kept as
  ages, `get_time() - scheduled`, that saturate at `AgeCap`, which exceeds every
  delay; two ages above every delay are not told apart by the code. Time starts
  at 0 because `main` calls `set_base_time`.
* `pins` holds pin levels; `driver` is a history variable, the writer of a pin's
  current level (`operator`, `sequence`, `shutoff`, `init`). The properties use
  it to tell a valve the operator opened by hand, which nothing is obliged to
  close, from one the sequence opened.
* `burn_on`, `burn_age` are `burn_on` and `get_time() - start_time_nitr`; `lit_age`
  is a history variable, the time since the igniter was lit, so that `BurnTiming`
  measures the sequence with clocks other than the timers that drive it.
* Sensor readings are inputs. A pressure average out of range may be seen at any
  `pt_comb` reading (`shutoff_possible`), which covers every series of readings.
* `qn`, `send_age` keep the decision of `visitTimed` to send; the bytes are
  left out. `connected` starts as any boolean.
* `sent` counts commands received, for the bounds and for the properties that
  speak of a single burn.

Titan's `VENT` and `TANK` are Luna's water and GITVC pins (`pins.hpp:24-25`).

### ExitHandler

A failing `poll` or socket call makes the network thread call `exit(1)`, and
`exit` calls `initialize_pins` there (`exit_called`, one `exit_handler` step per
write, `exit_done`). The worker thread takes its steps until the process is
gone. The select pins of the converters, which the handler also writes, are not
state of this module.

### NetworkWorker

One action per outcome of a loop iteration. `pc` marks where the thread can be
while others move: at `qn.poll`, in `accept`, in the rest of `open_connection`
(`connfd_tcp` is set, `connected` is not yet, and the worker thread may read it), in
the `nq_none` case, before the write of the header and before the write of the data. A byte
is `<<connection, position>>`. A station may send, stop reading, close and reset;
one may call at any time, also while the end of the last connection is not noticed yet, and
keeps trying, since the port is open during `accept` only. `Faults` names system calls that may fail: a failing `poll` or
`listen` ends the process by `exit(1)`, a failing `accept` only prints a message
and sets `connected` anyway. `connected` and `has_acked` start as any boolean:
the constructor does not initialise them. `write_socket` blocks while the send
buffer is full and kills the process on a connection that was reset; both are
what `write(2)` does on a blocking socket with SIGPIPE at its default. The kernel
reports a reset once, as the error of a read or a write, before reads see the end of
file and writes the signal (`station = "dead"`). With
`Server.Protocol` set to UDP a second socket is connected, which may fail, and
the data goes there. `timeout` is chosen once, from `Timeouts`; the controller
uses 0.

### SafeQueue and FifoQueue

Each thread is in at most one call; `pc` is the statement it is about to execute.
`test` is the call of `empty()`, together with the release of the mutex by `c.wait`
where the queue is empty, since the wait is atomic with the release. Waiting
threads are woken by `notify_one`, which picks any of them, or for no reason
(`wake_spuriously`).

The abstract queue has three steps per call: the call, the effect, the return.
The refinement mapping places the effect of `enqueue` at `push`, that of
`dequeue` at `pop`, and that of `poll` at `pop` or at the test that finds the queue empty.
`phase_bar` says so; `val_bar` hides the local `val` between `front` and `pop`,
where it is ahead of the effect. `items`, `kind` are `q`, `kind` themselves.

### Telemetry

Byte number `k` of a sensor's stream is modelled by `k`, so a byte read from the
wrong place shows. `add_data` is two actions per piece, the `memcpy` and the
addition to `bytes_written`, because the network thread can run in between; a
mixture of old and new bytes within one `memcpy` adds nothing, since the
properties speak of single bytes. `write_data` is one action per `write(2)`, used
by both threads (`logging`, `sending`); a socket may take any part of a piece. The
report of overwritten bytes has no effect on the data and is left out. Counters
are kept modulo `SizeRange`; `total` is the same count unreduced. Whether
`connected` was true when an item was made is a free choice.

### AdcBlock and Startup

`main` is one action per step that can fail or whose result a later step uses:
arguments, `init_config`, the conversion to microseconds, the three range checks,
`bcm2835_init`, the pins, SPI, `atexit`, `register_pin`, the two test reads. A
configuration file is a function on the options it sets, of which those `main` computes
with and the required ones are kept; an absent one has no value, and boost's refusals end in `std::terminate`. Products wrap as on the
controller's build. Pins are numbers, because two names share a pin
(`VALVE_3` and `IGN_START`), and a sequence of writes leaves each pin at its last
write (`after`). Bytes and bits of a reply are numbers: shifts, masks and the byte
swap are `\div`, `%` and products. What the converter answers to a command is
external, from its use in `read_item`.

### ThreadedAdcTest

The program's own threads. The buffer is counted in readings, which decides when an
`nq_send` is made; what it sends is left out. The result of `read` is not tested: at the
end of the connection (`recv_eof`) the old byte in `c` is taken for a command again.
The history variable `wanted` changes only with a byte that was read from the socket.

## 3. Runs

Passing:

| Run | Bounds | Shows |
|---|---|---|
| `luna_safety` | any 3 commands, two ignitions and two unknown bytes among the choices; two GITVC pulses; one sensor (`pt_comb`); preignition 1, hotflow 3, grace 1, `AgeCap` 4 | `MainValveAccounted`, `IgniterAccounted`, `GitvcAccounted`, `BurnHasDeadline`, `IgniterLeadsMain`, `TimedMultiplicity`, `BurnTiming`, `ShutoffSticks`, `TypeOK` |
| `luna_live` | one ignition, one abort, one unknown byte | `MainCloses`, `IgnitionCompletes`, `AbortServed` |
| `titan_burn` | any 3 of two ignitions, abort, main valve, `fill`, `def`, unknown byte | deadline, igniter and default position on Titan; `IgniterOff`, `AbortServed` |
| `network` | 3 connections of 2 bytes over TCP or UDP, `qn` up to 3, timeouts 0 and 3, all faults | `OneRecvQueued`, `CommandsInOrder`, `DrainedMeansReading`, `CallerAccepted`, `TypeOK` |
| `telemetry` | 6 readings of 4 bytes, buffers of 6 and 8 bytes, counters modulo 16 | `WindowIntact`, `LogExact`, `SentIntact`, `WireInOrder`, `TypeOK` |
| `safe_queue` | 3 threads, 5 calls, 3 items of which one is the null item, spurious wake-ups | `ImplementsFifo`, `NoLostWakeup`, `CallsReturn`, `TypeOK` |
| `startup` | 1358 configuration files around every limit and without each option, both engines, three states of the pins, every bit of a reading | `TimesExact`, `ExitRestores`, `ReadingExact`, `TypeOK` |
| `adc_test` | 4 bytes, 9 readings in sends of 2, `qw` up to 2 | `ModeFollows`, `StopHeeded` |

Why the bounds are enough: three commands allow a burn, its restart and a third
command in every gap between their steps; longer series are not explored, and for
the properties proved below the theorems cover them. Two unknown bytes are
what it takes to queue an item twice. The hotflow is longer than preignition plus the
grace period, so a restart within a burn, a shutoff before and after the grace
period, and GITVC pulses before, at and after `ign3` all occur; the clock may
run arbitrarily far between steps. One sensor is enough because sensors other
than `pt_comb` change nothing a property reads, and the order of `tis` matters
only among the sequence items and relative to `pt_comb`. Water valve commands are
left out of `luna_safety` because no property reads that pin.

Two connections are needed for state that survives a reconnection, a third one
for a connection lost in mid-queue twice; two bytes make an order. In `telemetry`
readings split at the end of the buffer of 6, two readings fill the buffer of 8,
the writer laps the reader several times, and the counter wraps. Properties other
than `WireInOrder` hold until the counter wraps, or always when the buffer size
divides the counter's range (`NoWrap`); the controller's buffers of `12 << 17` bytes
do not divide 2^32, which a 32-bit build reaches after 37 hours of the fastest sensor.

Three threads allow two sleepers and one that wakes them, or two notifications
for one sleeper; five calls allow two enqueues for two waiting dequeues and a
poll that takes the item in between. In `startup` the `int` has 16 bits and a
millisecond ten units: TLC's own integers have 32 bits. The limits are scaled
such that products overflow in the same places, below the limit of the hotflow
time and above that of the preignition time; the theorems cover the real sizes.
In `adc_test` four bytes make start, stop, start, stop, and nine readings up to
three sends.

Deadlock is checked for the worker (Luna and Titan). The other systems may really
stop: readings and calls are used up, the network thread legitimately waits for a
caller, a process that has exited takes no step, `main` may return.

Violations, each of which states what a comment, document or test of the
repository says, with the quotation under "findings" in `PROJECT.json`:

| Run | Statement | What the code does |
|---|---|---|
| `luna_hotflow` | the hotflow has its total length | a second ignition restarts its clock with the valve open |
| `exit_race` | the exit handler leaves every output off | the worker thread goes on and may turn one on behind it |
| `network_blocks` | a full socket is not written | `!pf.revents & POLLOUT` is always 0 |
| `network_pipe` | a closed connection is survived | SIGPIPE ends the process without resetting the pins |

### Observations without a run

* An abort (`unset_ignition`) during preignition does not disarm `ign2`: the
  main valve opens afterwards with the igniter off. `IgnitionCompletes` includes
  that case.
* After two ignitions, or two unknown bytes, the sequence's order is not
  guaranteed: a second entry of `ign2` may be visited after `ign3` or after a
  shutoff. Hence the condition `SingleBurn` of `IgniterLeadsMain`, `BurnTiming`
  and `ShutoffSticks`. `MainValveAccounted` needs no such condition.
* `gitvc_count` becomes `INT_MAX` when a burn ends: later burns do not pulse. A
  burn restarted before its end uses the delay the last pulse left, not
  `gitvc_wait_time`.
* Titan's `ign2` announces "main valve on" and writes LOW. Its `ign3` writes the
  igniter only, so a preset chosen during the burn stays in force although the
  comment (`titan_visitor.cpp:87`) promises the default state.
* `connected` may be true without a connection: before the first one, because it
  is not initialised, and after a failed `accept` (`network_worker.cpp:141` says "mark
  that we are connected"). No caller is accepted from then on, hence the last conjunct of
  `CallerWaits`. For the few statements between `accept` and line 143 it is the other
  way round: there is a connection and the worker thread drops what it would send.
* Sends that keep `qn` from running empty starve the reads, and after half the
  timeout only acks are queued and nothing is read until the connection is
  closed. Hence the condition of `DrainedMeansReading` and `CallerAccepted`: the end of
  a connection, too, is noticed only by a read. No program sets a timeout.
* `add_data` overwrites bytes before it counts them; a reader that tests the
  counter in between sends new bytes for old ones. `SentIntact` speaks of readers that
  are not lapped.
* The hotflow limit is compared with milliseconds where the preignition limit is
  compared with microseconds: `Hotflow_ms` between 2147484 and 15000000 is
  accepted and `hotflow_us` wraps, possibly to a negative delay. The product of the
  preignition time may wrap, too, into the accepted range. Hence `Fits` in `TimesExact`.
* `threaded_adc_test` names the readings to send by the *end* of the stream
  (`threaded_adc_test.cpp:131`, `:211`), so it sends bytes of an older lap, newer ones or
  ones never written, and may send a reading twice.
* It takes the last byte for a command again and again after the end of the connection.
  That changes nothing (`ModeFollows`), unless no byte was ever read: then `c` is
  uninitialised (`:150`) and may be a start, against the comment at `:186-190`.

### Fairness

`WF(Worker)`: the worker's `qw.poll` returns at once, and no visit blocks. `WF` of
the clock: time passes. `WF(worker_method)` of the network thread: it blocks only
in `accept` and in `write`, where its action is disabled in the model. `SafeQueue`:
`WF` of each thread's next statement, which is disabled while another holds the
mutex; `std::mutex` is not fair, so a thread could be passed over for ever by
others that call or wake without end, and `CallsReturn` is stated for finitely
many calls and spurious wake-ups. `ThreadedAdcTest`: `WF` of both threads; `StopHeeded`
assumes besides that the station stays and reads and that `qn` runs empty from
time to time; `DrainedMeansReading` and `CallerAccepted` assume the latter, too. Nothing is assumed of the operator or of the base station
otherwise. Deadlock freedom of the worker follows, since a scan is always possible.

## 4. Proofs

Every invariant that a passing run checks is a theorem, and so is every action
property; each inductive invariant below was first checked by TLC on the instance of
the run. The proofs are for every value of the constants.

**`WorkerVisitorProofs`** has what Luna and Titan share: the types and the deadline
under the base visitor's steps, and how often an item is queued (`MultiplicityInv`).
Its lemmas speak of `workerVars` and of the base actions, so that an engine's proof only adds
its own `ign2`, `ign3` and `gitvc`.

`TimedMultiplicity` allows an item one copy in the queue, or as many as unknown bytes
were received, because a `wq_none` scans a queue that is not empty. By itself it is not
inductive: the next scan could add a copy without a new unknown byte.
`MultiplicityInv` counts the unknown bytes whose `wq_none` was already visited, and says
that an item has no more copies than that, or is single and stands ahead of every
`wq_none` in the queue; then it will be visited before the scan that would double it.

**`LunaVisitorProofs`**, for every set of sensors, all delays, every list of
GITVC pulses and every bound on commands:

* `TypeCorrect`: `TypeOK` always holds. This contains that `gitvc_times` is never
  read out of range and that `gitvc_count`, set to `INT_MAX`, is never
  incremented beyond it.
* `MainValveSafe`: `MainValveAccounted` always holds; `BurnDeadline`: so does
  `BurnHasDeadline`.
* `IgniterSafe`, `GitvcSafe`: `IgniterAccounted` and `GitvcAccounted` always hold.

`MainValveAccounted` is not inductive: an open valve says nothing about the delay
`ign3` will be armed with, and a step that opens the valve finds a timer whose
delay was set long before. The invariant is `DeadlineInv`: the types, the fact
that `ign3`'s delay always equals `hotflow_us` (each ignition writes the same
value), that a valve opened by the sequence implies `burn_on`, and that `burn_on`
implies `ign3` armed with the same age as the burn. The proof has a step per
action. `IgniterAccounted` and `GitvcAccounted` are inductive together with the
types (`TimersArmed`).

* `QueuedOnce`: `TimedMultiplicity` always holds.
* `IgniterLeads` (`IgniterLeadsMain`), `BurnTimed` (`BurnTiming`) and `ShutoffHolds`
  (`ShutoffSticks`), which speak of a single burn.

These need to know that an item in the queue is one that is still meant:
`BurnInv` adds to `DeadlineInv` and `MultiplicityInv` the clocks (`ClockInv`: `ign2`'s
age is the time since the igniter was lit, `ign3`'s the time since the valve opened) and, as
long as one ignition and at most one unknown byte were received, `SingleInv`:
nothing is armed before the ignition is carried out, `ign2` and `ign3` are never
armed together, a queued `ign2` or `ign3` is enabled and due (at most one copy exists, so
its visit consumes it), after the shutoff `ign2` is not armed, and the igniter is on
from `ign1` on. Dropping the multiplicity makes `QueuedIsDue` false, which is the second
entry of `ign2` described under "Observations".

**`TitanVisitorProofs`**, for the same constants: `TypeCorrect`, `BurnDeadline`
(`BurnHasDeadline`), `IgniterSafe` (`IgniterAccounted`), `DefaultSafe`
(`DefaultUnlessOperator`), `QueuedOnce` (`TimedMultiplicity`). `DefaultUnlessOperator` is
strengthened to each valve by itself (`EachAtDefault`): a command writes only
some of them. The rest follows Luna's argument.

**`TelemetryProofs`**, for every size of the buffer, of a reading and of `size_t`
and any number of readings: `TypeCorrect`, `WindowSafe` (`WindowIntact`), `LogSafe`
(`LogExact`), `SentSafe` (`SentIntact`), `WireOrdered` (`WireInOrder`).

`StreamInv` relates the wrapping counters to true positions. `CounterInv`: each counter is
its position modulo `SizeRange`, what is pending fits into the buffer with
the reading being added, and readings are whole. Hence the unsigned difference of
two counters is their distance although each may have wrapped (`ModDistance`).
`WindowIntact` is inductive relative to it: a piece that is copied stays below the end of the
buffer, so its bytes have consecutive places (`ModConsecutive`), and no byte that is to
survive has one of them (`ModDistinct`); a place found through a wrapped counter is right
if the size divides the range or the counter has not wrapped (`Slot`). `LogInv` and `WireInv`
place the cursors: a cursor's offset is its position modulo `SizeRange` and it ends at
or before what was handed out; what is written, being written and queued is in order
without overlap. The remainder lemmas at the head of the module are proved from division with
remainder.

**`ThreadedAdcTestProofs`**, for every number of readings per send and all bounds:
`ModeSafe` (`ModeFollows`). The invariant adds `LastByte`: once a byte was read, a
start or stop byte in `c` is the one that is wanted, so that acting on it again asks for
nothing new. Without it a repetition could undo a later command.

**`SafeQueueProofs`**, for every finite set of threads, every set of items and
every number of calls:

* `TypeCorrect`.
* `Refinement`: `Spec => ImplementsFifo`, the whole refinement apart from fairness.
* `WakeupSafe`: `NoLostWakeup` always holds.

The invariant adds to the types `MutexInv` (a thread is at a critical statement
exactly if it holds the mutex), `KindInv` (the operation fits the statement) and
`ValInv` (the local `val` is untouched until `front`, and is the head of the queue
between `front` and `pop`). Without the last part `pop` could not be mapped to the
abstract step, which takes the head. `NoLostWakeup` is inductive relative to it; its
proof counts the sets of takers and notifiers as single threads enter and leave them.

**`NetworkWorkerProofs`**, for any number of connections and bytes and any timeouts:

* `TypeCorrect`, `OneRecv` (`OneRecvQueued`), `CommandOrder` (`CommandsInOrder`).

`CommandsInOrder` speaks of bytes already forwarded; that the next one continues them
needs `InboxInv` (the unread bytes are the last ones sent, in order) and
`ForwardInv` (the bytes of this connection that are no longer in the socket end the
forwarded ones), and these need `SocketInv`: without a connection there is
nothing unread, and the thread does not call `accept` with one, which is why the flag
must be right everywhere but in `open_connection`. `RecvInv` says besides that no `nq_recv` is queued where the thread
makes a new one. The proof treats the Boolean part of the types (`Flags`) apart from the
rest (`Data`), because different provers do well on them.

**`StartupProofs`**, for every configuration file, width of `int`, unit and limit,
all pin levels and every value measured:

* `TypeCorrect`, `TimesCorrect` (`TimesExact`), `ExitCorrect` (`ExitRestores`),
  `ReadingCorrect` (`ReadingExact`).

The invariant records what `main` has established by each stage: the conversion and
the checks as the code makes them (`TimesInv`), the levels after `initialize_pins`
(`PinsInv`). `FitsExact` shows that a product that fits is not wrapped, `AllOff` that
both engines' functions end in the same levels whatever they found, `DecodeExact`
that shift, mask and byte swap reassemble the 4, 2 and 6 bits of a value.

Assumptions, all named in the modules: delays and bounds are naturals, `AgeCap`
exceeds every delay (so saturation is not observable), the sensor names are those
of `timed_item_list`, `gitvc_times` is no longer than an `int` can count; the
commands are those that the engine's visitor or the base visitor has a case for, the ignition and one
that stands for unknown bytes, and include the ignition, the abort and the unknown byte
(`CommandAssumption`, `LunaCommandAssumption`, `TitanCommandAssumption`); a buffer holds at
least one reading and its size is less than the range of `size_t`; the set of threads is
finite and the null item is an item; options have integer values and converters
measure 12 bits.

Only model-checked: the liveness properties (`MainCloses`, `IgnitionCompletes`,
`AbortServed`, `IgniterOff`, `DrainedMeansReading`, `CallerAccepted`, `CallsReturn`,
`StopHeeded`), because fairness and ENABLED are outside the prover's reach. The four
violations are counterexamples of TLC.

## 5. Not modelled

* The contents of messages and text logs; the averaging of the pressure, of which every outcome
  is allowed; the logger.
* `copy_data`, `zero` and the report of overwritten bytes in `circular_buffer`;
  `rwrite` and `prepare_header`: no caller, or output only.
* A clock that steps back: `gettimeofday` is taken to be monotonic.
* The counter and echo servers. Their directories are commented out of the build, and they no
  longer fit the code they use: `network_counter_worker` names a member `connfd` that
  `network_worker` does not have, and the echo server does not link the
  configuration that `open_connection` reads. There is no program to be faithful to.
* `udp_test`, the other ADC and SPI examples: sequential demonstrations of library calls.
  `network_visitor.hpp`: an interface nobody implements.

`PROJECT.json` gives the reason for each component.

## 6. Plan

Done: the worker thread with both engines, the network thread, the queues with
their refinement, telemetry, start-up, ADC access, the end of the process, the threaded ADC
test, and proofs of every invariant and action property. Next, in this order:

1. An abstract burn (idle, lit, burning, closed) that `LunaVisitor` implements in a
   single burn, as a refinement; its step simulation follows from `BurnInv`.
2. The safety part of the liveness properties: what is enabled while they are pending.
3. `EngineController`: composition of `LunaVisitor` and `NetworkWorker` through
   both queues.
