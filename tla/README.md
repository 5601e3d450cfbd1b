# A TLA+ model of streamio

streamio moves sample streams between Linux programs and the PL of an FPGA
board. This directory models it in TLA+, checks the models with TLC on small
instances and proves the safety properties with TLAPS for every instance. `PROJECT.json` lists components, runs, mutants, the map from
definitions to source lines, findings, hazards and theorems.

## 1. The system

| Component | Source | State | Operations |
|---|---|---|---|
| DMA proxy driver | `driver/stream_dma/streamio-drv.c` | per channel: `bdindex`, buffer statuses (in memory shared with the program), completions, cookies, `wait_transfer_count` | open, release, ioctl START/FINISH/XFER, poll, interrupt, DMA callback, probe/remove |
| Local backend | `lib/bbio/src/bbio_backend_local.c`, `lib/buffer` | `current_buffer_id`, the mapped ring | get buffer, submit, sync, open, close; register read/write |
| Device contexts | `lib/bbio/src/bbio_core.c`, `bbio_utils.c` | list of devices, descriptors, mappings | create, add device, close |
| Network backend | `lib/bbio/src/bbio_net_core.c`, `bbio_backend_net.c` | sockets, `handshaked`, `remain_recv_size` | create context, open device, register and stream calls |
| Thread pool | `userspace/io_backend/src/thpool.c` | job queue, binary semaphore, counters | init, add work, wait, destroy, pause/resume |
| Context server | `userspace/io_backend/src/io_backend.c` | `opened_ctx_list`, connections | accept, start_task, handle_context |
| Device handlers of the server | `io_backend.c`, `io_backend_call.c` | a device per connection | handshake, register and stream commands |
| AXI register driver | `driver/axi_ctrl/streamio-ctrl-drv.c` | registers, position per open file | read, write, llseek, mmap |

How they interact. A program calls the library; the library's local backend
makes ioctl calls on the driver and reads the buffer statuses the driver writes
into shared memory; the driver drives the kernel's DMA engine, which answers
from a tasklet; the PL raises an interrupt that select waits for. On a PC the
library talks to io_backend through sockets; io_backend accepts connections in
one thread and serves each in a worker of the pool, with the local backend
underneath.

What is hard. A system call is several steps with the DMA engine, other threads
and other openers in between; waits expire or are interrupted while the
transfer goes on; the process may die with transfers running; `bdindex` and
`opened_ctx_list` are shared without a lock; the semaphore of the pool is one
bit; sockets end in the middle of a frame. The hazards are listed one by one,
each with its line, in `PROJECT.json`.

What makes the parts correct:

- stream channel: a buffer is never used by program and engine at once; the
  status word tells the truth; frames keep their order; a sync waits for
  everything; select wakes for every packet; calls return;
- pool: no lost wake-up, each job once and in order, wait and destroy wait;
- context server: every client gets a context of its own, nobody keeps a worker;
- contexts: handles stay valid, closing gives everything back;
- network devices: a register read sees the writes before it, samples and frames
  arrive in order and once, the handler ends with its client;
- probe and removal: a finished channel is safe to use, removal leaves nothing;
- register driver: a call covers the registers asked for and reaches the right device.

## 2. The modules

- `FrameStream` – abstract: a bounded FIFO of frames.
- `StreamDma` – one channel with driver, engine, library ring and application
  threads; implements `FrameStream`.
- `ThreadPool` – the pool.
- `ContextServer` – accept loop, workers, `opened_ctx_list` and clients.
- `DeviceContext` – contexts, descriptors and mappings of one process.
- `NetDevice` – one connection to a remote device: the library's network
  backend, the server's handlers and the devices behind them.
- `DriverProbe` – probe and removal of the DMA proxy driver, with programs and
  interrupts between their steps.
- `AxiCtrl` – the register driver: probe, removal and file operations.
- `StreamDmaProofs` and, for the frames that cross a channel,
  `StreamDmaFrameProofs`; `ThreadPoolProofs`, `ContextServerProofs`,
  `DeviceContextProofs`, `NetDeviceProofs`, `DriverProbeProofs`, `AxiCtrlProofs` –
  the theorems about the modules they are named after.

The models have small constants of their own, so a configuration file is all a
run needs; there are no separate MC modules. The definitions that no action
uses (`FreeButForQueued`, `NoSignal`, ...) stand directly before the definition
of which they are a faulty variant; they are the mutants that show that a
property can fail.

### StreamDma

Variables: `handle`, `opens`, `cur` (the library), `others` (files other programs
have open), `bdindex`, `status`, `done`, `cookie`, `waitCount` (the driver's
channel), `last`, `issued`, `completed`, `queued`, `finished` (the DMA engine,
external), `data`, `wire`, `avail`, `irqs`, `log`, `asked` (PL, contents and what a
reader asked for), and for each thread `pc`, `call`, `arg`, `bd`, `res`, `held`.
`wire` and `log` are histories of the session; `cleared`, `merged` and `refused`
remember the three events after which the code no longer does what it should.

A library call runs through several places: `user` → `start` → `submitted` for
START_XFER (`StartTransfer`, `IssuePending`), `finish` → `waiting` → `woken` →
`checked` for FINISH_XFER (`WaitBegin`, `WaitReturn`, `WaitCheck`,
`WaitStore`), XFER both. `bdindex` is read anew by `StartTransfer` and by
`WaitBegin`, as in the code. `GetReturn` and `SyncNext` are the library's code
after its ioctl. `GetReturn` hands out the buffer with whatever it holds: after a
refused descriptor (`StartFails`, whose ioctl result the library ignores) that is
the frame it held before, and a reader takes it for a new one. `Open` includes
`local_open`, which terminates the engine's transfers and clears the statuses;
`Release` does not terminate them; `Close` does not even reach `release`, since the
buffers stay mapped. Other programs open (`ForeignOpen`) and close (`ForeignClose`)
the same file at any time: the close clears every status while this program's
transfers run on. The interrupt is edge-triggered, so at most one is pending
(`irqs`), and a packet that comes meanwhile adds no credit (`merged`).

Assumptions on the environment: a thread holds at most one buffer it got and
submits only that one; it touches the contents of no other; other programs make no
transfers; the engine runs the issued descriptors in order and completes each at
most once; an engine stopped by `device_terminate_all` completes nothing more, but
a callback may still be on its way (`latecallback`). Which disturbances happen is
the constant `Faults`.

### ThreadPool

`main` is where the owner of the pool is, `pc` where each worker is in
`thread_do`; `v` is the semaphore, `alive` and `working` the counters. A step is
what a thread does under one mutex; the last section of a worker is split
(`Exit`, `Unlock`) because `thpool_destroy` reads the counter without the lock.
The counters are read without a lock in `AnyAlive` and `InitDone`, as in the
code. The one-second phase and the polling phase of destroy are one action,
`PostAll`. Spurious wake-ups are allowed.

### ContextServer

A socket is a sequence of 32-bit words; `recv` takes at most as many as its
buffer holds, and a field that has not arrived may hold any word: the code
reads it uninitialised. `Peek` is the first `recv` with MSG_PEEK, `Recv` the one
in the loop, `Scan` one turn of the loop over the slots, `Send` the answer,
`Store` the assignment after it, `CloseContext` the other branch. `told` and `given`
are the ids a client was answered and the contexts made for them; `contested` are
the slots that two workers found empty before either stored. `Sigint` either ends the
process (accept fails and `error` exits) or, when a connection has just been
accepted, lets the loop end at its test of `stop`: then the server is `stopping`,
`thpool_wait` waits for every worker, and `ServerReturns` is the end of `server_main`.
A client's `recv` tells a negative result (`Fails`) from the end of the stream,
after which the id is uninitialised. The pool is a
queue of jobs with workers that take the oldest, which is what `InOrderOnce` and
`JobsFinish` of `ThreadPool` justify. `SendClose` has no counterpart in the
library at this commit (`io_post_context_close_net` is unfinished); it is the
message `handle_context` expects. A send to a client that went away may also
raise SIGPIPE, which ends the server; that is not modelled separately from
`Sigint`. Closed contexts stay in their slots, as in the code.

### DeviceContext

Contexts of one process with their lists, the open descriptors and the
mappings. `io_append_device`'s refusal leaves the descriptor open
(`AppendDevice`), a failed open kills the process (`AddCrashes`: the NULL is
written through; the kernel cleans up and the program may start again), a
closed stream device leaves its mapping (`CloseStreamLocal`), so the driver keeps its
file open until the process ends, although `src/userspace/README.md:356` says that
`io_close_context` closes all open devices; `streams` counts the stream devices opened,
and DescriptorsAccounted says that as many are mapped. A failing mmap is not modelled:
it returns MAP_FAILED, the code tests for NULL or not at all.

### NetDevice

`kind` is the device the connection is for: `mapped`, `tx` (a stream that is
written) or `rx` (one that is read). `cpc` and `spc` are the places of client
and server; `up` and `down` are the two directions of the connection, sequences
of units: a field of a message, or one sample. `line` is the server's end: `up`, `fin`
(the client closed it), `rst` (closed with data unread or data sent to a closed
socket), `dead` (the reset has been reported once), `closed` (the server's SIGINT
handler closed the descriptor). `regs` are the registers,
`buf` the buffer being filled, `stream` what was given to the transmit device,
`ring`, `cur` and `packets` the receive device; `shadow`, `last`, `wrote`, `got`
are what the client did and saw.

The client's calls are one action per send or recv (`WriteNet`, `CallAddr`,
`CallValue`, ...); `WriteStreamNet` is one writev. The server's `ReceivePiece`
takes any number of samples that have arrived, so frames are cut everywhere;
`ReceiveError` is the recv that fails, whose negative result counts as data in
an unsigned variable, so that a buffer nobody filled is submitted; `WriteAck` is
the byte after each frame and the only place where a dead connection is noticed.
`ReadSend` sends the first `FrameSize` samples of the packet the ring's buffer
received a round ago (in the code 1024*2 of 32*1024) and `ReadStart` submits the
buffer again: the rest of a packet longer than a frame is dropped, a shorter one is
followed by what memory held (`InPacket`). `GetBuffer` may yield no buffer after a timeout. `io_sync_stream` of
the network backend does nothing, since the basic read never leaves a rest.

`Sigint` sets `stop` and closes the connection under the handler, in the middle of
whatever it does. `client_mapped_channel` sees `stop` at its loop test; the stream
handlers do not look at it and go on with a descriptor on which every recv and send
fails, which is where the unsigned `recv_size` wraps round (`SizeModulus`). A writev
the signal interrupts has sent part of a frame. On the client `CallUnanswered` is the
recv whose result `io_read_net` does not look at, and `ReadForever` the loop that
recv()==0 never ends.

Assumptions: a field of a few bytes arrives whole; the client's frames divide the
server's buffer (with other sizes the handler writes beyond it); a stream is used
in one direction. `server_main` does not call the handlers at this commit: its
dispatcher by handshake is in a comment, and `start_task` takes every connection
for a context. The model is of the handlers as that comment runs them, one
process per connection.

### DriverProbe

`state`, `i` and `place` are where probe or remove of a device is; `chan`,
`cdev`, `node`, `table`, `irq`, `queue` are the parts a channel has already;
`class` and `total` are shared by all devices. An error returned by probe makes
the kernel free what is managed (`Fail`): the channels' memory, buffers and
interrupts, while DMA channels, character devices and nodes stay. `CreateNode`'s
second branch is `init_error3`, which destroys the class and returns 0. `bad`
collects the channels on which a program, an interrupt or the driver itself used
something that is not there. Devices are removed when the module is unloaded,
which its open files prevent; unbinding through sysfs is not modelled.

### AxiCtrl

One `dev_data` (`regs`, `cdev`, `class`) for all devices; each probe overwrites it
(`MapRegisters`), and the second one fails at `class_create`, because the class
has one name. read and write are `Begin`, one action per register, and `Finish`.
The position moves in `Finish` only for pread and pwrite: the kernel's read and
write store back the position they passed, which the driver does not change.
`seen` is what each register has held since a call began. `Llseek` may set any
position up to the bound, which an unknown `whence` with its uninitialised `newpos`
does too. `bad` records the use of something that is not there: `twice`, the class
that `cdevice_exit` destroys after it has unregistered it, at every removal (the
behaviour goes on, since the kernel only looks the class up); `stale`, registers,
class or number of another device or of none; `nomem`, the buffer of a size kzalloc
refused, which the code does not check. After the last two anything may follow, so the
behaviour ends there. That every access stays within registers and buffer restates the
loop's bound and is not listed as a property; the length of a mapping, which
`simple_mmap` does not limit, is not modelled.

## 3. The runs

| Run | Checks | Instance |
|---|---|---|
| DmaStatus | TypeOK, StatusTruth: a buffer marked `PROXY_NO_ERROR` is not with the engine, unless another program's close cleared the mark | 2 buffers, 1 thread, 3 opens, timeout, signal, late callback, other programs opening and closing |
| DmaTx | SyncComplete, IsFrameStream, FramesDelivered: a sync waits for everything, frames arrive once and in order, what is submitted is delivered | 3 buffers, 5 transfers, nothing fails, fairness |
| DmaRx | Ownership, NoSpuriousError, CreditsCoverPackets, StreamUntilRefused, CallsReturn: program and engine never use a buffer at once, no wait reports an error for a transfer that completes, every packet that is not finished leaves select a credit but for one per merged edge, frames keep their order until a descriptor is refused, no call hangs | 2 buffers, 1 thread, 2 opens, 3 transfers, 2 packets, timeout, 1 refused descriptor per session, fairness |
| ThreadPool | TypeOK, NoLostWakeup, InOrderOnce, WaitMeansDone, DestroyWaitsForJobs, JobsFinish, WaitReturns, DestroyReturns | 3 workers, 3 jobs, fairness |
| CtxServer | TypeOK, OwnContextInSlot, WorkersReturn, ClientsAnswered, StopEnds: a slot a client was told of holds the very context made for it, or that context was closed, or two workers contested the slot; workers get free, clients are answered, and a stopped server ends once its clients are gone | 2 clients, 2 workers, 3 slots, 1 close frame, disconnect, failing sends, SIGINT, fairness |
| DevContext | TypeOK, HandlesAreOwned, DescriptorsAccounted: every handle has an open descriptor of its own; there are as many descriptors as listed devices and devices that a full list refused, and every stream device ever opened is mapped | 2 contexts, MAX_DEVICE = 4 |
| NetDevice | TypeOK, ReadsSeeWrites, TxFaithful, RxInOrder, TaskEnds, NetCallsReturn | each kind of device, frames of 2, packets of 3 and buffers of 4 samples, a ring of 2, sizes modulo 5, 4 register calls or 9 frames, 6 units per direction, killed clients, failing opens, timeouts, SIGINT at the server, fairness |
| DriverProbe | TypeOK, ClassCoversNodes, UnloadLeavesNothing, BadUseOnlyWhileExposed | 2 devices with 0 to 2 channels, every step may fail |
| AxiCtrl | TypeOK, CallsFromStartComplete, StaleOnlyWithTwoDevices | 2 devices, 2 registers, one file with read and write and one that only maps, every step may fail |

Three runs show where the code does not do what its comments or documents say;
each is a finding in `PROJECT.json` with the text quoted:
`DmaSignal` (a signal in FINISH_XFER and the buffer is handed out while in
flight), `DmaPollStale` (credits outlive the session), `CtxRace` (two clients get
one context id).

The instances stay inside what the code supports, and these limits belong to
what the passing runs show. `bdindex` belongs to the channel, so two threads that
share one make the driver wait for the other's buffer: all passing runs of
StreamDma have one thread. A sync goes on after an expired wait, so
SyncComplete holds only where waits do not expire. One `io_create_net_context`
is read twice by the server (MSG_PEEK, then `recv`) and takes two slots. The
fifth device of a context is opened and never closed, and a closed stream device
stays mapped; DescriptorsAccounted says exactly which descriptors and mappings remain.
`thpool_destroy` may free the pool while one worker is at its last unlock;
DestroyWaitsForJobs says that it is at most one, and nowhere else.

Several properties name the cases in which the code does break, and say that these
are the only ones. StatusTruth excepts a buffer whose status the release of another
program's file cleared (`cleared`) until the driver stores it again, and the moment
between submission and `PROXY_QUEUED` (`Submitting`). CreditsCoverPackets excepts one
packet per edge that merged with a pending one (`merged`), StreamUntilRefused what
follows a refused descriptor in the same session. OwnContextInSlot excepts a slot two
workers found empty at once, which `CtxRace` shows. NetCallsReturn excepts a client in
a frame when the server was interrupted, whose loop on recv()==0 never ends, and the
deadlock of both ends in send (`BothSending`): a server that serves a writing client
sends a byte per frame that the client never reads, and with 9 frames and 6 units per
direction the run reaches it. ReadsSeeWrites excepts a read whose recv failed, which
returns an uninitialised value, and says that this needs a server that ended or was
interrupted. TxFaithful allows one buffer of samples nobody wrote at the end of the
stream, because the handler submits one after a failing recv, and more only after the
interrupt. BadUseOnlyWhileExposed excepts a channel that is just being created, one
without interrupt, a device whose probe failed and the time after `device_create`
failed.

Bounds. Two buffers are enough for every order of two transfers on one buffer
and across buffers; three distinguish the ring's order from a swap.
`MaxTransfers` exceeds `BufferCount`, so the ring wraps and buffers are reused;
`MaxOpens = 2` lets one session's leftovers meet the next. Three workers and three
jobs let a post be lost while another worker is between wake-up and test, with
jobs left. Two clients and two workers suffice for each race on a slot; each
client's open takes two slots, so three slots fill up. The contexts' instance uses the real
MAX_DEVICE and goes one beyond it. In NetDevice nine
frames fill four buffers, or go four times round the ring, fill both directions of the
connection (`Window`), and let it end in each place of a frame; a packet is longer than
a frame and shorter than a buffer, so that its rest can be seen to be dropped, and the
modulus 5 is the smallest that lets the size of a frame grow and wrap. Four register
calls order every pair of writes and reads. Two
devices with two channels are enough for a failed probe to leave an earlier
channel and for the last channel of all to differ from the last of a device. In
AxiCtrl two registers of two bytes, requests of 3, 4 and 6 bytes and every position up to
4 reach below, at and beyond the register file; the file that only maps may store to
any register at any time, which includes all that a second writer could do.
`MaxRefusals = 1` lets one descriptor per session be refused, so that a refusal meets
each place of the ring and the next session.
CHECK_DEADLOCK is off for these three and for ContextServer and DeviceContext:
with every client served or gone, every context closed or the module unloaded,
nothing is left to do.

Fairness (DmaTx, DmaRx, ThreadPool, CtxServer, NetDevice). StreamDma: threads inside a call
are scheduled, the engine transfers what was issued, tasklets and interrupts run;
the program is never forced to call, nor the PL to offer a packet. ThreadPool: the
owner inside a call and the workers are scheduled and jobs return. ContextServer:
server threads, the stopped server's main thread and clients inside
`io_create_net_context` are scheduled.
NetDevice: client and handler are scheduled inside their calls, and what was sent
arrives or the connection ends; nobody forces a client to call or to leave. All are
weak fairness, which a preemptive scheduler gives to a thread that stays ready.

ClientsAnswered needs as many workers as clients and two slots for each but the last, which
needs one: a worker stays with its connection, and an open takes two slots. Beyond that a
client waits forever for an answer.

## 4. The proofs

TLAPS checks these for all constants that satisfy the `ASSUME`s of the modules:
any number of buffers, workers, clients, slots, devices, channels, registers, any
frame size, any bound on the number of calls. Every invariant, every action
property and the refinement that a run checks is the statement of a theorem; the
runs show it on an instance, and also check the liveness below.

Each theorem follows from an inductive invariant; what makes it necessary is said
with it. Where a theorem has hypotheses of its own, they are named here.

**StreamDma** (`StreamDmaProofs`, `StreamDmaFrameProofs`).

- `TypeCorrect`: any number of threads, all faults. `Locals` adds what a call's
  local variables are at each of its steps.
- `StatusTruthful`, for one thread and an engine that refuses no descriptor, with
  every other fault, other programs' opens and closes included. `StatusInv` has
  `CookieInv` (queued descriptors carry distinct cookies above `completed`, none newer
  than the one recorded for their buffer) and `CheckedFree` (a wait that found its
  transfer complete has no descriptor of that buffer in flight), because the check of
  the cookie and the store of the status are two steps.
- `OwnershipHolds`, `NoSpuriousErrorHolds`, `SyncCompleteHolds`, for one thread,
  without signals, late callbacks and foreign opens (and expiring waits for the
  third). `OwnerInv` adds how many completions a buffer can have (`DoneInv`),
  what the engine still owes (`EngineInv`), that free buffers have nothing under
  way (`FreeInv`), and what the thread's place says about its buffers (`ArgInv`,
  `HandInv`, `SyncInv`).
- `CreditsSuffice` (CreditsCoverPackets), under the hypotheses of
  `OwnershipHolds`. `wait_for_transfer` spends a credit only after it consumed a
  completion, so the property itself is not inductive: `Covered` says that `avail` and
  the buffers in `Owed`, those with a completion that has yet to spend its credit, the
  one a thread has just consumed included, together stay below credits, the pending
  interrupt and the merged edges.
  `OnceInv` makes `Owed` a set and not a bag.
- `ChannelIsFrameStream` (IsFrameStream): the refinement, step by step, under the
  same hypotheses and an engine that refuses no descriptor. `StreamUntilFirstRefusal`
  (StreamUntilRefused) is the same step by step for an engine that does, from each open
  to the first refusal: a refused frame is lost, or an old one is read again. `StreamInv` says that
  frames are numbered at both ends; a writer's frames that have not crossed are
  the queued descriptors in the order of cookies (`TxInv`); a reader's frames that
  are not consumed lie in buffers in the order of the ring (`RxFrames`), followed
  by the empty buffers the engine will fill (`RxEmpty`). `Before` is the order of
  the ring as seen from `current_buffer_id`. That the FIFO never exceeds
  its capacity is a pigeonhole argument (`WindowFits`): every frame is in a buffer
  of its own and one buffer holds none.

**ThreadPool** (`ThreadPoolProofs`), for any finite set of workers.

- `NeverSleepsOnWork` (NoLostWakeup): a queued job is announced (the bit is set,
  or a worker is between taking it and pulling), and a set bit has somebody awake.
- `PoolTypeCorrect`, `JobsInOrderOnce`, `WaitIsSound`, `DestroyIsLate`. `CountInv`
  says that `working` and `alive` are the cardinalities of the sets of workers at
  certain places, and that one worker at most is at its last unlock; `JobInv` that
  the jobs taken are the oldest. Without the counters' exact meaning nothing follows
  from `thpool_wait` and `thpool_destroy`, which test counters and not workers.

**ContextServer** (`ContextServerProofs`), with every fault.

- `CtxTypeCorrect`, `AnswersAreStored` (OwnContextInSlot). A connection is in
  one place only: the listening queue, the pool's queue or one worker (`OnePlace`,
  `NewIsNowhere`, `NotYetTold`), which is why only a worker's own steps add to what its
  client has been told. `AllOwn` says that the context of each answer is in its slot, closed, lost in a
  contested slot or about to be stored; `StoringAlone` and `StoringToEmpty` that a
  worker between test and store has the slot to itself and finds it empty, unless it
  is contested.

**DeviceContext** (`DeviceContextProofs`).

- `DevTypeCorrect`, `HandlesOwnDescriptors`, `ResourcesAreAccounted`. `OwnedOnce` says
  that the places of all lists have distinct open descriptors, and `Balance` counts
  by cardinalities: what is open and not listed is as much as was refused. The
  kernel's choice of the lowest free descriptor needs the set of descriptors to
  be finite, hence `IsFiniteSet(Contexts)`.

**NetDevice** (`NetDeviceProofs`), with every fault.

- `NetTypeCorrect`, `ReadsSeeEarlierWrites`, `ReceivedInOrder`,
  `TransmittedFaithfully`. The idea of `NetInv` is to read what is under way as
  a *run* of its receiver: `Handles(k, p, u, q)` says that a receiver at p becomes q by unit u,
  and `UpInv` says that the units in `up` take the server from where it is (`Now`:
  place, parameter, registers, samples received) to where the client believes it to be
  (`Expected`). `DownInv` says the same of the client as the reader of `down`. A send
  appends a unit to a run and a recv takes one off its front, and the lemmas on
  `Run` do the rest, whatever the length of the queue and wherever recv cuts it.
  When the run is empty, the registers are what the client wrote: that is
  ReadsSeeWrites. `RingInv` says which packet each slot of the receive ring holds;
  `TxInv` that the samples of the stream are numbered (`Clean`) up to the one
  buffer nobody filled (`Spoilt`), and that frames fill a buffer exactly. The lockstep
  of opening (`OpenInv`) and of a register call (`CallInv`) is needed for the runs
  to begin anywhere. All this ends with the server's interrupt, which cuts both
  directions and makes every recv of the handler fail: the invariant is
  `NetInv \/ ClosedInv`, where `ClosedInv` keeps only what the properties need when
  `line` is `closed` (what is left in `down` is the beginning of what was sent, what the
  device gets from now on is junk, an unanswered read is excused).

**DriverProbe** (`DriverProbeProofs`), for any finite set of devices and every failure.

- `ProbeTypeCorrect`, `ClassOutlivesNodes`, `UnloadIsClean`, `SafeAfterProbe` (the
  action property BadUseOnlyWhileExposed). `TotalExact` gives `total_count` its
  meaning: it counts the channels whose turn of the probe loop has ended and that
  `cdevice_exit` has not seen, those of failed probes included. `ClassKnown` links the
  class to it, `Held` says which channels may have a node, and `IrqHasAll` that a
  channel with an interrupt has what its users need.

**AxiCtrl** (`AxiCtrlProofs`), for any devices, files, requests and positions.

- `AxiTypeCorrect`, `StaleNeedsTwoDevices` (the action property
  StaleOnlyWithTwoDevices), `CallsComplete`. `OneAtATime` and `DevData` say that what
  a probe put into the one `dev_data` is still there while no other device was probed;
  `FilesHold` that an open file keeps its device in; `CallsSee` that what a call has
  transferred so far was in the register at some moment of the call.

What the proofs found. That a stored context stays in its slot held on small instances
with weaker exceptions, but not for every number of workers: a worker whose answer
failed clears a slot that another filled meanwhile. `contested` is the exception that
is enough. In NetDevice, `last` needed a value of its own for "nothing read": the one
it had hid a read of 0 at address 0.
DescriptorsAccounted and TxNothingLost (a part of TxFaithful) are stated by
cardinalities of sets, on which the prover can reason.

Left to TLC: liveness, that is FramesDelivered, CallsReturn, JobsFinish, WaitReturns,
DestroyReturns, WorkersReturn, ClientsAnswered, StopEnds, TaskEnds and NetCallsReturn, since
fairness and ENABLED are outside this prover. The hypotheses of the StreamDma
theorems are needed: DmaSignal is the counterexample for signals, and two threads on
one channel share `bdindex`.

## 5. Not modelled, and the plan

Not modelled: the DMA driver's mmap and unused file methods,
`thpool_pause`/`resume` (nobody calls them), `io_read_stream_net` (no device uses
it), the server's open, mmap, ioctl and burst commands (no dispatcher reaches
them), the monitor threads (they print), the stub driver `stream_dma_enhanced`,
test programs, scripts. Memory allocation does not fail, nor does the DMA driver's
`class_create`, whose result is not tested (the code tests another pointer); the one
exception is the register driver's kzalloc of a size the caller chooses. Two threads on
one channel and closing a context twice have no property. Nor have `local_class_p`,
which dangles after the last channel is gone and would be used if a device were bound
again; the bound of `io_read_local` and `io_write_local`, which lets the word behind the
last register through (`InRange` has it); the scan of `opened_ctx_list`, which never
looks at its fifth slot; the length of a register mapping; and a register call that is
cut off, which writes parameters that never arrived (any value in the model).

The plan, in order:

1. Composition of ThreadPool and ContextServer, so that the queue of jobs is
   the pool's and not an assumption.
2. NetDevice's transmit side as an implementation of the FIFO of FrameStream;
   the runs of `NetDeviceProofs` are most of the argument.
