----------------------------- MODULE StreamDma -----------------------------
(***************************************************************************)
(* One stream channel: the proxy driver (driver/stream_dma/streamio-drv.c),*)
(* the kernel's DMA engine it drives (external), the ring of buffers the   *)
(* local library keeps on top of it (lib/bbio/src/bbio_backend_local.c)    *)
(* and the threads of the application that use the device handle.          *)
(*                                                                         *)
(* A system call is several steps: ioctl stores its argument in the        *)
(* channel, start_transfer and wait_for_transfer read it back, the DMA     *)
(* engine runs between any two of them.                                    *)
(***************************************************************************)
EXTENDS Integers, Sequences, FiniteSets

CONSTANTS
    BufferCount,   \* BUFFER_COUNT, the buffers of a channel
    Threads,       \* application threads that share the device handle
    Dir,           \* "tx": memory to stream, "rx": stream to memory
    Faults,        \* what the environment may do, a subset of FaultKinds
    MaxTransfers,  \* bound: transfers an application asks for
    MaxOpens,      \* bound: times the device file is opened
    MaxPackets,    \* bound: packets the PL offers to an rx channel per session
    MaxRefusals    \* bound: descriptors the engine refuses per session

(***************************************************************************)
(* timeout      the wait for a completion may expire                       *)
(* signal       it may be interrupted by a signal                          *)
(* submiterror  the engine may refuse a descriptor                         *)
(* latecallback a completion callback may still be on its way when         *)
(*              device_terminate_all returns                               *)
(* foreignopen  other programs may open the device file meanwhile, and     *)
(*              close it again; they make no transfers                     *)
(***************************************************************************)
FaultKinds == {"timeout", "signal", "submiterror", "latecallback", "foreignopen"}

ASSUME BufferCountAssumption == BufferCount \in Nat \ {0}
ASSUME DirAssumption == Dir \in {"tx", "rx"}
ASSUME FaultsAssumption == Faults \subseteq FaultKinds
ASSUME BoundsAssumption ==
    MaxTransfers \in Nat /\ MaxOpens \in Nat /\ MaxPackets \in Nat /\ MaxRefusals \in Nat

Buffers == 0 .. BufferCount - 1
NoBuffer == -1
NoCookie == 0               \* what a refused dmaengine_submit leaves behind

Statuses == {"no_error", "queued", "busy", "timeout", "error"}

VARIABLES
    \* the application's handle and the library's local_buffer_d
    handle,        \* "open" while the application has the device open
    opens,         \* how often the file has been opened
    cur,           \* current_buffer_id
    others,        \* files that other programs have open on the channel
    \* the driver's dma_proxy_channel
    bdindex,       \* the argument of the latest ioctl
    status,        \* channel_buffer.status, in memory shared with the application
    done,          \* bdtable[b].cmp.done
    cookie,        \* bdtable[b].cookie
    waitCount,     \* wait_transfer_count, the credits poll reports as POLLIN
    cleared,       \* history: buffers in flight whose status was last written
                   \* by the release of another program's file
    \* the DMA engine's channel
    last,          \* cookie of the latest descriptor submitted
    issued,        \* descriptors up to this cookie have been issued
    completed,     \* cookie of the latest descriptor completed
    queued,        \* descriptors submitted and not completed
    finished,      \* descriptors completed, callback still to run
    \* the PL side and the contents of the buffers
    data,          \* frame in a buffer, 0 when it holds none
    wire,          \* frames that crossed the AXI stream
    avail,         \* packets waiting in the PL for an rx transfer
    irqs,          \* 1 while a rising edge of the PL's interrupt is pending
    merged,        \* history: edges that came while one was pending
    log,           \* frames the application wrote (tx) or consumed (rx)
    asked,         \* buffers a reader submitted and has not been handed since
    refused,       \* history: descriptors the engine refused in this session
    \* the threads
    pc, call,      \* where a thread is, and the library call it is in
    arg,           \* the library's local buffer id
    bd,            \* the driver's local bdindex
    res,           \* outcome of the wait
    held           \* the buffer the thread was handed

app    == <<handle, opens, cur, others>>
driver == <<bdindex, status, done, cookie, waitCount, cleared>>
engine == <<last, issued, completed, queued, finished>>
plside == <<data, wire, avail, irqs, merged, log, asked, refused>>
thread == <<pc, call, arg, bd, res, held>>
vars   == <<app, driver, engine, plside, thread>>

Descriptors == [cookie : Nat \ {0}, buf : Buffers]

AppType ==
    /\ handle \in {"open", "closed"} /\ opens \in Nat /\ cur \in Buffers
    /\ others \in Nat

DriverType ==
    /\ bdindex \in Buffers
    /\ status \in [Buffers -> Statuses]
    /\ done \in [Buffers -> Nat]
    /\ cookie \in [Buffers -> Nat]
    /\ waitCount \in Nat
    /\ cleared \subseteq Buffers

EngineType ==
    /\ last \in Nat /\ issued \in Nat /\ completed \in Nat
    /\ queued \subseteq Descriptors /\ finished \subseteq Descriptors

PlType ==
    /\ data \in [Buffers -> Nat]
    /\ wire \in Seq(Nat) /\ log \in Seq(Nat)
    /\ avail \in Nat /\ irqs \in {0, 1} /\ merged \in Nat
    /\ asked \subseteq Buffers /\ refused \in Nat

ThreadType ==
    /\ pc \in [Threads -> {"user", "start", "submitted", "finish", "waiting",
                           "woken", "checked", "return", "sync"}]
    /\ call \in [Threads -> {"none", "get", "write", "xfer", "sync"}]
    /\ arg \in [Threads -> 0 .. BufferCount]
    /\ bd \in [Threads -> Buffers]
    /\ res \in [Threads -> {"none", "ok", "timeout", "signal", "complete", "error"}]
    /\ held \in [Threads -> Buffers \cup {NoBuffer}]

TypeOK == AppType /\ DriverType /\ EngineType /\ PlType /\ ThreadType

Init ==
    /\ handle = "closed" /\ opens = 0 /\ cur = 0 /\ others = 0
    /\ bdindex = 0
    /\ status = [b \in Buffers |-> "no_error"]
    /\ done = [b \in Buffers |-> 0]
    /\ cookie = [b \in Buffers |-> NoCookie]
    /\ waitCount = 0 /\ cleared = {}
    /\ last = 0 /\ issued = 0 /\ completed = 0
    /\ queued = {} /\ finished = {}
    /\ data = [b \in Buffers |-> 0]
    /\ wire = <<>> /\ avail = 0 /\ irqs = 0 /\ merged = 0 /\ log = <<>>
    /\ asked = {} /\ refused = 0
    /\ pc = [t \in Threads |-> "user"]
    /\ call = [t \in Threads |-> "none"]
    /\ arg = [t \in Threads |-> 0]
    /\ bd = [t \in Threads |-> 0]
    /\ res = [t \in Threads |-> "none"]
    /\ held = [t \in Threads |-> NoBuffer]

InFlight(b) == \E x \in queued : x.buf = b

\* The library's test for a buffer that needs no FINISH_XFER.
FreeButForQueued(b) == status[b] \in {"no_error", "queued"}
Free(b) == status[b] = "no_error"

Idle == \A t \in Threads : pc[t] = "user"

\* A thread leaves one step of a call for the next.
Goto(t, label) == pc' = [pc EXCEPT ![t] = label]
-----------------------------------------------------------------------------
(***************************************************************************)
(* Opening and closing.                                                    *)
(***************************************************************************)

\* local_open: whoever opens the file stops the engine and clears the statuses.
LocalOpen ==
    /\ opens < MaxOpens
    /\ opens' = opens + 1
    /\ queued' = {}
    /\ finished = {} \/ "latecallback" \in Faults
    /\ status' = [b \in Buffers |-> "no_error"]
    /\ cleared' = {}
    /\ UNCHANGED <<bdindex, done, cookie, waitCount, last, issued, completed, finished>>

\* io_open_stream_local: a new ring over the channel; the histories restart.
Open ==
    /\ handle = "closed" /\ Idle
    /\ LocalOpen
    /\ handle' = "open" /\ cur' = 0
    /\ data' = [b \in Buffers |-> 0]
    /\ wire' = <<>> /\ log' = <<>>
    /\ asked' = {} /\ refused' = 0
    /\ UNCHANGED <<others, avail, irqs, merged, thread>>

\* The driver lets the file be opened any number of times at once.
ForeignOpen ==
    /\ "foreignopen" \in Faults
    /\ LocalOpen
    /\ others' = others + 1
    /\ UNCHANGED <<handle, cur, plside, thread>>

\* release: every status is cleared, the engine is not stopped.
ClearStatuses == status' = [b \in Buffers |-> "no_error"]

\* release of another program's file, in the middle of whatever goes on here.
ForeignClose ==
    /\ "foreignopen" \in Faults /\ others > 0
    /\ others' = others - 1
    /\ ClearStatuses
    /\ cleared' = cleared \cup {b \in Buffers : InFlight(b)}
    /\ UNCHANGED <<handle, opens, cur, bdindex, done, cookie, waitCount, engine, plside, thread>>

\* io_close_stream_local: buffer_release unmaps one buffer of the ring, so the
\* mapping keeps the file referenced and the driver's release is not called.
Close ==
    /\ handle = "open" /\ Idle
    /\ handle' = "closed"
    /\ held' = [t \in Threads |-> NoBuffer]
    /\ UNCHANGED <<opens, cur, others, driver, engine, plside, pc, call, arg, bd, res>>

\* release of this application's file, when the process ends.
Release ==
    /\ Idle
    /\ handle' = "closed"
    /\ held' = [t \in Threads |-> NoBuffer]
    /\ ClearStatuses
    /\ UNCHANGED <<opens, cur, others, bdindex, done, cookie, waitCount, cleared, engine,
                   plside, pc, call, arg, bd, res>>
-----------------------------------------------------------------------------
(***************************************************************************)
(* The library's calls, as far as the system call each of them makes.      *)
(***************************************************************************)

\* io_stream_zc_buffer_local: FINISH_XFER first if the next buffer is not free.
GetBuffer(t) ==
    /\ handle = "open" /\ pc[t] = "user"
    /\ call' = [call EXCEPT ![t] = "get"]
    /\ arg' = [arg EXCEPT ![t] = cur]
    /\ held' = [held EXCEPT ![t] = NoBuffer]
    /\ \/ /\ ~Free(cur)
          /\ bdindex' = cur
          /\ Goto(t, "finish")
       \/ /\ Free(cur)
          /\ Goto(t, "return")
          /\ UNCHANGED bdindex
    /\ UNCHANGED <<app, status, done, cookie, waitCount, cleared, engine, plside, bd, res>>

\* The ring's successor.
NextIdUnwrapped(b) == b + 1
NextId(b) == (b + 1) % BufferCount

\* Its return: NULL after a timeout, otherwise the buffer.  A reader takes what
\* it finds in a buffer it had submitted for the frame it asked for.
GetReturn(t) ==
    /\ pc[t] = "return"
    /\ Goto(t, "user")
    /\ \/ /\ status[arg[t]] = "timeout"
          /\ UNCHANGED <<cur, held, log, asked>>
       \/ /\ status[arg[t]] # "timeout"
          /\ cur' = NextId(arg[t])
          /\ held' = [held EXCEPT ![t] = arg[t]]
          /\ asked' = asked \ {arg[t]}
          /\ log' = IF arg[t] \in asked THEN Append(log, data[arg[t]]) ELSE log
    /\ UNCHANGED <<handle, opens, others, driver, engine, data, wire, avail, irqs, merged,
                   refused, call, arg, bd, res>>

\* io_write_stream_local, which is also read_stream (START_XFER), and the
\* driver's XFER: a writer has put its next frame into the buffer.
Submit(t) ==
    /\ handle = "open" /\ pc[t] = "user" /\ held[t] # NoBuffer
    /\ last < MaxTransfers /\ Len(log) < MaxTransfers
    /\ \E c \in {"write", "xfer"} : call' = [call EXCEPT ![t] = c]
    /\ arg' = [arg EXCEPT ![t] = held[t]]
    /\ bdindex' = held[t]
    /\ held' = [held EXCEPT ![t] = NoBuffer]
    /\ Goto(t, "start")
    /\ IF Dir = "tx"
       THEN /\ log' = Append(log, Len(log) + 1)
            /\ data' = [data EXCEPT ![held[t]] = Len(log) + 1]
            /\ UNCHANGED asked
       ELSE /\ asked' = asked \cup {held[t]}
            /\ UNCHANGED <<data, log>>
    /\ UNCHANGED <<app, status, done, cookie, waitCount, cleared, engine, wire, avail, irqs,
                   merged, refused, bd, res>>

\* io_finish_stream_local: the loop over the ring ...
Sync(t) ==
    /\ handle = "open" /\ pc[t] = "user"
    /\ call' = [call EXCEPT ![t] = "sync"]
    /\ arg' = [arg EXCEPT ![t] = 0]
    /\ Goto(t, "sync")
    /\ UNCHANGED <<app, driver, engine, plside, bd, res, held>>

\* ... FINISH_XFER for each buffer that is not free ...
SyncNext(t) ==
    /\ pc[t] = "sync" /\ arg[t] < BufferCount
    /\ \/ /\ ~Free(arg[t])
          /\ bdindex' = arg[t]
          /\ Goto(t, "finish")
          /\ UNCHANGED arg
       \/ /\ Free(arg[t])
          /\ arg' = [arg EXCEPT ![t] = @ + 1]
          /\ UNCHANGED <<bdindex, pc>>
    /\ UNCHANGED <<app, status, done, cookie, waitCount, cleared, engine, plside, call, bd,
                   res, held>>

\* ... and its return, whatever the waits came to.
SyncReturn(t) ==
    /\ pc[t] = "sync" /\ arg[t] = BufferCount
    /\ Goto(t, "user")
    /\ UNCHANGED <<app, driver, engine, plside, call, arg, bd, res, held>>
-----------------------------------------------------------------------------
(***************************************************************************)
(* The driver.  start_transfer is two steps and wait_for_transfer four.    *)
(***************************************************************************)

\* Where ioctl goes after start_transfer: XFER waits as well.
AfterStart(t) == Goto(t, IF call[t] = "xfer" THEN "finish" ELSE "user")

\* init_completion
KeepCompletion(b) == done
InitCompletion(b) == [done EXCEPT ![b] = 0]

\* start_transfer up to dmaengine_submit, for whichever buffer bdindex names now.
StartTransfer(t) ==
    /\ pc[t] = "start"
    /\ done' = InitCompletion(bdindex)
    /\ last' = last + 1
    /\ cookie' = [cookie EXCEPT ![bdindex] = last + 1]
    /\ queued' = queued \cup {[cookie |-> last + 1, buf |-> bdindex]}
    /\ bd' = [bd EXCEPT ![t] = bdindex]
    /\ Goto(t, "submitted")
    /\ UNCHANGED <<app, bdindex, status, waitCount, cleared, issued, completed, finished,
                   plside, call, arg, res, held>>

\* Its error paths: no descriptor (nothing has changed), or a refused one.
StartFails(t) ==
    /\ pc[t] = "start" /\ "submiterror" \in Faults /\ refused < MaxRefusals
    /\ \/ UNCHANGED <<done, cookie>>
       \/ /\ done' = InitCompletion(bdindex)
          /\ cookie' = [cookie EXCEPT ![bdindex] = NoCookie]
    /\ refused' = refused + 1
    /\ AfterStart(t)
    /\ UNCHANGED <<app, bdindex, status, waitCount, cleared, engine, data, wire, avail, irqs,
                   merged, log, asked, call, arg, bd, res, held>>

\* dma_async_issue_pending: everything submitted may run now.
IssueNothing == issued
IssueAll == last

\* start_transfer from the status on.
IssuePending(t) ==
    /\ pc[t] = "submitted"
    /\ status' = [status EXCEPT ![bd[t]] = "queued"]
    /\ cleared' = cleared \ {bd[t]}
    /\ issued' = IssueAll
    /\ AfterStart(t)
    /\ UNCHANGED <<app, bdindex, done, cookie, waitCount, last, completed, queued,
                   finished, plside, call, arg, bd, res, held>>

\* wait_for_transfer reads bdindex and marks the buffer.
WaitBegin(t) ==
    /\ pc[t] = "finish"
    /\ bd' = [bd EXCEPT ![t] = bdindex]
    /\ status' = [status EXCEPT ![bdindex] = "busy"]
    /\ cleared' = cleared \ {bdindex}
    /\ Goto(t, "waiting")
    /\ UNCHANGED <<app, bdindex, done, cookie, waitCount, engine, plside, call, arg, res, held>>

\* How a wait that finds no completion may end.
InterruptOnly == {"signal"} \cap Faults
WithoutCompletion == {"timeout", "signal"} \cap Faults

\* wait_for_completion_interruptible_timeout returns.
WaitReturn(t) ==
    /\ pc[t] = "waiting"
    /\ \/ /\ done[bd[t]] > 0
          /\ done' = [done EXCEPT ![bd[t]] = @ - 1]
          /\ res' = [res EXCEPT ![t] = "ok"]
       \/ /\ done[bd[t]] = 0
          /\ \E r \in WithoutCompletion : res' = [res EXCEPT ![t] = r]
          /\ UNCHANGED done
    /\ Goto(t, "woken")
    /\ UNCHANGED <<app, bdindex, status, cookie, waitCount, cleared, engine, plside, call, arg,
                   bd, held>>

\* dma_async_is_tx_complete; an expired wait is a timeout whatever it says.
WaitCheck(t) ==
    /\ pc[t] = "woken"
    /\ res' = [res EXCEPT ![t] = IF @ = "timeout" THEN "timeout"
                                 ELSE IF cookie[bd[t]] <= completed THEN "complete"
                                 ELSE "error"]
    /\ Goto(t, "checked")
    /\ UNCHANGED <<app, driver, engine, plside, call, arg, bd, held>>

\* The status that each branch of wait_for_transfer stores ...
TimeoutIsNoError(r) == IF r = "error" THEN "error" ELSE "no_error"
ProxyStatus(r) == IF r = "complete" THEN "no_error" ELSE r

\* ... and the atomic_dec_if_positive of the branch that succeeds.
SpendAlways(r) == IF waitCount > 0 THEN waitCount - 1 ELSE waitCount
SpendCredit(r) == IF r = "complete" /\ waitCount > 0 THEN waitCount - 1 ELSE waitCount

\* The end of wait_for_transfer, and the return to the caller.
WaitStore(t) ==
    /\ pc[t] = "checked"
    /\ status' = [status EXCEPT ![bd[t]] = ProxyStatus(res[t])]
    /\ cleared' = cleared \ {bd[t]}
    /\ waitCount' = SpendCredit(res[t])
    /\ Goto(t, IF call[t] = "get" THEN "return"
               ELSE IF call[t] = "sync" THEN "sync" ELSE "user")
    /\ arg' = IF call[t] = "sync" THEN [arg EXCEPT ![t] = @ + 1] ELSE arg
    /\ UNCHANGED <<app, bdindex, done, cookie, engine, plside, call, bd, res, held>>
-----------------------------------------------------------------------------
(***************************************************************************)
(* The DMA engine and the PL.                                              *)
(***************************************************************************)

\* The engine runs the issued descriptors in the order of submission; an rx
\* transfer needs a packet.
Complete ==
    \E x \in queued :
        /\ \A y \in queued : x.cookie <= y.cookie
        /\ x.cookie <= issued
        /\ queued' = queued \ {x}
        /\ completed' = x.cookie
        /\ finished' = finished \cup {x}
        /\ \/ /\ Dir = "tx"
              /\ wire' = Append(wire, data[x.buf])
              /\ UNCHANGED <<data, avail>>
           \/ /\ Dir = "rx" /\ avail > 0
              /\ wire' = Append(wire, Len(wire) + 1)
              /\ data' = [data EXCEPT ![x.buf] = Len(wire) + 1]
              /\ avail' = avail - 1
        /\ UNCHANGED <<app, driver, last, issued, irqs, merged, log, asked, refused, thread>>

\* sync_callback, from the engine's tasklet.
Callback ==
    \E x \in finished :
        /\ \A y \in finished : x.cookie <= y.cookie
        /\ finished' = finished \ {x}
        /\ done' = [done EXCEPT ![x.buf] = @ + 1]
        /\ UNCHANGED <<app, bdindex, status, cookie, waitCount, cleared, last, issued,
                       completed, queued, plside, thread>>

\* The PL has a packet and raises the channel's interrupt: IRQF_TRIGGER_RISING,
\* so an edge that comes while one is pending adds nothing.
Packet ==
    /\ Dir = "rx" /\ Len(wire) + avail < MaxPackets
    /\ avail' = avail + 1
    /\ irqs' = 1
    /\ merged' = merged + irqs
    /\ UNCHANGED <<app, driver, engine, data, wire, log, asked, refused, thread>>

\* irq_handler.
IrqHandler ==
    /\ irqs = 1
    /\ irqs' = 0
    /\ waitCount' = waitCount + 1
    /\ UNCHANGED <<app, bdindex, status, done, cookie, cleared, engine, data, wire, avail,
                   merged, log, asked, refused, thread>>

\* dma_proxy_poll: what select reports to a reader.
PollIn == waitCount > 0
-----------------------------------------------------------------------------
\* A step of a library call or a system call under way.
ThreadStep(t) ==
    \/ GetReturn(t) \/ SyncNext(t) \/ SyncReturn(t)
    \/ StartTransfer(t) \/ StartFails(t) \/ IssuePending(t)
    \/ WaitBegin(t) \/ WaitReturn(t) \/ WaitCheck(t) \/ WaitStore(t)

Next ==
    \/ Open \/ ForeignOpen \/ ForeignClose \/ Close \/ Release
    \/ \E t \in Threads : GetBuffer(t) \/ Submit(t) \/ Sync(t) \/ ThreadStep(t)
    \/ Complete \/ Callback \/ Packet \/ IrqHandler

Spec == Init /\ [][Next]_vars

(***************************************************************************)
(* Threads inside a call are scheduled, the engine transfers what was      *)
(* issued and runs its callbacks, interrupts are handled.  Nothing forces  *)
(* the application to make a call or the PL to offer a packet.             *)
(***************************************************************************)
Fairness ==
    /\ \A t \in Threads : WF_vars(ThreadStep(t))
    /\ WF_vars(Complete) /\ WF_vars(Callback) /\ WF_vars(IrqHandler)

FairSpec == Spec /\ Fairness
-----------------------------------------------------------------------------
(***************************************************************************)
(* Properties.                                                             *)
(***************************************************************************)

\* A thread has submitted b and not yet marked it PROXY_QUEUED.
Submitting(b) == \E t \in Threads : pc[t] = "submitted" /\ bd[t] = b

(***************************************************************************)
(* The status in the shared buffer tells the truth: while the device is    *)
(* open, a buffer marked PROXY_NO_ERROR is not one the engine still has a  *)
(* descriptor for, in whatever order expired and interrupted waits, late   *)
(* completions, other openers and resubmissions follow each other.  The    *)
(* library decides from this word alone whether it has to wait.  One thing *)
(* makes the word lie: release of another program's file clears it while   *)
(* the engine runs on, and it lies until the driver stores it again.       *)
(***************************************************************************)
StatusTruth ==
    handle = "open" =>
        \A b \in Buffers : Free(b) /\ ~Submitting(b) /\ InFlight(b) => b \in cleared

(***************************************************************************)
(* Zero copy is safe: the buffer io_stream_get_buffer handed out, which    *)
(* the application reads or overwrites in place, is not one the engine     *)
(* reads or overwrites at the same time.                                   *)
(***************************************************************************)
Ownership == \A t \in Threads : held[t] # NoBuffer => ~InFlight(held[t])

(***************************************************************************)
(* wait_for_transfer stores PROXY_ERROR only for a transfer that was       *)
(* interrupted: a completion it consumes always belongs to the cookie it   *)
(* then asks the engine about.                                             *)
(***************************************************************************)
NoSpuriousError == \A b \in Buffers : status[b] # "error"

(***************************************************************************)
(* When io_sync_stream_device returns, every buffer is free and the engine *)
(* has nothing left to do for the channel (userspace/README.md: it "waits  *)
(* until all buffers have been read").                                     *)
(***************************************************************************)
SyncComplete ==
    \A t \in Threads : pc[t] = "sync" /\ arg[t] = BufferCount =>
        queued = {} /\ \A b \in Buffers : Free(b)

(***************************************************************************)
(* What a reader in select may miss: every packet that waits in the PL or  *)
(* has been transferred into a buffer nobody finished yet has a credit of  *)
(* wait_transfer_count, or an interrupt still to be handled, but for one   *)
(* packet per edge that merged with a pending one.  A credit is spent per  *)
(* finished transfer, not per packet, and no open resets the count.        *)
(***************************************************************************)
Unfinished == {b \in Buffers : done[b] > 0 \/ \E x \in finished : x.buf = b}

CreditsCoverPackets ==
    Dir = "rx" => avail + Cardinality(Unfinished) <= waitCount + irqs + merged

(***************************************************************************)
(* The converse, as userspace/README.md describes select: POLLIN means     *)
(* there is something to read, a packet in the PL or one that has been     *)
(* transferred and not yet finished.                                       *)
(***************************************************************************)
PollInMeansData ==
    handle = "open" /\ Idle /\ PollIn =>
        avail > 0 \/ \E b \in Buffers : ~Free(b) /\ cookie[b] <= completed

(***************************************************************************)
(* The channel is a bounded first-in first-out stream of frames between    *)
(* the application and the AXI stream.                                     *)
(***************************************************************************)
Frames == INSTANCE FrameStream WITH
    Capacity <- BufferCount,
    source <- IF Dir = "tx" THEN log ELSE wire,
    sink <- IF Dir = "tx" THEN wire ELSE log

\* Every step of driver, library and engine is a step of that stream or none.
IsFrameStream == Frames!Spec

(***************************************************************************)
(* The same of a channel whose engine may refuse a descriptor, until it    *)
(* does: start_transfer then reports nothing and leaves PROXY_NO_ERROR in  *)
(* the status, so a reader is handed what the buffer held before and takes *)
(* it for a new frame, and a writer's frame is lost.  The next open starts *)
(* a stream again.                                                         *)
(***************************************************************************)
StreamUntilRefused ==
    Frames!Init /\ [][refused > 0 \/ Frames!Next]_<<log, wire>>

\* Every frame written crosses the stream (in a single session).
FramesDelivered ==
    \A k \in 1 .. MaxTransfers : Len(log) >= k ~> Len(wire) >= k

(***************************************************************************)
(* No call hangs: with the timeout in wait_for_transfer, every call        *)
(* returns even if the PL never offers a packet.                           *)
(***************************************************************************)
CallsReturn == \A t \in Threads : pc[t] # "user" ~> pc[t] = "user"
=============================================================================
