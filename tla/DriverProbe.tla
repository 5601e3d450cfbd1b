---------------------------- MODULE DriverProbe ----------------------------
(***************************************************************************)
(* The life of the DMA proxy driver around its transfers                   *)
(* (driver/stream_dma/streamio-drv.c: dma_proxy_probe, create_channel,     *)
(* cdevice_init, cdevice_exit, dma_proxy_remove).                          *)
(*                                                                         *)
(* The devices of the device tree are probed one after the other, and each *)
(* creates its channels one after the other.  A channel is visible to      *)
(* programs as soon as its node exists and to the hardware as soon as its  *)
(* interrupt is requested, so open, poll and interrupts come between the   *)
(* steps of probe.  The class of the nodes and total_count are shared by   *)
(* all devices.  The devices are removed when the module is unloaded,      *)
(* which the kernel refuses while a file of the driver is open.            *)
(***************************************************************************)
EXTENDS Naturals, FiniteSets

CONSTANTS
    Devices,      \* nodes of the device tree the driver matches
    MaxChannels,  \* bound: entries of dma-names
    Faults        \* which calls of the kernel may fail, a subset of ProbeFaults

(***************************************************************************)
(* dma     dma_request_chan           cdev    alloc_chrdev_region, cdev_add*)
(* device  device_create              memory  dmam_alloc_coherent          *)
(* irq     devm_request_irq, or there is no interrupt                      *)
(***************************************************************************)
ProbeFaults == {"dma", "cdev", "device", "memory", "irq"}

ASSUME DevicesAssumption == IsFiniteSet(Devices)
ASSUME ChannelsAssumption == MaxChannels \in Nat \ {0}
ASSUME ProbeFaultsAssumption == Faults \subseteq ProbeFaults

Channels == Devices \X (1 .. MaxChannels)
Device(c) == c[1]

VARIABLES
    module,       \* "loaded", "exiting" or "unloaded"
    state,        \* a device: "out", "probing", "in", "failed", "removing"
    count,        \* lp->channel_count
    i,            \* the channel probe or remove is at
    place,        \* and where it is there
    chan,         \* channels with a DMA channel
    cdev,         \* channels with a registered character device
    node,         \* proxy_device_p: "none", "live", or "error"
    table,        \* channels whose buffers are allocated
    irq,          \* channels with a registered interrupt handler
    queue,        \* channels whose wait queue is initialised
    opened,       \* channels a program has open
    class,        \* local_class_p: "none", "live", "freed" by the last channel,
                  \* or "torn" down by an error path
    total,        \* total_count
    bad           \* channels with a use of something not there

loopVars == <<i, place>>
channelVars == <<chan, cdev, node, table, irq, queue>>
vars == <<module, state, count, loopVars, channelVars, opened, class, total, bad>>

TypeOK ==
    /\ module \in {"loaded", "exiting", "unloaded"}
    /\ state \in [Devices -> {"out", "probing", "in", "failed", "removing"}]
    /\ count \in [Devices -> 0 .. MaxChannels]
    /\ i \in [Devices -> 0 .. MaxChannels]
    /\ place \in [Devices -> {"request", "add", "create", "alloc", "irq", "queue",
                              "next", "exit", "release"}]
    /\ \A s \in {chan, cdev, table, irq, queue, opened, bad} : s \subseteq Channels
    /\ node \in [Channels -> {"none", "live", "error"}]
    /\ class \in {"none", "live", "freed", "torn"}
    /\ total \in 0 .. Cardinality(Channels)

Init ==
    /\ module = "loaded"
    /\ state = [d \in Devices |-> "out"]
    /\ count \in [Devices -> 0 .. MaxChannels]
    /\ i = [d \in Devices |-> 0]
    /\ place = [d \in Devices |-> "request"]
    /\ chan = {} /\ cdev = {} /\ table = {} /\ irq = {} /\ queue = {}
    /\ node = [c \in Channels |-> "none"]
    /\ opened = {} /\ bad = {}
    /\ class = "none" /\ total = 0

\* The channel probe or remove of d is at.
Current(d) == <<d, i[d]>>
Of(d) == {c \in Channels : Device(c) = d}

At(d, p) == state[d] = "probing" /\ place[d] = p
Goto(d, p) == place' = [place EXCEPT ![d] = p]
-----------------------------------------------------------------------------
(***************************************************************************)
(* dma_proxy_probe.                                                        *)
(***************************************************************************)

\* Without channels probe succeeds at once.
Probe(d) ==
    /\ module = "loaded" /\ state[d] = "out"
    /\ \A e \in Devices : state[e] # "probing"
    /\ state' = [state EXCEPT ![d] = IF count[d] = 0 THEN "in" ELSE "probing"]
    /\ i' = [i EXCEPT ![d] = IF count[d] = 0 THEN 0 ELSE 1]
    /\ Goto(d, "request")
    /\ UNCHANGED <<module, count, channelVars, opened, class, total, bad>>

\* Probe returns an error.  The kernel releases what is managed: the memory of
\* the channels, their buffers and their interrupts.  The rest stays.
Fail(d, cd) ==
    /\ state' = [state EXCEPT ![d] = "failed"]
    /\ table' = table \ Of(d)
    /\ irq' = irq \ Of(d)
    /\ cdev' = cd
    /\ UNCHANGED <<place, node, queue, class>>

\* create_channel: dma_request_chan.
RequestChannel(d) ==
    /\ At(d, "request")
    /\ \/ /\ chan' = chan \cup {Current(d)}
          /\ Goto(d, "add")
          /\ UNCHANGED <<state, cdev, node, table, irq, queue, class>>
       \/ "dma" \in Faults /\ Fail(d, cdev) /\ UNCHANGED chan
    /\ UNCHANGED <<module, count, i, opened, total, bad>>

\* cdevice_init: the character device can be opened once it has a node.
AddCdev(d) ==
    /\ At(d, "add")
    /\ \/ /\ cdev' = cdev \cup {Current(d)}
          /\ Goto(d, "create")
          /\ UNCHANGED <<state, node, table, irq, queue, class>>
       \/ "cdev" \in Faults /\ Fail(d, cdev)
    /\ UNCHANGED <<module, count, i, chan, opened, total, bad>>

\* The class is created for the first channel only, and is taken to be created:
\* the test after class_create looks at another pointer.  When device_create fails
\* everything is taken down, the class too, but 0 is returned and probe goes on.
CreateNode(d) ==
    /\ At(d, "create")
    /\ bad' = IF class \in {"none", "live"} THEN bad ELSE bad \cup {Current(d)}
    /\ \/ /\ node' = [node EXCEPT ![Current(d)] = "live"]
          /\ class' = IF class = "none" THEN "live" ELSE class
          /\ UNCHANGED cdev
       \/ /\ "device" \in Faults
          /\ node' = [node EXCEPT ![Current(d)] = "error"]
          /\ class' = "torn"
          /\ cdev' = cdev \ {Current(d)}
    /\ Goto(d, "alloc")
    /\ UNCHANGED <<module, state, count, i, chan, table, irq, queue, opened, total>>

\* create_channel: the buffers and their completions.
AllocBuffers(d) ==
    /\ At(d, "alloc")
    /\ \/ /\ table' = table \cup {Current(d)}
          /\ Goto(d, "irq")
          /\ UNCHANGED <<state, cdev, node, irq, queue, class>>
       \/ "memory" \in Faults /\ Fail(d, cdev)
    /\ UNCHANGED <<module, count, i, chan, opened, total, bad>>

\* The interrupt; one that is refused costs a warning, and the wait queue is not
\* initialised.
RequestIrq(d) ==
    /\ At(d, "irq")
    /\ \/ irq' = irq \cup {Current(d)} /\ Goto(d, "queue")
       \/ "irq" \in Faults /\ Goto(d, "next") /\ UNCHANGED irq
    /\ UNCHANGED <<module, state, count, i, chan, cdev, node, table, queue, opened,
                   class, total, bad>>

\* The wait queues after init_waitqueue_head.
QueueForgotten(d) == queue
QueueReady(d) == queue \cup {Current(d)}

InitQueue(d) ==
    /\ At(d, "queue")
    /\ queue' = QueueReady(d)
    /\ Goto(d, "next")
    /\ UNCHANGED <<module, state, count, i, chan, cdev, node, table, irq, opened,
                   class, total, bad>>

\* total_count at the end of a turn of the loop.
NotCounted == total
OneMore == total + 1

NextChannel(d) ==
    /\ At(d, "next")
    /\ total' = OneMore
    /\ \/ i[d] < count[d] /\ i' = [i EXCEPT ![d] = @ + 1] /\ UNCHANGED state
       \/ /\ i[d] = count[d]
          /\ state' = [state EXCEPT ![d] = "in"] /\ UNCHANGED i
    /\ Goto(d, "request")
    /\ UNCHANGED <<module, count, channelVars, opened, class, bad>>
-----------------------------------------------------------------------------
(***************************************************************************)
(* dma_proxy_exit and dma_proxy_remove.                                    *)
(***************************************************************************)
ModuleExit ==
    /\ module = "loaded" /\ opened = {}
    /\ \A d \in Devices : state[d] # "probing"
    /\ module' = "exiting"
    /\ UNCHANGED <<state, count, loopVars, channelVars, opened, class, total, bad>>

\* A device whose probe failed is not removed.
Remove(d) ==
    /\ module = "exiting" /\ state[d] = "in"
    /\ \A e \in Devices : state[e] # "removing"
    /\ state' = [state EXCEPT ![d] = "removing"]
    /\ i' = [i EXCEPT ![d] = IF count[d] = 0 THEN 0 ELSE 1]
    /\ Goto(d, IF count[d] = 0 THEN "release" ELSE "exit")
    /\ UNCHANGED <<module, count, channelVars, opened, class, total, bad>>

\* cdevice_exit's test for the last channel.
LastButOne == total <= 2
LastChannel == total = 1

\* cdevice_exit: proxy_device_p is an error code, and not NULL, where the node
\* could not be created, and then everything is taken down again.
ExitChannel(d) ==
    /\ state[d] = "removing" /\ place[d] = "exit"
    /\ bad' = IF node[Current(d)] = "error" \/ class # "live"
              THEN bad \cup {Current(d)} ELSE bad
    /\ node' = [node EXCEPT ![Current(d)] = "none"]
    /\ class' = IF LastChannel THEN "freed" ELSE class
    /\ cdev' = cdev \ {Current(d)}
    /\ total' = total - 1
    /\ \/ i[d] < count[d] /\ i' = [i EXCEPT ![d] = @ + 1] /\ UNCHANGED place
       \/ i[d] = count[d] /\ Goto(d, "release") /\ UNCHANGED i
    /\ UNCHANGED <<module, state, count, chan, table, irq, queue, opened>>

\* The channels remove gives back.
KeepLast(d) == chan \ (Of(d) \ {Current(d)})
Released(d) == chan \ Of(d)

\* The DMA channels, and afterwards what the kernel manages.
ReleaseChannels(d) ==
    /\ state[d] = "removing" /\ place[d] = "release"
    /\ chan' = Released(d)
    /\ state' = [state EXCEPT ![d] = "out"]
    /\ table' = table \ Of(d)
    /\ irq' = irq \ Of(d)
    /\ queue' = queue \ Of(d)
    /\ UNCHANGED <<module, count, loopVars, cdev, node, opened, class, total, bad>>

ModuleUnloaded ==
    /\ module = "exiting"
    /\ \A d \in Devices : state[d] \in {"out", "failed"}
    /\ module' = "unloaded"
    /\ UNCHANGED <<state, count, loopVars, channelVars, opened, class, total, bad>>
-----------------------------------------------------------------------------
(***************************************************************************)
(* Programs and the hardware.  The memory of a channel exists while its    *)
(* device is being probed, is in or is being removed.                      *)
(***************************************************************************)
Allocated(c) == state[Device(c)] \in {"probing", "in", "removing"}

Use(c, present) ==
    bad' = IF Allocated(c) /\ present THEN bad ELSE bad \cup {c}

\* local_open stops the DMA channel and clears the statuses of the buffers.
Open(c) ==
    /\ module = "loaded" /\ c \notin opened
    /\ c \in cdev /\ node[c] = "live"
    /\ Use(c, c \in chan /\ c \in table)
    /\ opened' = opened \cup {c}
    /\ UNCHANGED <<module, state, count, loopVars, channelVars, class, total>>

\* dma_proxy_poll.
Poll(c) ==
    /\ c \in opened
    /\ Use(c, c \in queue)
    /\ UNCHANGED <<module, state, count, loopVars, channelVars, opened, class, total>>

\* release clears the statuses.
Close(c) ==
    /\ c \in opened
    /\ Use(c, c \in table)
    /\ opened' = opened \ {c}
    /\ UNCHANGED <<module, state, count, loopVars, channelVars, class, total>>

\* irq_handler counts and wakes.
Interrupt(c) ==
    /\ c \in irq
    /\ Use(c, c \in queue)
    /\ UNCHANGED <<module, state, count, loopVars, channelVars, opened, class, total>>
-----------------------------------------------------------------------------
ProbeStep(d) ==
    \/ RequestChannel(d) \/ AddCdev(d) \/ CreateNode(d)
    \/ AllocBuffers(d) \/ RequestIrq(d) \/ InitQueue(d) \/ NextChannel(d)

RemoveStep(d) == Remove(d) \/ ExitChannel(d) \/ ReleaseChannels(d)

Next ==
    \/ \E d \in Devices : Probe(d) \/ ProbeStep(d) \/ RemoveStep(d)
    \/ ModuleExit \/ ModuleUnloaded
    \/ \E c \in Channels : Open(c) \/ Poll(c) \/ Close(c) \/ Interrupt(c)

Spec == Init /\ [][Next]_vars
-----------------------------------------------------------------------------
(***************************************************************************)
(* Properties.                                                             *)
(***************************************************************************)

(***************************************************************************)
(* As long as a channel of any device has its node, the class it belongs   *)
(* to exists: total_count finds the last channel of all devices, however   *)
(* many channels a failed probe left in the count.  Exceptions are a       *)
(* device whose own probe failed, and device_create's error path, which    *)
(* takes the class away from all.                                          *)
(***************************************************************************)
ClassCoversNodes ==
    class # "torn" =>
        \A c \in Channels :
            node[c] = "live" /\ state[Device(c)] # "failed" => class = "live"

(***************************************************************************)
(* An unloaded module leaves no DMA channel, character device or node      *)
(* behind except those of devices whose probe failed, and no class if none *)
(* did.                                                                    *)
(***************************************************************************)
UnloadLeavesNothing ==
    module = "unloaded" =>
        /\ \A c \in Channels :
              c \in chan \/ c \in cdev \/ node[c] # "none" => state[Device(c)] = "failed"
        /\ class = "live" => \E d \in Devices : state[d] = "failed"

\* The channel is being created, its interrupt was refused, its probe failed, or
\* the class was taken down by an error path.
Exposed(c) ==
    \/ state[Device(c)] = "probing" /\ c = Current(Device(c))
    \/ c \notin irq
    \/ state[Device(c)] = "failed"
    \/ class = "torn"

(***************************************************************************)
(* open, poll, close and interrupts find what they use, except on a        *)
(* channel that is exposed: from the end of its probe to its removal a     *)
(* channel whose creation succeeded is safe to use.                        *)
(***************************************************************************)
BadUseOnlyWhileExposed == [][\A c \in bad' \ bad : Exposed(c)]_vars
=============================================================================
