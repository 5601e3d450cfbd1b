--------------------------- MODULE DeviceContext ---------------------------
(***************************************************************************)
(* The contexts of one process that uses the library on the board          *)
(* (lib/bbio/src/bbio_core.c, bbio_utils.c and the open and close          *)
(* functions of bbio_backend_local.c, lib/buffer/buffer.c): each has a     *)
(* list of devices, each device a file descriptor and a mapping.           *)
(*                                                                         *)
(* The kernel gives an open the lowest free descriptor, so a number that   *)
(* one context closes is soon another's: a descriptor closed too often, or *)
(* not at all, is felt elsewhere.                                          *)
(***************************************************************************)
EXTENDS Integers, Sequences, FiniteSets

CONSTANTS
    Contexts,     \* what io_create_context returned, one value per call
    MaxDevice,    \* MAX_DEVICE, the devices of a context
    MaxAdds,      \* bound: devices added to a context
    OpenFails     \* 1 if open may fail, otherwise 0

ASSUME ContextsAssumption == IsFiniteSet(Contexts)
ASSUME MaxDeviceAssumption == MaxDevice \in Nat \ {0}
ASSUME MaxAddsAssumption == MaxAdds \in Nat
ASSUME OpenFailsAssumption == OpenFails \in {0, 1}

Kinds == {"mapped", "stream"}
Devices == [kind : Kinds, fd : Nat]

VARIABLES
    phase,        \* a context: "new", "open" or "closed"
    devices,      \* ctx->devices
    handles,      \* the devices io_add_*_device returned to the application
    adds,         \* calls of io_add_*_device
    fds,          \* descriptors open in the process
    mappings,     \* mappings of device files: kind |-> how many
    streams       \* stream devices opened since the process began

vars == <<phase, devices, handles, adds, fds, mappings, streams>>

TypeOK ==
    /\ phase \in [Contexts -> {"new", "open", "closed"}]
    /\ devices \in [Contexts -> Seq(Devices)]
    /\ \A x \in Contexts : Len(devices[x]) <= MaxDevice
    /\ handles \in [Contexts -> SUBSET Devices]
    /\ adds \in [Contexts -> 0 .. MaxAdds]
    /\ fds \subseteq Nat
    /\ mappings \in [Kinds -> Nat] /\ streams \in Nat

Init ==
    /\ phase = [x \in Contexts |-> "new"]
    /\ devices = [x \in Contexts |-> <<>>]
    /\ handles = [x \in Contexts |-> {}]
    /\ adds = [x \in Contexts |-> 0]
    /\ fds = {}
    /\ mappings = [k \in Kinds |-> 0] /\ streams = 0

Listed(x) == {devices[x][n] : n \in 1 .. Len(devices[x])}

\* The kernel's choice of a descriptor, after the three standard ones.
LowestFree == CHOOSE f \in 3 .. 3 + Cardinality(fds) :
                 f \notin fds /\ \A g \in 3 .. f - 1 : g \in fds

Create(x) ==
    /\ phase[x] = "new"
    /\ phase' = [phase EXCEPT ![x] = "open"]
    /\ UNCHANGED <<devices, handles, adds, fds, mappings, streams>>

\* What io_append_device copies into the new list before it adds the device.
CopyAllButLast(s) == SubSeq(s, 1, Len(s) - 1)
CopyAll(s) == s

\* The test of io_append_device.
RoomForOneMore(x) == Len(devices[x]) <= MaxDevice
Room(x) == Len(devices[x]) < MaxDevice

\* io_append_device; when it fails its caller frees the device and returns NULL,
\* while the descriptor and the mapping stay.
AppendDevice(x, d) ==
    \/ /\ Room(x)
       /\ devices' = [devices EXCEPT ![x] = Append(CopyAll(@), d)]
       /\ handles' = [handles EXCEPT ![x] = @ \cup {d}]
    \/ /\ ~Room(x)
       /\ UNCHANGED <<devices, handles>>

\* The file is opened and mapped.
OpenFile(k) ==
    /\ fds' = fds \cup {LowestFree}
    /\ mappings' = [mappings EXCEPT ![k] = @ + 1]

OpenMappedLocal == OpenFile("mapped")

OpenStreamLocal == OpenFile("stream")

MayAdd(x) == phase[x] = "open" /\ adds[x] < MaxAdds

AddMapped(x) ==
    /\ MayAdd(x)
    /\ adds' = [adds EXCEPT ![x] = @ + 1]
    /\ OpenMappedLocal
    /\ AppendDevice(x, [kind |-> "mapped", fd |-> LowestFree])
    /\ UNCHANGED <<phase, streams>>

AddStream(x) ==
    /\ MayAdd(x)
    /\ adds' = [adds EXCEPT ![x] = @ + 1]
    /\ OpenStreamLocal
    /\ streams' = streams + 1
    /\ AppendDevice(x, [kind |-> "stream", fd |-> LowestFree])
    /\ UNCHANGED phase

(***************************************************************************)
(* open fails: open_mapped and open_stream return NULL, io_add_*_device    *)
(* writes through it, and the process is killed.  The kernel takes back    *)
(* what it held; the program may be started again.                         *)
(***************************************************************************)
AddCrashes(x) ==
    /\ OpenFails = 1 /\ MayAdd(x)
    /\ phase' = [y \in Contexts |-> "new"]
    /\ devices' = [y \in Contexts |-> <<>>]
    /\ handles' = [y \in Contexts |-> {}]
    /\ adds' = [y \in Contexts |-> 0]
    /\ fds' = {}
    /\ mappings' = [k \in Kinds |-> 0] /\ streams' = 0

OfKind(x, k) == {d \in Listed(x) : d.kind = k}

\* io_close_mapped_local unmaps what was mapped.
CloseMappedLocal(x) == mappings["mapped"] - Cardinality(OfKind(x, "mapped"))

\* io_close_stream_local: buffer_release unmaps one buffer of BUFFER_COUNT, and
\* the rest of the mapping stays.
CloseStreamLocal(x) == mappings["stream"]

(***************************************************************************)
(* io_close_context: close_mapped or close_stream for every device of the  *)
(* list, then the list and the context are freed.                          *)
(***************************************************************************)
Close(x) ==
    /\ phase[x] = "open"
    /\ phase' = [phase EXCEPT ![x] = "closed"]
    /\ fds' = fds \ {d.fd : d \in Listed(x)}
    /\ mappings' = [mappings EXCEPT !["mapped"] = CloseMappedLocal(x),
                                   !["stream"] = CloseStreamLocal(x)]
    /\ devices' = [devices EXCEPT ![x] = <<>>]
    /\ handles' = [handles EXCEPT ![x] = {}]
    /\ UNCHANGED <<adds, streams>>

Next ==
    \E x \in Contexts :
        Create(x) \/ AddMapped(x) \/ AddStream(x) \/ AddCrashes(x) \/ Close(x)

Spec == Init /\ [][Next]_vars
-----------------------------------------------------------------------------
(***************************************************************************)
(* Properties.                                                             *)
(***************************************************************************)

(***************************************************************************)
(* Every handle the application has works: its descriptor is open and      *)
(* belongs to no other handle of any context, although descriptors are     *)
(* reused and contexts are opened and closed in any order; and the context *)
(* has it on its list, so that closing the context closes it.              *)
(***************************************************************************)
HandlesAreOwned ==
    /\ \A x \in Contexts : handles[x] = Listed(x) /\ \A d \in handles[x] : d.fd \in fds
    /\ \A x, y \in Contexts : \A d \in handles[x], e \in handles[y] :
          d.fd = e.fd => x = y /\ d = e

\* Places of the lists that hold a device, and the device there.
Entries == {p \in Contexts \X (1 .. MaxDevice) : p[2] <= Len(devices[p[1]])}
DeviceAt(p) == devices[p[1]][p[2]]
EntriesOf(k) == {p \in Entries : DeviceAt(p).kind = k}

\* Calls whose device was opened and then refused by the full list.
Refused == {p \in Contexts \X (1 .. MaxAdds) : MaxDevice < p[2] /\ p[2] <= adds[p[1]]}

(***************************************************************************)
(* What a process holds, in whatever order contexts are filled and closed. *)
(* It has as many descriptors as there are listed and refused devices, and *)
(* closing a context leaves the others their mappings.  When every context *)
(* is closed at most the refused register files are still mapped.  But     *)
(* every stream device ever opened, closed or not, is still mapped, so the *)
(* driver has its file open until the process ends: io_close_context does  *)
(* not close all devices, as userspace/README.md has it.                   *)
(***************************************************************************)
DescriptorsAccounted ==
    /\ Cardinality(fds) = Cardinality(Entries) + Cardinality(Refused)
    /\ \A k \in Kinds : mappings[k] >= Cardinality(EntriesOf(k))
    /\ (\A x \in Contexts : phase[x] # "open") =>
          mappings["mapped"] <= Cardinality(Refused)
    /\ mappings["stream"] = streams
=============================================================================
