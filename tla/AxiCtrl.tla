------------------------------ MODULE AxiCtrl ------------------------------
(***************************************************************************)
(* The register driver (driver/axi_ctrl/streamio-ctrl-drv.c): probe and    *)
(* removal of its devices, and the operations of the files opened on       *)
(* /dev/tc.                                                                *)
(*                                                                         *)
(* There is one dev_data for all devices of the device tree, so every file *)
(* uses what the last probe put there.  read and write go over the         *)
(* registers one by one, while other files and the mappings of simple_mmap *)
(* change them.  A file has one caller; its calls come one after the other.*)
(***************************************************************************)
EXTENDS Naturals, FiniteSets

CONSTANTS
    Devices,      \* nodes of the device tree the driver matches
    Files,        \* open files
    Callers,      \* bound: files used with lseek, read and write, and not only
                  \* with mmap
    RegLength,    \* REG_LENGTH
    RegSize,      \* REG_SIZE
    Sizes,        \* bytes of a request
    MaxPos,       \* bound: file position
    Faults        \* which calls may fail, a subset of AxiFaults

\* ioremap, cdev (alloc_chrdev_region, cdev_add), class and device are steps of
\* probe; copy is copy_to_user or copy_from_user, and nomem the kzalloc of as many
\* bytes as the caller asks for.
AxiFaults == {"ioremap", "cdev", "class", "device", "copy", "nomem"}

ASSUME AxiSizesAssumption ==
    /\ RegLength \in Nat \ {0} /\ RegSize \in Nat \ {0}
    /\ Sizes \subseteq Nat /\ MaxPos \in Nat /\ RegLength <= MaxPos
ASSUME AxiCallersAssumption == Callers \subseteq Files
ASSUME AxiFaultsAssumption == Faults \subseteq AxiFaults

Regs == 0 .. RegLength - 1

NoDevice == "none"

\* What register k holds at first, what a file's caller has as word k of its
\* buffer, and the zero kzalloc puts in every word.
Reset(k) == <<"reset", k>>
Word(f, k) == <<f, k>>
Zero == <<"zero", 0>>
WordsFor(k) == {Reset(k)} \cup {Word(f, k) : f \in Files}

VARIABLES
    state,        \* a device: "out", "cdev", "class", "node", "in" or "failed"
    regs,         \* dev_data.regs: a device, "none" or "error"
    cdev,         \* dev_data.devid and cdev: the device they are of, or "none"
    class,        \* dev_data.class: "none", "live", "error" or "freed"
    mapped,       \* devices whose registers are mapped
    reg,          \* the registers of the device that is in
    open,         \* files open, or closed
    map,          \* the device simple_mmap gave a file, or "none"
    pos,          \* file->f_pos
    call,         \* "idle", "read", "write" or "done" with either
    op, size, addr, buf, start,
    seen,         \* history: what each register has held since the call began
    bad           \* the use of something that is not there, see Uses

(***************************************************************************)
(* What was used although it is not there.                                 *)
(* twice   the class cdevice_exit has unregistered                         *)
(* stale   registers, a class or a number of another device, or of none    *)
(* nomem   the buffer kzalloc refused                                      *)
(***************************************************************************)
Uses == {"none", "twice", "stale", "nomem"}

deviceVars == <<state, regs, cdev, class, mapped>>
fileVars == <<open, map, pos>>
callVars == <<call, op, size, addr, buf, start>>
vars == <<deviceVars, reg, fileVars, callVars, seen, bad>>

TypeOK ==
    /\ state \in [Devices -> {"out", "cdev", "class", "node", "in", "failed"}]
    /\ regs \in Devices \cup {NoDevice, "error"}
    /\ cdev \in Devices \cup {NoDevice}
    /\ class \in {"none", "live", "error", "freed"}
    /\ mapped \subseteq Devices
    /\ DOMAIN reg = Regs /\ \A k \in Regs : reg[k] \in WordsFor(k)
    /\ open \subseteq Files
    /\ map \in [Files -> Devices \cup {NoDevice, "error"}]
    /\ pos \in [Files -> 0 .. MaxPos]
    /\ call \in [Files -> {"idle", "read", "write", "done"}]
    /\ op \in [Files -> {"read", "write"}]
    /\ size \in [Files -> {0} \cup Sizes]
    /\ \A f \in Files :
          /\ addr[f] \in 0 .. MaxPos
          /\ \A k \in Regs : /\ buf[f][k] \in {Zero} \cup WordsFor(k)
                             /\ seen[f][k] \subseteq WordsFor(k)
    /\ start \in [Files -> 0 .. MaxPos]
    /\ bad \in Uses

Init ==
    /\ state = [d \in Devices |-> "out"]
    /\ regs = NoDevice /\ cdev = NoDevice /\ class = "none" /\ mapped = {}
    /\ reg = [k \in Regs |-> Reset(k)]
    /\ open = {}
    /\ map = [f \in Files |-> NoDevice]
    /\ pos = [f \in Files |-> 0]
    /\ call = [f \in Files |-> "idle"]
    /\ op = [f \in Files |-> "read"]
    /\ size = [f \in Files |-> 0]
    /\ addr = [f \in Files |-> 0]
    /\ buf = [f \in Files |-> [k \in Regs |-> Zero]]
    /\ start = [f \in Files |-> 0]
    /\ seen = [f \in Files |-> [k \in Regs |-> {}]]
    /\ bad = "none"
-----------------------------------------------------------------------------
(***************************************************************************)
(* transmit_control_probe, cdevice_init and transmit_control_remove.       *)
(***************************************************************************)
Probing == {d \in Devices : state[d] \in {"cdev", "class", "node"}}

At(d, s) == state[d] = s
Goto(d, s) == state' = [state EXCEPT ![d] = s]

\* Probe returns an error: what the kernel manages, the mapping, is released.
Fail(d) == Goto(d, "failed") /\ mapped' = mapped \ {d}

\* What probe writes to dev_data.regs.
KeepRegs(d) == regs
TakeRegs(d) == d

MapRegisters(d) ==
    /\ At(d, "out") /\ Probing = {}
    /\ \/ /\ regs' = TakeRegs(d)
          /\ mapped' = mapped \cup {d}
          /\ Goto(d, "cdev")
       \/ /\ "ioremap" \in Faults
          /\ regs' = "error"
          /\ Fail(d)
    /\ UNCHANGED <<cdev, class, reg, fileVars, callVars, seen, bad>>

\* cdev_add comes after devid and cdev are written, alloc_chrdev_region before.
AddCdev(d) ==
    /\ At(d, "cdev")
    /\ \/ cdev' = d /\ Goto(d, "class") /\ UNCHANGED mapped
       \/ "cdev" \in Faults /\ cdev' \in {cdev, d} /\ Fail(d)
    /\ UNCHANGED <<regs, class, reg, fileVars, callVars, seen, bad>>

\* The class has one name, so a second device cannot create it.
CreateClass(d) ==
    /\ At(d, "class")
    /\ \/ /\ \A e \in Devices : state[e] # "in"
          /\ class' = "live"
          /\ Goto(d, "node")
          /\ UNCHANGED mapped
       \/ /\ (\E e \in Devices : state[e] = "in") \/ "class" \in Faults
          /\ class' = "error"
          /\ Fail(d)
    /\ UNCHANGED <<regs, cdev, reg, fileVars, callVars, seen, bad>>

CreateNode(d) ==
    /\ At(d, "node")
    /\ \/ /\ Goto(d, "in")
          /\ reg' = [k \in Regs |-> Reset(k)]
          /\ UNCHANGED <<class, mapped>>
       \/ /\ "device" \in Faults
          /\ class' = "freed"
          /\ Fail(d)
          /\ UNCHANGED reg
    /\ UNCHANGED <<regs, cdev, fileVars, callVars, seen, bad>>

\* The kernel unloads the module only when none of its files is open.
\* cdevice_exit uses the class, the number and the cdev of dev_data, and the class
\* again, in class_destroy, after class_unregister has released it.
Remove(d) ==
    /\ At(d, "in") /\ open = {} /\ Probing = {}
    /\ bad' = IF class = "live" /\ cdev = d THEN "twice" ELSE "stale"
    /\ class' = "freed"
    /\ mapped' = mapped \ {d}
    /\ Goto(d, "out")
    /\ UNCHANGED <<regs, cdev, reg, fileVars, callVars, seen>>
-----------------------------------------------------------------------------
(***************************************************************************)
(* The file operations.                                                    *)
(***************************************************************************)
Idle(f) == f \in open /\ call[f] = "idle"

\* tc_cdev_open.
Open(f) ==
    /\ f \notin open /\ \E d \in Devices : state[d] = "in"
    /\ open' = open \cup {f}
    /\ pos' = [pos EXCEPT ![f] = 0]
    /\ UNCHANGED <<deviceVars, reg, map, callVars, seen, bad>>

\* tc_cdev_release, after the last mapping is gone.
Release(f) ==
    /\ Idle(f)
    /\ open' = open \ {f}
    /\ map' = [map EXCEPT ![f] = NoDevice]
    /\ pos' = [pos EXCEPT ![f] = 0]
    /\ UNCHANGED <<deviceVars, reg, callVars, seen, bad>>

\* llseek.  SEEK_SET and SEEK_CUR go to the offset, since tc->addr stays 0, and
\* SEEK_END to REG_LENGTH, a number of registers; for any other whence newpos is
\* not initialised.  Negative positions are refused.
Llseek(f) ==
    /\ Idle(f) /\ f \in Callers
    /\ \E newpos \in 0 .. MaxPos : pos' = [pos EXCEPT ![f] = newpos]
    /\ UNCHANGED <<deviceVars, reg, open, map, callVars, seen, bad>>

\* The registers a request is for: read_size and write_size.
Count(f) ==
    IF size[f] \div RegSize < RegLength THEN size[f] \div RegSize ELSE RegLength

\* The loop of read and write ends here.
LoopOneShort(f) == addr[f] + 1 >= Count(f)
LoopEnds(f) == addr[f] >= Count(f)

\* An access reaches the registers of the device whose node was opened.
Reachable(d) == d \in mapped /\ state[d] = "in"

\* The result of kzalloc is not looked at: a buffer it refused is used.
Begin(f, o) ==
    /\ Idle(f) /\ f \in Callers
    /\ op' = [op EXCEPT ![f] = o]
    /\ \E n \in Sizes : size' = [size EXCEPT ![f] = n]
    /\ addr' = [addr EXCEPT ![f] = pos[f] \div RegSize]
    /\ start' = [start EXCEPT ![f] = pos[f]]
    /\ buf' = [buf EXCEPT ![f] = [k \in Regs |-> Zero]]
    /\ seen' = [seen EXCEPT ![f] = [k \in Regs |-> {reg[k]}]]
    /\ UNCHANGED bad \/ ("nomem" \in Faults /\ bad' = "nomem")
    /\ UNCHANGED <<deviceVars, reg, fileVars>>

\* tc_cdev_read up to its loop.
Read(f) ==
    /\ Begin(f, "read")
    /\ call' = [call EXCEPT ![f] = "read"]

\* tc_cdev_write up to its loop.  The k-th word of the caller is in the k-th word
\* of the buffer.
Write(f) ==
    /\ Begin(f, "write")
    /\ call' = [call EXCEPT ![f] = "write"]

\* A register changes, and every call under way may see it.
Store(d, k, w) ==
    IF Reachable(d)
    THEN /\ reg' = [reg EXCEPT ![k] = w]
         /\ seen' = [f \in Files |->
                       [seen[f] EXCEPT ![k] =
                           IF call[f] \in {"read", "write"} THEN @ \cup {w} ELSE @]]
         /\ UNCHANGED bad
    ELSE bad' = "stale" /\ UNCHANGED <<reg, seen>>

ReadRegister(f) ==
    /\ call[f] = "read" /\ ~LoopEnds(f)
    /\ bad' = IF Reachable(regs) THEN bad ELSE "stale"
    /\ buf' = [buf EXCEPT ![f][addr[f]] =
                  IF Reachable(regs) THEN reg[addr[f]] ELSE Zero]
    /\ addr' = [addr EXCEPT ![f] = @ + 1]
    /\ UNCHANGED <<deviceVars, reg, fileVars, call, op, size, start, seen>>

\* The word of its buffer write takes for the register.
NextWord(f) == Word(f, addr[f] + 1)
ThisWord(f) == Word(f, addr[f])

WriteRegister(f) ==
    /\ call[f] = "write" /\ ~LoopEnds(f)
    /\ Store(regs, addr[f], ThisWord(f))
    /\ addr' = [addr EXCEPT ![f] = @ + 1]
    /\ UNCHANGED <<deviceVars, fileVars, call, op, size, buf, start>>

\* The locals of a call, and what is remembered of it, end with it.
Forget(f) ==
    /\ call' = [call EXCEPT ![f] = "idle"]
    /\ op' = [op EXCEPT ![f] = "read"]
    /\ size' = [size EXCEPT ![f] = 0]
    /\ addr' = [addr EXCEPT ![f] = 0]
    /\ start' = [start EXCEPT ![f] = 0]
    /\ buf' = [buf EXCEPT ![f] = [k \in Regs |-> Zero]]
    /\ seen' = [seen EXCEPT ![f] = [k \in Regs |-> {}]]

\* copy_to_user of read, and copy_from_user of write, which comes first.
CopyFails(f) ==
    /\ "copy" \in Faults
    /\ \/ call[f] = "read" /\ LoopEnds(f)
       \/ call[f] = "write" /\ addr[f] = start[f] \div RegSize
    /\ Forget(f)
    /\ UNCHANGED <<deviceVars, reg, fileVars, bad>>

\* file->f_pos is moved on, which pread and pwrite leave so; read and write of the
\* kernel put back the position they passed as offset.
Finish(f) ==
    /\ call[f] \in {"read", "write"} /\ LoopEnds(f)
    /\ call' = [call EXCEPT ![f] = "done"]
    /\ \E p \in {pos[f], pos[f] + Count(f) * RegSize} :
          p <= MaxPos /\ pos' = [pos EXCEPT ![f] = p]
    /\ UNCHANGED <<deviceVars, reg, open, map, op, size, addr, buf, start, seen, bad>>

Return(f) ==
    /\ call[f] = "done"
    /\ Forget(f)
    /\ UNCHANGED <<deviceVars, reg, fileVars, bad>>

\* simple_mmap maps the pages of the registers from the first one on.
SimpleMmap(f) ==
    /\ Idle(f) /\ map[f] = NoDevice
    /\ map' = [map EXCEPT ![f] = regs]
    /\ bad' = IF Reachable(regs) THEN bad ELSE "stale"
    /\ UNCHANGED <<deviceVars, reg, open, pos, callVars, seen>>

\* A program stores to its mapping, as io_write_mapped_device does.
MappedStore(f) ==
    /\ map[f] # NoDevice
    /\ \E k \in Regs : Store(map[f], k, Word(f, k))
    /\ UNCHANGED <<deviceVars, fileVars, callVars>>
-----------------------------------------------------------------------------
ProbeStep(d) == MapRegisters(d) \/ AddCdev(d) \/ CreateClass(d) \/ CreateNode(d)

FileStep(f) ==
    \/ Open(f) \/ Release(f) \/ Llseek(f) \/ SimpleMmap(f) \/ MappedStore(f)
    \/ Read(f) \/ Write(f) \/ ReadRegister(f) \/ WriteRegister(f)
    \/ CopyFails(f) \/ Finish(f) \/ Return(f)

\* The kernel looks for a class to destroy among those there are; after any other
\* use of what is not there anything may happen.
GoesOn == bad \in {"none", "twice"}

Next ==
    /\ GoesOn
    /\ \/ \E d \in Devices : ProbeStep(d) \/ Remove(d)
       \/ \E f \in Files : FileStep(f)

Spec == Init /\ [][Next]_vars
-----------------------------------------------------------------------------
(***************************************************************************)
(* Properties.                                                             *)
(***************************************************************************)

(***************************************************************************)
(* A call that began at position 0 is complete when it returns: every word *)
(* read was in its register at some time during the call, and every word   *)
(* written was, although others store to the same registers meanwhile.     *)
(***************************************************************************)
CallsFromStartComplete ==
    \A f \in Files : call[f] = "done" /\ start[f] = 0 =>
        \A k \in 0 .. Count(f) - 1 :
            (IF op[f] = "read" THEN buf[f][k] ELSE Word(f, k)) \in seen[f][k]

(***************************************************************************)
(* Files, mappings and the removal of a device use what that device's      *)
(* probe put in dev_data, unless a second device is probed meanwhile: all  *)
(* share one dev_data, and also the probe that fails writes to it.  With   *)
(* one device this leaves two uses of what is not there, each of what the  *)
(* same call had or asked for: the class at every removal, destroyed after *)
(* it was unregistered, and the buffer of a size kzalloc refused.          *)
(***************************************************************************)
StaleOnlyWithTwoDevices ==
    [][bad # "stale" /\ bad' = "stale" =>
         \E d, e \in Devices : d # e /\ state[d] = "in" /\ state[e] # "out"]_vars
=============================================================================
