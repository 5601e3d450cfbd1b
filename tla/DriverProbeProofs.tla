------------------------- MODULE DriverProbeProofs -------------------------
(***************************************************************************)
(* Proofs about DriverProbe, for every number of devices and channels and  *)
(* every set of calls that may fail.                                       *)
(***************************************************************************)
EXTENDS DriverProbe, FiniteSetTheorems, TLAPS

(***************************************************************************)
(* The type invariant but for total_count, whose bound rests on what it    *)
(* counts.                                                                 *)
(***************************************************************************)
LoopType ==
    /\ module \in {"loaded", "exiting", "unloaded"}
    /\ state \in [Devices -> {"out", "probing", "in", "failed", "removing"}]
    /\ count \in [Devices -> 0 .. MaxChannels]
    /\ i \in [Devices -> 0 .. MaxChannels]
    /\ place \in [Devices -> {"request", "add", "create", "alloc", "irq", "queue",
                              "next", "exit", "release"}]

ChannelType ==
    /\ chan \subseteq Channels /\ cdev \subseteq Channels /\ table \subseteq Channels
    /\ irq \subseteq Channels /\ queue \subseteq Channels
    /\ opened \subseteq Channels /\ bad \subseteq Channels
    /\ node \in [Channels -> {"none", "live", "error"}]
    /\ class \in {"none", "live", "freed", "torn"}

(***************************************************************************)
(* The loops of probe and remove.  i is a channel of the device while one  *)
(* of them runs, and probes and removals run in different phases of the    *)
(* module's life.                                                          *)
(***************************************************************************)
ProbePlaces == {"request", "add", "create", "alloc", "irq", "queue", "next"}

Phases ==
    /\ module # "loaded" => \A d \in Devices : state[d] # "probing"
    /\ \A d \in Devices :
          /\ state[d] \in {"probing", "failed"} => i[d] \in 1 .. count[d]
          /\ state[d] = "probing" => place[d] \in ProbePlaces
          /\ state[d] = "removing" =>
                /\ module = "exiting"
                /\ place[d] \in {"exit", "release"}
                /\ place[d] = "exit" => i[d] \in 1 .. count[d]
    /\ module = "unloaded" => \A d \in Devices : state[d] \in {"out", "failed"}

(***************************************************************************)
(* total_count counts the channels whose turn of probe's loop has ended    *)
(* and that cdevice_exit has not seen, those of failed probes included.    *)
(***************************************************************************)
Counted ==
    {c \in Channels :
        \/ state[Device(c)] \in {"probing", "failed"} /\ c[2] < i[Device(c)]
        \/ state[Device(c)] = "in" /\ c[2] <= count[Device(c)]
        \/ /\ state[Device(c)] = "removing" /\ place[Device(c)] = "exit"
           /\ i[Device(c)] <= c[2] /\ c[2] <= count[Device(c)]}

TotalExact == total = Cardinality(Counted)

(***************************************************************************)
(* What a channel has: a node or a character device only if it is counted, *)
(* is being created or is left by a failed probe, a DMA channel only while *)
(* its device is not out.                                                  *)
(***************************************************************************)
Created(c, places) ==
    state[Device(c)] = "probing" /\ c = Current(Device(c)) /\ place[Device(c)] \in places

HeldAt(c) ==
    /\ node[c] # "none" =>
          \/ c \in Counted \/ state[Device(c)] = "failed"
          \/ Created(c, {"alloc", "irq", "queue", "next"})
    /\ c \in cdev =>
          \/ c \in Counted \/ state[Device(c)] = "failed"
          \/ Created(c, ProbePlaces \ {"request", "add"})
    /\ c \in chan => state[Device(c)] # "out"

Held == \A c \in Channels : HeldAt(c)

(***************************************************************************)
(* The class: created with the first node, freed with the last counted     *)
(* channel, torn down by an error path after which a node is an error.     *)
(***************************************************************************)
ClassKnown ==
    /\ class = "none" =>
          total = 0 /\ \A c \in Channels : node[c] = "none"
    /\ class = "freed" => total = 0 /\ module # "loaded"
    /\ class = "live" =>
          \/ total > 0
          \/ \E d \in Devices : state[d] \in {"failed", "probing"}
    /\ (\E c \in Channels : node[c] = "error") => class \in {"torn", "freed"}
    /\ \A d \in Devices :
          state[d] = "probing" /\ place[d] \in {"alloc", "irq", "queue", "next"} => class # "none"

(***************************************************************************)
(* A channel with an interrupt has all that its users need, but for the    *)
(* wait queue of the channel being created.                                *)
(***************************************************************************)
HasAll(c) ==
    c \in irq =>
        /\ Allocated(c) /\ c \in chan /\ c \in table
        /\ c \in queue \/ Created(c, {"queue"})

Gained(d) ==
    state[d] = "probing" =>
        /\ place[d] # "request" => Current(d) \in chan
        /\ place[d] \in {"irq", "queue"} => Current(d) \in table

IrqHasAll == (\A c \in Channels : HasAll(c)) /\ (\A d \in Devices : Gained(d))

ProbeInv == LoopType /\ ChannelType /\ Phases /\ TotalExact /\ Held /\ ClassKnown /\ IrqHasAll
-----------------------------------------------------------------------------
LEMMA ChannelFacts ==
  /\ \A c \in Channels : Device(c) \in Devices /\ c[2] \in 1 .. MaxChannels /\ c[2] \in Nat
  /\ \A d \in Devices : \A n \in 1 .. MaxChannels :
        <<d, n>> \in Channels /\ Device(<<d, n>>) = d /\ <<d, n>>[2] = n
  /\ \A c \in Channels : \A d, n : Device(c) = d /\ c[2] = n => c = <<d, n>>
  /\ MaxChannels \in Nat \ {0}
  BY ChannelsAssumption DEF Channels, Device

\* Sets of channels are finite, and total_count moves by one with them.
LEMMA ChannelSets ==
  ASSUME NEW S \in SUBSET Channels
  PROVE  /\ Cardinality(S) \in 0 .. Cardinality(Channels)
         /\ Cardinality(S) \in Nat
         /\ Cardinality(S) = 0 <=> S = {}
         /\ \A c \in S : Cardinality(S \ {c}) = Cardinality(S) - 1 /\ Cardinality(S) > 0
         /\ \A c \in Channels \ S : Cardinality(S \cup {c}) = Cardinality(S) + 1
  <1>0. IsFiniteSet(Channels)
    <2>1. IsFiniteSet(1 .. MaxChannels)
      BY ChannelsAssumption, FS_Interval
    <2> QED
      BY <2>1, DevicesAssumption, FS_Product DEF Channels
  <1>1. IsFiniteSet(S) /\ Cardinality(S) <= Cardinality(Channels)
    BY <1>0, FS_Subset
  <1>2. Cardinality(S) \in Nat /\ Cardinality(Channels) \in Nat
    BY <1>0, <1>1, FS_CardinalityType
  <1>3. Cardinality(S) = 0 <=> S = {}
    BY <1>1, FS_EmptySet
  <1>4. ASSUME NEW c \in S
        PROVE  Cardinality(S \ {c}) = Cardinality(S) - 1 /\ Cardinality(S) > 0
    <2>1. Cardinality(S \ {c}) = Cardinality(S) - 1
      BY <1>1, <1>4, FS_RemoveElement
    <2> QED
      BY <1>2, <1>3, <1>4, <2>1
  <1>5. ASSUME NEW c \in Channels \ S
        PROVE  Cardinality(S \cup {c}) = Cardinality(S) + 1
    BY <1>1, <1>5, FS_AddElement
  <1> QED
    BY <1>1, <1>2, <1>3, <1>4, <1>5

LEMMA ProbeTypeParts == ProbeInv => TypeOK
  <1> SUFFICES ASSUME ProbeInv PROVE TypeOK
    OBVIOUS
  <1>1. Counted \in SUBSET Channels
    BY DEF Counted
  <1>2. total \in 0 .. Cardinality(Channels)
    BY <1>1, ChannelSets DEF ProbeInv, TotalExact
  <1> QED
    BY <1>2 DEF ProbeInv, LoopType, ChannelType, TypeOK

LEMMA ProbeInit == Init => ProbeInv
  <1> SUFFICES ASSUME Init PROVE ProbeInv
    OBVIOUS
  <1>0. MaxChannels \in Nat \ {0}
    BY ChannelsAssumption
  <1>1. LoopType
    BY <1>0 DEF Init, LoopType
  <1>2. ChannelType
    BY DEF Init, ChannelType
  <1>3. Phases
    BY DEF Init, Phases
  <1>4. Counted = {}
    BY ChannelFacts DEF Init, Counted
  <1>5. TotalExact
    BY <1>4, FS_EmptySet DEF Init, TotalExact
  <1>6. Held /\ ClassKnown /\ IrqHasAll
    BY DEF Init, Held, HeldAt, ClassKnown, IrqHasAll, HasAll, Gained
  <1> QED
    BY <1>1, <1>2, <1>3, <1>5, <1>6 DEF ProbeInv

\* The channel a loop is at is a channel.
LEMMA CurrentFacts ==
  ASSUME LoopType, Phases, NEW d \in Devices,
         state[d] = "probing" \/ (state[d] = "removing" /\ place[d] = "exit")
  PROVE  /\ Current(d) \in Channels /\ Device(Current(d)) = d /\ Current(d)[2] = i[d]
         /\ i[d] \in 1 .. count[d] /\ count[d] \in 1 .. MaxChannels /\ i[d] \in Nat
  <1>1. i[d] \in 1 .. count[d] /\ count[d] \in 0 .. MaxChannels /\ MaxChannels \in Nat
    BY ChannelFacts DEF Phases, LoopType
  <1>2. i[d] \in 1 .. MaxChannels /\ count[d] \in 1 .. MaxChannels
    BY <1>1
  <1> QED
    BY <1>1, <1>2, ChannelFacts DEF Current

LEMMA PhasesStep ==
  ASSUME LoopType, Phases, [Next]_vars
  PROVE  LoopType' /\ Phases'
  <1>m. MaxChannels \in Nat \ {0} /\ \A d \in Devices : count[d] \in 0 .. MaxChannels
    BY ChannelsAssumption DEF LoopType
  <1>1. ASSUME NEW d \in Devices, Probe(d) PROVE LoopType' /\ Phases'
    <2>1. /\ module = "loaded" /\ UNCHANGED <<module, count>>
          /\ state' = [state EXCEPT ![d] = IF count[d] = 0 THEN "in" ELSE "probing"]
          /\ i' = [i EXCEPT ![d] = IF count[d] = 0 THEN 0 ELSE 1]
          /\ place' = [place EXCEPT ![d] = "request"]
      BY <1>1 DEF Probe, Goto
    <2>2. LoopType'
      BY <1>m, <2>1 DEF LoopType
    <2>3. /\ \A e \in Devices \ {d} : state'[e] = state[e] /\ i'[e] = i[e] /\ place'[e] = place[e]
          /\ state'[d] = "in" \/ (state'[d] = "probing" /\ i'[d] \in 1 .. count[d])
          /\ place'[d] = "request"
      BY <1>m, <2>1 DEF LoopType
    <2>4. Phases'
      BY <2>1, <2>3 DEF Phases, ProbePlaces
    <2> QED
      BY <2>2, <2>4
  <1>2. ASSUME NEW d \in Devices, ProbeStep(d) PROVE LoopType' /\ Phases'
    <2>1. state[d] = "probing" /\ UNCHANGED <<module, count>>
      BY <1>2 DEF ProbeStep, RequestChannel, AddCdev, CreateNode, AllocBuffers, RequestIrq, InitQueue,
                  NextChannel, At
    <2>2. CASE NextChannel(d)
      <3>1. /\ place' = [place EXCEPT ![d] = "request"]
            /\ \/ i[d] < count[d] /\ i' = [i EXCEPT ![d] = i[d] + 1] /\ UNCHANGED state
               \/ state' = [state EXCEPT ![d] = "in"] /\ UNCHANGED i
        BY <2>2 DEF NextChannel, Goto
      <3>2. i[d] \in 1 .. count[d] /\ count[d] \in 1 .. MaxChannels /\ i[d] \in Nat
        BY <2>1, CurrentFacts
      <3>3. /\ \A e \in Devices \ {d} : state'[e] = state[e] /\ i'[e] = i[e] /\ place'[e] = place[e]
            /\ state'[d] = "in" \/ (state'[d] = "probing" /\ i'[d] \in 1 .. count[d])
            /\ place'[d] = "request" /\ i'[d] \in 0 .. MaxChannels
        BY <1>m, <2>1, <3>1, <3>2 DEF LoopType
      <3>4. LoopType'
        BY <2>1, <3>1, <3>3 DEF LoopType
      <3> QED
        BY <2>1, <3>3, <3>4 DEF Phases, ProbePlaces
    <2>3. CASE ~NextChannel(d)
      <3>1. /\ UNCHANGED i
            /\ \/ state' = [state EXCEPT ![d] = "failed"] /\ UNCHANGED place
               \/ UNCHANGED state /\ \E p \in ProbePlaces : place' = [place EXCEPT ![d] = p]
        BY <1>2, <2>3
           DEF ProbeStep, RequestChannel, AddCdev, CreateNode, AllocBuffers, RequestIrq, InitQueue,
               Goto, Fail, ProbePlaces
      <3>2. LoopType'
        BY <2>1, <3>1 DEF LoopType, ProbePlaces
      <3>3. /\ \A e \in Devices \ {d} : state'[e] = state[e] /\ place'[e] = place[e]
            /\ state'[d] = "failed" \/ (state'[d] = "probing" /\ place'[d] \in ProbePlaces)
        BY <2>1, <3>1 DEF LoopType
      <3>4. Phases'
        BY <2>1, <3>1, <3>3 DEF Phases
      <3> QED
        BY <3>2, <3>4
    <2> QED
      BY <2>2, <2>3
  <1>3. ASSUME NEW d \in Devices, Remove(d) PROVE LoopType' /\ Phases'
    <2>1. /\ module = "exiting" /\ UNCHANGED <<module, count>>
          /\ state' = [state EXCEPT ![d] = "removing"]
          /\ i' = [i EXCEPT ![d] = IF count[d] = 0 THEN 0 ELSE 1]
          /\ place' = [place EXCEPT ![d] = IF count[d] = 0 THEN "release" ELSE "exit"]
      BY <1>3 DEF Remove, Goto
    <2>2. LoopType'
      BY <1>m, <2>1 DEF LoopType
    <2>3. /\ \A e \in Devices \ {d} : state'[e] = state[e] /\ i'[e] = i[e] /\ place'[e] = place[e]
          /\ state'[d] = "removing"
          /\ place'[d] = "release" \/ (place'[d] = "exit" /\ i'[d] \in 1 .. count[d])
      BY <1>m, <2>1 DEF LoopType
    <2>4. Phases'
      BY <2>1, <2>3 DEF Phases
    <2> QED
      BY <2>2, <2>4
  <1>4. ASSUME NEW d \in Devices, ExitChannel(d) PROVE LoopType' /\ Phases'
    <2>1. /\ state[d] = "removing" /\ place[d] = "exit" /\ UNCHANGED <<module, state, count>>
          /\ \/ i[d] < count[d] /\ i' = [i EXCEPT ![d] = i[d] + 1] /\ UNCHANGED place
             \/ place' = [place EXCEPT ![d] = "release"] /\ UNCHANGED i
      BY <1>4 DEF ExitChannel, Goto
    <2>2. i[d] \in 1 .. count[d] /\ count[d] \in 1 .. MaxChannels /\ i[d] \in Nat
      BY <2>1, CurrentFacts
    <2>3. /\ \A e \in Devices \ {d} : i'[e] = i[e] /\ place'[e] = place[e]
          /\ i'[d] \in 0 .. MaxChannels
          /\ place'[d] = "release" \/ (place'[d] = "exit" /\ i'[d] \in 1 .. count[d])
      BY <1>m, <2>1, <2>2 DEF LoopType
    <2>4. LoopType'
      BY <2>1, <2>3 DEF LoopType
    <2> QED
      BY <2>1, <2>3, <2>4 DEF Phases
  <1>5. ASSUME NEW d \in Devices, ReleaseChannels(d) PROVE LoopType' /\ Phases'
    <2>1. /\ UNCHANGED <<module, count, i, place>> /\ state[d] = "removing"
          /\ state' = [state EXCEPT ![d] = "out"]
      BY <1>5 DEF ReleaseChannels, loopVars
    <2>2. \A e \in Devices : state'[e] = IF e = d THEN "out" ELSE state[e]
      BY <2>1 DEF LoopType
    <2>3. LoopType'
      BY <2>1 DEF LoopType
    <2> QED
      BY <2>1, <2>2, <2>3 DEF Phases
  <1>6. CASE ModuleExit
    BY <1>6 DEF ModuleExit, loopVars, LoopType, Phases
  <1>7. CASE ModuleUnloaded
    BY <1>7 DEF ModuleUnloaded, loopVars, LoopType, Phases
  <1>8. ASSUME UNCHANGED <<module, state, count, i, place>> PROVE LoopType' /\ Phases'
    BY <1>8 DEF LoopType, Phases
  <1>9. ASSUME NEW c \in Channels, Open(c) \/ Poll(c) \/ Close(c) \/ Interrupt(c)
        PROVE  UNCHANGED <<module, state, count, i, place>>
    BY <1>9 DEF Open, Poll, Close, Interrupt, loopVars
  <1>10. UNCHANGED vars => UNCHANGED <<module, state, count, i, place>>
    BY DEF vars, loopVars
  <1> QED
    BY <1>1, <1>2, <1>3, <1>4, <1>5, <1>6, <1>7, <1>8, <1>9, <1>10 DEF Next, RemoveStep
-----------------------------------------------------------------------------
LEMMA CountedNext ==
  ASSUME LoopType, Phases, NEW d \in Devices, NextChannel(d)
  PROVE  Current(d) \in Channels \ Counted /\ Counted' = Counted \cup {Current(d)}
  <1>1. /\ state[d] = "probing" /\ UNCHANGED count
        /\ \/ i[d] < count[d] /\ i' = [i EXCEPT ![d] = i[d] + 1] /\ UNCHANGED state
           \/ i[d] = count[d] /\ state' = [state EXCEPT ![d] = "in"] /\ UNCHANGED i
        /\ place' = [place EXCEPT ![d] = "request"]
    BY DEF NextChannel, At, Goto
  <1>2. /\ Current(d) \in Channels /\ Device(Current(d)) = d /\ Current(d)[2] = i[d]
        /\ i[d] \in 1 .. count[d] /\ count[d] \in 1 .. MaxChannels /\ i[d] \in Nat
    BY <1>1, CurrentFacts
  <1>3. Current(d) \notin Counted
    BY <1>1, <1>2 DEF Counted
  <1>4. ASSUME NEW c \in Channels PROVE c \in Counted' <=> c \in Counted \/ c = Current(d)
    <2>0. Device(c) \in Devices /\ c[2] \in Nat
      BY ChannelFacts
    <2>1. CASE Device(c) # d
      <3>1. /\ state'[Device(c)] = state[Device(c)] /\ i'[Device(c)] = i[Device(c)]
            /\ place'[Device(c)] = place[Device(c)] /\ c # Current(d)
        BY <1>1, <1>2, <2>0, <2>1 DEF LoopType
      <3> QED
        BY <1>1, <3>1 DEF Counted
    <2>2. CASE Device(c) = d
      <3>1. c = Current(d) <=> c[2] = i[d]
        BY <1>2, <2>2, ChannelFacts DEF Current
      <3>2. c \in Counted <=> c[2] < i[d]
        BY <1>1, <2>2 DEF Counted
      <3>3. c \in Counted' <=> c[2] <= i[d]
        <4>1. CASE i[d] < count[d] /\ i' = [i EXCEPT ![d] = i[d] + 1] /\ UNCHANGED state
          <5>1. i'[d] = i[d] + 1 /\ state'[d] = "probing"
            BY <1>1, <4>1 DEF LoopType
          <5> QED
            BY <1>2, <2>0, <2>2, <5>1 DEF Counted
        <4>2. CASE i[d] = count[d] /\ state' = [state EXCEPT ![d] = "in"] /\ UNCHANGED i
          <5>1. state'[d] = "in" /\ count'[d] = i[d]
            BY <1>1, <4>2 DEF LoopType
          <5> QED
            BY <2>2, <5>1 DEF Counted
        <4> QED
          BY <1>1, <4>1, <4>2
      <3> QED
        BY <1>2, <2>0, <3>1, <3>2, <3>3
    <2> QED
      BY <2>1, <2>2
  <1>5. Counted \subseteq Channels /\ Counted' \subseteq Channels
    BY DEF Counted
  <1> QED
    BY <1>2, <1>3, <1>4, <1>5

LEMMA CountedExit ==
  ASSUME LoopType, Phases, NEW d \in Devices, ExitChannel(d)
  PROVE  Current(d) \in Counted /\ Counted' = Counted \ {Current(d)}
  <1>1. /\ state[d] = "removing" /\ place[d] = "exit" /\ UNCHANGED <<state, count>>
        /\ \/ i[d] < count[d] /\ i' = [i EXCEPT ![d] = i[d] + 1] /\ UNCHANGED place
           \/ i[d] = count[d] /\ place' = [place EXCEPT ![d] = "release"] /\ UNCHANGED i
    BY DEF ExitChannel, Goto
  <1>2. /\ Current(d) \in Channels /\ Device(Current(d)) = d /\ Current(d)[2] = i[d]
        /\ i[d] \in 1 .. count[d] /\ count[d] \in 1 .. MaxChannels /\ i[d] \in Nat
    BY <1>1, CurrentFacts
  <1>3. Current(d) \in Counted
    BY <1>1, <1>2 DEF Counted
  <1>4. ASSUME NEW c \in Channels PROVE c \in Counted' <=> c \in Counted /\ c # Current(d)
    <2>0. Device(c) \in Devices /\ c[2] \in Nat /\ count[d] \in Nat
      BY <1>2, ChannelFacts
    <2>1. CASE Device(c) # d
      <3>1. /\ i'[Device(c)] = i[Device(c)] /\ place'[Device(c)] = place[Device(c)]
            /\ c # Current(d)
        BY <1>1, <1>2, <2>0, <2>1 DEF LoopType
      <3> QED
        BY <1>1, <3>1 DEF Counted
    <2>2. CASE Device(c) = d
      <3>1. c = Current(d) <=> c[2] = i[d]
        BY <1>2, <2>2, ChannelFacts DEF Current
      <3>2. c \in Counted <=> i[d] <= c[2] /\ c[2] <= count[d]
        BY <1>1, <2>2 DEF Counted
      <3>3. CASE i[d] < count[d] /\ i' = [i EXCEPT ![d] = i[d] + 1] /\ UNCHANGED place
        <4>1. i'[d] = i[d] + 1
          BY <3>3 DEF LoopType
        <4>2. c \in Counted' <=> i[d] + 1 <= c[2] /\ c[2] <= count[d]
          BY <1>1, <2>2, <3>3, <4>1 DEF Counted
        <4> QED
          BY <1>2, <2>0, <3>1, <3>2, <4>2
      <3>4. CASE i[d] = count[d] /\ place' = [place EXCEPT ![d] = "release"] /\ UNCHANGED i
        <4>1. place'[d] = "release"
          BY <3>4 DEF LoopType
        <4>2. c \notin Counted'
          BY <1>1, <2>2, <4>1 DEF Counted
        <4> QED
          BY <1>2, <2>0, <3>1, <3>2, <3>4, <4>2
      <3> QED
        BY <1>1, <3>3, <3>4
    <2> QED
      BY <2>1, <2>2
  <1>5. Counted \subseteq Channels /\ Counted' \subseteq Channels
    BY DEF Counted
  <1> QED
    BY <1>3, <1>4, <1>5

\* Every other step leaves the counted channels and the count.
LEMMA CountedSame ==
  ASSUME LoopType, Phases, [Next]_vars,
         \A d \in Devices : ~NextChannel(d) /\ ~ExitChannel(d)
  PROVE  Counted' = Counted /\ total' = total
  <1>s. Counted \subseteq Channels /\ Counted' \subseteq Channels
    BY DEF Counted
  <1>1. ASSUME NEW d \in Devices, UNCHANGED <<count, total>>,
               \A e \in Devices \ {d} : state'[e] = state[e] /\ i'[e] = i[e] /\ place'[e] = place[e],
               \A c \in Channels : Device(c) = d => (c \in Counted' <=> c \in Counted)
        PROVE  Counted' = Counted /\ total' = total
    <2>1. ASSUME NEW c \in Channels PROVE c \in Counted' <=> c \in Counted
      <3>1. CASE Device(c) = d
        BY <1>1, <3>1
      <3>2. CASE Device(c) # d
        <4>1. Device(c) \in Devices \ {d}
          BY <3>2, ChannelFacts
        <4> QED
          BY <1>1, <4>1 DEF Counted
      <3> QED
        BY <3>1, <3>2
    <2> QED
      BY <1>1, <1>s, <2>1
  <1>2. ASSUME NEW d \in Devices, Probe(d) PROVE Counted' = Counted /\ total' = total
    <2>1. /\ state[d] = "out" /\ UNCHANGED <<count, total>>
          /\ state' = [state EXCEPT ![d] = IF count[d] = 0 THEN "in" ELSE "probing"]
          /\ i' = [i EXCEPT ![d] = IF count[d] = 0 THEN 0 ELSE 1]
          /\ place' = [place EXCEPT ![d] = "request"]
      BY <1>2 DEF Probe, Goto
    <2>2. \A e \in Devices \ {d} : state'[e] = state[e] /\ i'[e] = i[e] /\ place'[e] = place[e]
      BY <2>1 DEF LoopType
    <2>3. ASSUME NEW c \in Channels, Device(c) = d PROVE c \in Counted' <=> c \in Counted
      <3>1. c \notin Counted
        BY <2>1, <2>3 DEF Counted
      <3>2. c[2] \in Nat \ {0}
        BY ChannelFacts
      <3>3. \/ state'[d] = "in" /\ count'[d] = 0
            \/ state'[d] = "probing" /\ i'[d] = 1
        BY <2>1 DEF LoopType
      <3>4. c \notin Counted'
        BY <2>3, <3>2, <3>3 DEF Counted
      <3> QED
        BY <3>1, <3>4
    <2> QED
      BY <1>1, <2>1, <2>2, <2>3
  <1>3. ASSUME NEW d \in Devices, ProbeStep(d), ~NextChannel(d)
        PROVE  Counted' = Counted /\ total' = total
    <2>1. /\ state[d] = "probing" /\ UNCHANGED <<count, i, total>>
          /\ \/ state' = [state EXCEPT ![d] = "failed"] /\ UNCHANGED place
             \/ UNCHANGED state /\ \E p \in ProbePlaces : place' = [place EXCEPT ![d] = p]
      BY <1>3
         DEF ProbeStep, RequestChannel, AddCdev, CreateNode, AllocBuffers, RequestIrq, InitQueue,
             At, Goto, Fail, ProbePlaces
    <2>2. /\ \A e \in Devices \ {d} : state'[e] = state[e] /\ place'[e] = place[e]
          /\ state'[d] \in {"probing", "failed"}
      BY <2>1 DEF LoopType
    <2>3. \A c \in Channels : Device(c) = d => (c \in Counted' <=> c \in Counted)
      BY <2>1, <2>2 DEF Counted
    <2> QED
      BY <1>1, <2>1, <2>2, <2>3
  <1>4. ASSUME NEW d \in Devices, Remove(d) PROVE Counted' = Counted /\ total' = total
    <2>1. /\ state[d] = "in" /\ UNCHANGED <<count, total>>
          /\ state' = [state EXCEPT ![d] = "removing"]
          /\ i' = [i EXCEPT ![d] = IF count[d] = 0 THEN 0 ELSE 1]
          /\ place' = [place EXCEPT ![d] = IF count[d] = 0 THEN "release" ELSE "exit"]
      BY <1>4 DEF Remove, Goto
    <2>2. \A e \in Devices \ {d} : state'[e] = state[e] /\ i'[e] = i[e] /\ place'[e] = place[e]
      BY <2>1 DEF LoopType
    <2>3. ASSUME NEW c \in Channels, Device(c) = d PROVE c \in Counted' <=> c \in Counted
      <3>1. c \in Counted <=> c[2] <= count[d]
        BY <2>1, <2>3 DEF Counted
      <3>2. c[2] \in Nat \ {0}
        BY ChannelFacts
      <3>3. /\ state'[d] = "removing"
            /\ \/ count[d] = 0 /\ place'[d] = "release"
               \/ count[d] # 0 /\ place'[d] = "exit" /\ i'[d] = 1
        BY <2>1 DEF LoopType
      <3>4. c \in Counted' <=> count[d] # 0 /\ c[2] <= count[d]
        BY <2>1, <2>3, <3>2, <3>3 DEF Counted
      <3> QED
        BY <3>1, <3>2, <3>4
    <2> QED
      BY <1>1, <2>1, <2>2, <2>3
  <1>5. ASSUME NEW d \in Devices, ReleaseChannels(d) PROVE Counted' = Counted /\ total' = total
    <2>1. /\ state[d] = "removing" /\ place[d] = "release" /\ UNCHANGED <<count, i, place, total>>
          /\ state' = [state EXCEPT ![d] = "out"]
      BY <1>5 DEF ReleaseChannels, loopVars
    <2>2. \A e \in Devices : state'[e] = IF e = d THEN "out" ELSE state[e]
      BY <2>1 DEF LoopType
    <2>3. \A c \in Channels : Device(c) = d => (c \in Counted' <=> c \in Counted)
      BY <2>1, <2>2 DEF Counted
    <2> QED
      BY <1>1, <2>1, <2>2, <2>3
  <1>6. ASSUME UNCHANGED <<state, count, i, place, total>> PROVE Counted' = Counted /\ total' = total
    BY <1>6 DEF Counted
  <1>7. ASSUME NEW c \in Channels, Open(c) \/ Poll(c) \/ Close(c) \/ Interrupt(c)
        PROVE  UNCHANGED <<state, count, i, place, total>>
    BY <1>7 DEF Open, Poll, Close, Interrupt, loopVars
  <1>8. ModuleExit \/ ModuleUnloaded \/ UNCHANGED vars => UNCHANGED <<state, count, i, place, total>>
    BY DEF ModuleExit, ModuleUnloaded, vars, loopVars
  <1> QED
    BY <1>2, <1>3, <1>4, <1>5, <1>6, <1>7, <1>8 DEF Next, RemoveStep

LEMMA TotalStep ==
  ASSUME LoopType, Phases, TotalExact, [Next]_vars
  PROVE  TotalExact'
  <1>0. Counted \in SUBSET Channels /\ total = Cardinality(Counted)
    BY DEF Counted, TotalExact
  <1>1. ASSUME NEW d \in Devices, NextChannel(d) PROVE TotalExact'
    <2>1. total' = total + 1
      BY <1>1 DEF NextChannel, OneMore
    <2>2. Cardinality(Counted') = Cardinality(Counted) + 1
      BY <1>0, <1>1, CountedNext, ChannelSets
    <2> QED
      BY <1>0, <2>1, <2>2 DEF TotalExact
  <1>2. ASSUME NEW d \in Devices, ExitChannel(d) PROVE TotalExact'
    <2>1. total' = total - 1
      BY <1>2 DEF ExitChannel
    <2>2. Cardinality(Counted') = Cardinality(Counted) - 1
      BY <1>0, <1>2, CountedExit, ChannelSets
    <2> QED
      BY <1>0, <2>1, <2>2 DEF TotalExact
  <1>3. CASE \A d \in Devices : ~NextChannel(d) /\ ~ExitChannel(d)
    BY <1>0, <1>3, CountedSame DEF TotalExact
  <1> QED
    BY <1>1, <1>2, <1>3
-----------------------------------------------------------------------------
LEMMA ChannelTypeStep ==
  ASSUME LoopType, Phases, ChannelType, [Next]_vars
  PROVE  ChannelType'
  <1>1. ASSUME NEW d \in Devices, ProbeStep(d) PROVE ChannelType'
    <2>1. Current(d) \in Channels
      BY <1>1, CurrentFacts DEF ProbeStep, RequestChannel, AddCdev, CreateNode, AllocBuffers, RequestIrq,
                                InitQueue, NextChannel, At
    <2>2. CASE RequestChannel(d) \/ AddCdev(d) \/ AllocBuffers(d)
      BY <2>1, <2>2 DEF RequestChannel, AddCdev, AllocBuffers, Fail, ChannelType
    <2>3. CASE CreateNode(d)
      BY <2>1, <2>3 DEF CreateNode, ChannelType
    <2>4. CASE RequestIrq(d) \/ InitQueue(d) \/ NextChannel(d)
      BY <2>1, <2>4 DEF RequestIrq, InitQueue, QueueReady, NextChannel, channelVars, ChannelType
    <2> QED
      BY <1>1, <2>2, <2>3, <2>4 DEF ProbeStep
  <1>2. ASSUME NEW d \in Devices, ExitChannel(d) PROVE ChannelType'
    <2>1. Current(d) \in Channels
      BY <1>2, CurrentFacts DEF ExitChannel
    <2> QED
      BY <1>2, <2>1 DEF ExitChannel, ChannelType
  <1>3. ASSUME NEW d \in Devices, ReleaseChannels(d) PROVE ChannelType'
    BY <1>3 DEF ReleaseChannels, Released, ChannelType
  <1>4. ASSUME NEW c \in Channels, Open(c) \/ Poll(c) \/ Close(c) \/ Interrupt(c) PROVE ChannelType'
    BY <1>4 DEF Open, Poll, Close, Interrupt, Use, channelVars, ChannelType
  <1>5. ASSUME UNCHANGED <<channelVars, opened, class, bad>> PROVE ChannelType'
    BY <1>5 DEF channelVars, ChannelType
  <1>6. ASSUME NEW d \in Devices, Probe(d) \/ Remove(d) PROVE UNCHANGED <<channelVars, opened, class, bad>>
    BY <1>6 DEF Probe, Remove
  <1>7. ModuleExit \/ ModuleUnloaded \/ UNCHANGED vars => UNCHANGED <<channelVars, opened, class, bad>>
    BY DEF ModuleExit, ModuleUnloaded, vars
  <1> QED
    BY <1>1, <1>2, <1>3, <1>4, <1>5, <1>6, <1>7 DEF Next, RemoveStep

\* A channel whose device is at the same place keeps what it holds.
LEMMA HeldSame ==
  ASSUME NEW c \in Channels, HeldAt(c),
         state'[Device(c)] = state[Device(c)], place'[Device(c)] = place[Device(c)],
         i'[Device(c)] = i[Device(c)], node'[c] \in {node[c], "none"},
         c \in cdev' => c \in cdev, c \in chan' => c \in chan, c \in Counted => c \in Counted'
  PROVE  HeldAt(c)'
  BY DEF HeldAt, Created, Current

LEMMA HeldStep ==
  ASSUME LoopType, Phases, ChannelType, Held, [Next]_vars
  PROVE  Held'
  <1> SUFFICES ASSUME NEW c \in Channels PROVE HeldAt(c)'
    BY DEF Held
  <1>h. HeldAt(c) /\ Device(c) \in Devices
    BY ChannelFacts DEF Held
  <1>1. ASSUME NEW d \in Devices, NextChannel(d) PROVE HeldAt(c)'
    <2>1. /\ state[d] = "probing" /\ UNCHANGED <<node, cdev, chan>>
          /\ \A e \in Devices \ {d} : state'[e] = state[e] /\ i'[e] = i[e] /\ place'[e] = place[e]
          /\ state'[d] \in {"probing", "in"}
      BY <1>1 DEF NextChannel, At, Goto, channelVars, LoopType
    <2>2. Counted' = Counted \cup {Current(d)}
      BY <1>1, CountedNext
    <2>3. CASE Device(c) # d
      BY <1>h, <2>1, <2>2, <2>3, HeldSame
    <2>4. CASE Device(c) = d
      BY <1>h, <2>1, <2>2, <2>4 DEF HeldAt, Created
    <2> QED
      BY <2>3, <2>4
  <1>2. ASSUME NEW d \in Devices, ExitChannel(d) PROVE HeldAt(c)'
    <2>0. Current(d) \in Channels /\ Device(Current(d)) = d
      BY <1>2, CurrentFacts DEF ExitChannel
    <2>1. /\ state[d] = "removing" /\ UNCHANGED <<state, chan>>
          /\ \A e \in Devices \ {d} : i'[e] = i[e] /\ place'[e] = place[e]
          /\ node' = [node EXCEPT ![Current(d)] = "none"] /\ cdev' = cdev \ {Current(d)}
      BY <1>2 DEF ExitChannel, Goto, LoopType
    <2>2. Counted' = Counted \ {Current(d)}
      BY <1>2, CountedExit
    <2>3. node'[c] = IF c = Current(d) THEN "none" ELSE node[c]
      BY <2>1 DEF ChannelType
    <2>4. CASE Device(c) # d
      BY <1>h, <2>0, <2>1, <2>2, <2>3, <2>4, HeldSame
    <2>5. CASE Device(c) = d
      BY <1>h, <2>1, <2>2, <2>3, <2>5 DEF HeldAt, Created
    <2> QED
      BY <2>4, <2>5
  <1>3. CASE \A d \in Devices : ~NextChannel(d) /\ ~ExitChannel(d)
    <2>0. Counted' = Counted
      BY <1>3, CountedSame
    <2>1. ASSUME NEW d \in Devices, Probe(d) PROVE HeldAt(c)'
      <3>1. /\ state[d] = "out" /\ UNCHANGED <<node, cdev, chan>>
            /\ \A e \in Devices \ {d} : state'[e] = state[e] /\ i'[e] = i[e] /\ place'[e] = place[e]
        BY <2>1 DEF Probe, Goto, channelVars, LoopType
      <3>2. CASE Device(c) # d
        BY <1>h, <2>0, <3>1, <3>2, HeldSame
      <3>3. CASE Device(c) = d
        <4>1. c \notin Counted /\ ~Created(c, {"alloc", "irq", "queue", "next"})
                               /\ ~Created(c, ProbePlaces \ {"request", "add"})
          BY <3>1, <3>3 DEF Counted, Created
        <4> QED
          BY <1>h, <3>1, <3>3, <4>1 DEF HeldAt
      <3> QED
        BY <3>2, <3>3
    <2>2. ASSUME NEW d \in Devices, ProbeStep(d) PROVE HeldAt(c)'
      <3>0. state[d] = "probing" /\ UNCHANGED i /\ Current(d) \in Channels /\ Device(Current(d)) = d
        BY <1>3, <2>2, CurrentFacts
           DEF ProbeStep, RequestChannel, AddCdev, CreateNode, AllocBuffers, RequestIrq, InitQueue, At
      <3>1. \A e \in Devices \ {d} : state'[e] = state[e] /\ place'[e] = place[e]
        BY <1>3, <2>2
           DEF ProbeStep, RequestChannel, AddCdev, CreateNode, AllocBuffers, RequestIrq, InitQueue,
               Goto, Fail, LoopType
      <3>2. /\ c # Current(d) => node'[c] = node[c] /\ (c \in cdev' => c \in cdev)
            /\ c # Current(d) => (c \in chan' => c \in chan)
        BY <1>3, <2>2
           DEF ProbeStep, RequestChannel, AddCdev, CreateNode, AllocBuffers, RequestIrq, InitQueue,
               Goto, Fail, ChannelType
      <3>3. CASE Device(c) # d
        BY <1>h, <2>0, <3>0, <3>1, <3>2, <3>3, HeldSame
      <3>4. CASE Device(c) = d
        <4>1. state'[d] \in {"probing", "failed"}
          BY <1>3, <2>2, <3>0
             DEF ProbeStep, RequestChannel, AddCdev, CreateNode, AllocBuffers, RequestIrq, InitQueue,
                 Goto, Fail, LoopType
        <4>2. CASE state'[d] = "failed"
          BY <3>4, <4>2 DEF HeldAt
        <4>3. CASE state'[d] = "probing" /\ c # Current(d)
          <5>1. (node[c] # "none" => c \in Counted) /\ (c \in cdev => c \in Counted)
            BY <1>h, <3>0, <3>4, <4>3 DEF HeldAt, Created
          <5> QED
            BY <2>0, <3>2, <3>4, <4>3, <5>1 DEF HeldAt
        <4>4. CASE state'[d] = "probing" /\ c = Current(d)
          <5>1. c \notin Counted
            BY <3>0, <3>4, <4>4, CurrentFacts DEF Counted
          <5>2. c = Current(d)'
            BY <3>0, <4>4 DEF Current
          <5>3. CASE RequestChannel(d) \/ AddCdev(d)
            <6>1. node[c] = "none" /\ c \notin cdev
              BY <1>h, <3>0, <3>4, <5>1, <5>3
                 DEF RequestChannel, AddCdev, At, HeldAt, Created, ProbePlaces
            <6>2. /\ node' = node
                  /\ c \in cdev' => place'[d] = "create"
              BY <4>4, <5>3, <6>1 DEF RequestChannel, AddCdev, Fail, Goto, LoopType
            <6> QED
              BY <3>4, <4>4, <5>2, <6>1, <6>2 DEF HeldAt, Created, ProbePlaces
          <5>4. CASE CreateNode(d)
            <6>1. place'[d] = "alloc"
              BY <5>4 DEF CreateNode, Goto, LoopType
            <6> QED
              BY <3>4, <4>4, <5>2, <6>1 DEF HeldAt, Created, ProbePlaces
          <5>5. CASE AllocBuffers(d) \/ RequestIrq(d) \/ InitQueue(d)
            <6>1. place'[d] \in {"irq", "queue", "next"}
              BY <4>4, <5>5 DEF AllocBuffers, RequestIrq, InitQueue, Fail, Goto, LoopType
            <6> QED
              BY <3>4, <4>4, <5>2, <6>1 DEF HeldAt, Created, ProbePlaces
          <5> QED
            BY <1>3, <2>2, <5>3, <5>4, <5>5 DEF ProbeStep
        <4> QED
          BY <4>1, <4>2, <4>3, <4>4
      <3> QED
        BY <3>3, <3>4
    <2>3. ASSUME NEW d \in Devices, Remove(d) PROVE HeldAt(c)'
      <3>1. /\ state[d] = "in" /\ UNCHANGED <<node, cdev, chan>> /\ state'[d] = "removing"
            /\ \A e \in Devices \ {d} : state'[e] = state[e] /\ i'[e] = i[e] /\ place'[e] = place[e]
        BY <2>3 DEF Remove, Goto, channelVars, LoopType
      <3>2. CASE Device(c) # d
        BY <1>h, <2>0, <3>1, <3>2, HeldSame
      <3>3. CASE Device(c) = d
        BY <1>h, <2>0, <3>1, <3>3 DEF HeldAt, Created
      <3> QED
        BY <3>2, <3>3
    <2>4. ASSUME NEW d \in Devices, ReleaseChannels(d) PROVE HeldAt(c)'
      <3>1. /\ state[d] = "removing" /\ place[d] = "release" /\ UNCHANGED <<i, place, node, cdev>>
            /\ chan' = chan \ Of(d) /\ state'[d] = "out"
            /\ \A e \in Devices \ {d} : state'[e] = state[e]
        BY <2>4 DEF ReleaseChannels, Released, loopVars, LoopType
      <3>2. CASE Device(c) # d
        BY <1>h, <2>0, <3>1, <3>2, HeldSame
      <3>3. CASE Device(c) = d
        <4>1. c \notin Counted /\ c \in Of(d)
          BY <3>1, <3>3 DEF Counted, Of
        <4> QED
          BY <1>h, <3>1, <3>3, <4>1 DEF HeldAt, Created
      <3> QED
        BY <3>2, <3>3
    <2>5. ASSUME UNCHANGED <<state, i, place, node, cdev, chan>> PROVE HeldAt(c)'
      BY <1>h, <2>0, <2>5, HeldSame
    <2>6. ASSUME NEW f \in Channels, Open(f) \/ Poll(f) \/ Close(f) \/ Interrupt(f)
          PROVE  UNCHANGED <<state, i, place, node, cdev, chan>>
      BY <2>6 DEF Open, Poll, Close, Interrupt, loopVars, channelVars
    <2>7. ModuleExit \/ ModuleUnloaded \/ UNCHANGED vars
              => UNCHANGED <<state, i, place, node, cdev, chan>>
      BY DEF ModuleExit, ModuleUnloaded, vars, loopVars, channelVars
    <2> QED
      BY <1>3, <2>1, <2>2, <2>3, <2>4, <2>5, <2>6, <2>7 DEF Next, RemoveStep
  <1> QED
    BY <1>1, <1>2, <1>3

LEMMA ClassStep ==
  ASSUME LoopType, Phases, ChannelType, TotalExact, ClassKnown, [Next]_vars
  PROVE  ClassKnown'
  <1>t. total \in Nat /\ total = Cardinality(Counted) /\ Counted \in SUBSET Channels
    <2>1. Counted \in SUBSET Channels
      BY DEF Counted
    <2> QED
      BY <2>1, ChannelSets DEF TotalExact
  <1>p. ASSUME NEW d \in Devices, state[d] = "probing"
        PROVE  module = "loaded" /\ class # "freed"
    BY <1>p DEF Phases, LoopType, ClassKnown
  <1>1. ASSUME NEW d \in Devices, Probe(d) \/ Remove(d) \/ ReleaseChannels(d) PROVE ClassKnown'
    <2>1. /\ state[d] \in {"out", "in", "removing"} /\ UNCHANGED <<module, node, class, total>>
          /\ \A e \in Devices \ {d} : state'[e] = state[e] /\ place'[e] = place[e]
          /\ state'[d] = "probing" => place'[d] = "request"
      BY <1>1 DEF Probe, Remove, ReleaseChannels, Goto, loopVars, channelVars, LoopType
    <2>2. class' = "live" => total' > 0 \/ \E e \in Devices : state'[e] \in {"failed", "probing"}
      <3>1. ASSUME NEW e \in Devices, state[e] \in {"failed", "probing"}
            PROVE  state'[e] \in {"failed", "probing"}
        BY <2>1, <3>1
      <3> QED
        BY <2>1, <3>1 DEF ClassKnown
    <2>3. ASSUME NEW e \in Devices, state'[e] = "probing",
                 place'[e] \in {"alloc", "irq", "queue", "next"}
          PROVE  class' # "none"
      BY <2>1, <2>3 DEF ClassKnown
    <2> QED
      BY <2>1, <2>2, <2>3 DEF ClassKnown
  <1>2. ASSUME NEW d \in Devices, CreateNode(d) PROVE ClassKnown'
    <2>1. state[d] = "probing" /\ UNCHANGED <<module, state, total>> /\ module = "loaded"
          /\ class # "freed" /\ Current(d) \in Channels
      BY <1>2, <1>p, CurrentFacts DEF CreateNode, At
    <2>2. CASE class' = "torn"
      BY <2>2 DEF ClassKnown
    <2>3. CASE class' # "torn"
      <3>1. /\ class \in {"none", "live"} /\ class' = "live"
            /\ node' = [node EXCEPT ![Current(d)] = "live"]
        BY <1>2, <2>1, <2>3 DEF CreateNode, ChannelType
      <3>2. \A c \in Channels : node[c] # "error"
        BY <3>1 DEF ClassKnown
      <3>3. \A c \in Channels : node'[c] # "error"
        BY <2>1, <3>1, <3>2 DEF ChannelType
      <3> QED
        BY <2>1, <3>1, <3>3 DEF ClassKnown
    <2> QED
      BY <2>2, <2>3
  <1>3. ASSUME NEW d \in Devices, NextChannel(d) PROVE ClassKnown'
    <2>1. /\ state[d] = "probing" /\ place[d] = "next" /\ UNCHANGED <<module, node, class>>
          /\ total' = total + 1
          /\ \A e \in Devices \ {d} : state'[e] = state[e] /\ place'[e] = place[e]
          /\ place'[d] = "request"
      BY <1>3 DEF NextChannel, OneMore, At, Goto, channelVars, LoopType
    <2>2. class \notin {"none", "freed"} /\ total' > 0
      BY <1>t, <1>p, <2>1 DEF ClassKnown
    <2> QED
      BY <2>1, <2>2 DEF ClassKnown
  <1>4. ASSUME NEW d \in Devices, ProbeStep(d), ~CreateNode(d), ~NextChannel(d) PROVE ClassKnown'
    <2>1. /\ state[d] = "probing" /\ UNCHANGED <<module, node, class, total>>
          /\ \A e \in Devices \ {d} : state'[e] = state[e] /\ place'[e] = place[e]
          /\ state'[d] \in {"failed", "probing"}
      BY <1>4
         DEF ProbeStep, RequestChannel, AddCdev, AllocBuffers, RequestIrq, InitQueue,
             At, Goto, Fail, LoopType
    <2>2. state'[d] = "probing" /\ place'[d] \in {"alloc", "irq", "queue", "next"}
              => place[d] \in {"alloc", "irq", "queue", "next"}
      BY <1>4
         DEF ProbeStep, RequestChannel, AddCdev, AllocBuffers, RequestIrq, InitQueue,
             At, Goto, Fail, LoopType
    <2>3. class' = "live" => total' > 0 \/ \E e \in Devices : state'[e] \in {"failed", "probing"}
      BY <2>1
    <2>4. ASSUME NEW e \in Devices, state'[e] = "probing",
                 place'[e] \in {"alloc", "irq", "queue", "next"}
          PROVE  class' # "none"
      BY <2>1, <2>2, <2>4 DEF ClassKnown
    <2> QED
      BY <2>1, <2>3, <2>4 DEF ClassKnown
  <1>5. ASSUME NEW d \in Devices, ExitChannel(d) PROVE ClassKnown'
    <2>1. /\ state[d] = "removing" /\ place[d] = "exit" /\ UNCHANGED <<module, state>>
          /\ total' = total - 1 /\ class' = IF total = 1 THEN "freed" ELSE class
          /\ node' = [node EXCEPT ![Current(d)] = "none"]
          /\ module = "exiting" /\ Current(d) \in Channels
      BY <1>5, CurrentFacts DEF ExitChannel, LastChannel, Phases
    <2>2. total > 0
      BY <1>5, <1>t, CountedExit, ChannelSets
    <2>3. class \notin {"none", "freed"}
      BY <1>t, <2>2 DEF ClassKnown
    <2>4. \A c \in Channels : node'[c] = "error" => node[c] = "error"
      BY <2>1 DEF ChannelType
    <2> QED
      BY <1>t, <2>1, <2>2, <2>3, <2>4 DEF ClassKnown
  <1>6. ASSUME UNCHANGED <<state, place, node, class, total>>, module' = "loaded" => module = "loaded"
        PROVE  ClassKnown'
    BY <1>6 DEF ClassKnown
  <1>7. ASSUME NEW f \in Channels, Open(f) \/ Poll(f) \/ Close(f) \/ Interrupt(f)
        PROVE  UNCHANGED <<module, state, place, node, class, total>>
    BY <1>7 DEF Open, Poll, Close, Interrupt, loopVars, channelVars
  <1>8. ModuleExit \/ ModuleUnloaded \/ UNCHANGED vars
            => UNCHANGED <<state, place, node, class, total>> /\ (module' = "loaded" => module = "loaded")
    BY DEF ModuleExit, ModuleUnloaded, vars, loopVars, channelVars
  <1> QED
    BY <1>1, <1>2, <1>3, <1>4, <1>5, <1>6, <1>7, <1>8 DEF Next, RemoveStep

\* A device that stays where it is, and a channel of it that loses nothing.
LEMMA HasAllSame ==
  ASSUME NEW c \in Channels, HasAll(c),
         state'[Device(c)] = state[Device(c)], place'[Device(c)] = place[Device(c)],
         i'[Device(c)] = i[Device(c)], c \in irq' => c \in irq, c \in chan => c \in chan',
         c \in table => c \in table', c \in queue => c \in queue'
  PROVE  HasAll(c)'
  BY DEF HasAll, Created, Current, Allocated

LEMMA GainedSame ==
  ASSUME NEW d \in Devices, Gained(d), state'[d] = state[d], place'[d] = place[d], i'[d] = i[d],
         Current(d) \in chan => Current(d) \in chan', Current(d) \in table => Current(d) \in table'
  PROVE  Gained(d)'
  BY DEF Gained, Current

LEMMA IrqStep ==
  ASSUME LoopType, Phases, ChannelType, IrqHasAll, [Next]_vars
  PROVE  IrqHasAll'
  <1>i. /\ \A c \in Channels : HasAll(c) /\ Device(c) \in Devices
        /\ \A d \in Devices : Gained(d)
    BY ChannelFacts DEF IrqHasAll
  <1>d. \A d, e : Device(Current(e)) = e /\ (Current(e) \in Of(d) => e = d)
    BY DEF Current, Device, Of
  <1>o. \A c \in Channels, d \in Devices : c \in Of(d) <=> Device(c) = d
    BY DEF Of
  <1>1. ASSUME NEW d \in Devices, Probe(d) PROVE IrqHasAll'
    <2>1. /\ state[d] = "out" /\ UNCHANGED channelVars /\ place'[d] = "request"
          /\ \A e \in Devices \ {d} : state'[e] = state[e] /\ i'[e] = i[e] /\ place'[e] = place[e]
      BY <1>1 DEF Probe, Goto, LoopType
    <2>2. ASSUME NEW c \in Channels PROVE HasAll(c)'
      <3>1. CASE Device(c) # d
        BY <1>i, <2>1, <3>1, HasAllSame DEF channelVars
      <3>2. CASE Device(c) = d
        BY <1>i, <2>1, <3>2 DEF HasAll, Allocated, channelVars
      <3> QED
        BY <3>1, <3>2
    <2>3. ASSUME NEW e \in Devices PROVE Gained(e)'
      <3>1. CASE e # d
        BY <1>i, <2>1, <3>1, GainedSame DEF channelVars
      <3>2. CASE e = d
        BY <2>1, <3>2 DEF Gained
      <3> QED
        BY <3>1, <3>2
    <2> QED
      BY <2>2, <2>3 DEF IrqHasAll
  <1>2. ASSUME NEW d \in Devices, Remove(d) \/ ExitChannel(d) PROVE IrqHasAll'
    <2>1. /\ state[d] \in {"in", "removing"} /\ UNCHANGED <<chan, table, irq, queue>>
          /\ state'[d] = "removing"
          /\ \A e \in Devices \ {d} : state'[e] = state[e] /\ i'[e] = i[e] /\ place'[e] = place[e]
      BY <1>2 DEF Remove, ExitChannel, Goto, LoopType, channelVars
    <2>2. ASSUME NEW c \in Channels PROVE HasAll(c)'
      <3>1. CASE Device(c) # d
        BY <1>i, <2>1, <3>1, HasAllSame
      <3>2. CASE Device(c) = d
        BY <1>i, <2>1, <3>2 DEF HasAll, Allocated, Created
      <3> QED
        BY <3>1, <3>2
    <2>3. ASSUME NEW e \in Devices PROVE Gained(e)'
      <3>1. CASE e # d
        BY <1>i, <2>1, <3>1, GainedSame
      <3>2. CASE e = d
        BY <2>1, <3>2 DEF Gained
      <3> QED
        BY <3>1, <3>2
    <2> QED
      BY <2>2, <2>3 DEF IrqHasAll
  <1>3. ASSUME NEW d \in Devices, state'[d] \in {"failed", "out"}, UNCHANGED <<i, place>>,
               \A e \in Devices \ {d} : state'[e] = state[e],
               irq' = irq \ Of(d), table' = table \ Of(d), queue \ Of(d) \subseteq queue',
               chan \ Of(d) \subseteq chan'
        PROVE  IrqHasAll'
    <2>1. ASSUME NEW c \in Channels PROVE HasAll(c)'
      <3>1. CASE Device(c) # d
        BY <1>3, <1>i, <1>o, <3>1, HasAllSame
      <3>2. CASE Device(c) = d
        BY <1>3, <1>o, <3>2 DEF HasAll
      <3> QED
        BY <3>1, <3>2
    <2>2. ASSUME NEW e \in Devices PROVE Gained(e)'
      <3>1. CASE e # d
        <4>1. Current(e) \notin Of(d)
          BY <1>d, <3>1
        <4> QED
          BY <1>3, <1>i, <3>1, <4>1, GainedSame
      <3>2. CASE e = d
        BY <1>3, <3>2 DEF Gained
      <3> QED
        BY <3>1, <3>2
    <2> QED
      BY <2>1, <2>2 DEF IrqHasAll
  <1>4. ASSUME NEW d \in Devices, ReleaseChannels(d) PROVE IrqHasAll'
    <2>1. /\ state'[d] = "out" /\ UNCHANGED <<i, place>> /\ irq' = irq \ Of(d) /\ table' = table \ Of(d)
          /\ queue' = queue \ Of(d) /\ chan' = chan \ Of(d)
          /\ \A e \in Devices \ {d} : state'[e] = state[e]
      BY <1>4 DEF ReleaseChannels, Released, loopVars, LoopType
    <2> QED
      BY <1>3, <2>1
  <1>5. ASSUME NEW d \in Devices, ProbeStep(d), state' # state, ~NextChannel(d) PROVE IrqHasAll'
    <2>1. /\ state' = [state EXCEPT ![d] = "failed"] /\ UNCHANGED <<i, place, queue>>
          /\ irq' = irq \ Of(d) /\ table' = table \ Of(d) /\ chan' = chan
      BY <1>5
         DEF ProbeStep, RequestChannel, AddCdev, CreateNode, AllocBuffers, RequestIrq, InitQueue, Fail
    <2> QED
      BY <1>3, <2>1 DEF LoopType
  <1>6. ASSUME NEW d \in Devices, ProbeStep(d), UNCHANGED state, ~NextChannel(d) PROVE IrqHasAll'
    <2>0. state[d] = "probing" /\ Current(d) \in Channels /\ Device(Current(d)) = d
      BY <1>6, CurrentFacts
         DEF ProbeStep, RequestChannel, AddCdev, CreateNode, AllocBuffers, RequestIrq, InitQueue, At
    <2>1. /\ UNCHANGED i /\ \A e \in Devices \ {d} : place'[e] = place[e]
          /\ chan \subseteq chan' /\ table \subseteq table' /\ queue \subseteq queue'
          /\ irq' \subseteq irq \cup {Current(d)}
      <3>1. state # [state EXCEPT ![d] = "failed"]
        BY <2>0 DEF LoopType
      <3> QED
        BY <1>6, <3>1
           DEF ProbeStep, RequestChannel, AddCdev, CreateNode, AllocBuffers, RequestIrq, InitQueue, Fail,
               QueueReady, Goto, LoopType
    <2>2. /\ place'[d] # "request"
          /\ Current(d) \in chan'
          /\ place'[d] \in {"irq", "queue"} => Current(d) \in table'
          /\ Current(d) \in irq' /\ Current(d) \notin irq => place'[d] = "queue"
          /\ place[d] = "queue" => Current(d) \in queue'
      <3>1. state # [state EXCEPT ![d] = "failed"]
        BY <2>0 DEF LoopType
      <3>2. Gained(d) /\ place[d] \in ProbePlaces
        BY <1>i, <2>0 DEF Phases
      <3>3. CASE RequestChannel(d) \/ AddCdev(d) \/ AllocBuffers(d)
        BY <1>6, <2>0, <3>1, <3>2, <3>3
           DEF RequestChannel, AddCdev, AllocBuffers, Fail, Goto, LoopType, At, Gained
      <3>4. CASE CreateNode(d) \/ RequestIrq(d) \/ InitQueue(d)
        BY <2>0, <3>2, <3>4 DEF CreateNode, RequestIrq, InitQueue, QueueReady, Goto, LoopType, At, Gained
      <3> QED
        BY <1>6, <3>3, <3>4 DEF ProbeStep
    <2>3. ASSUME NEW c \in Channels PROVE HasAll(c)'
      <3>1. CASE Device(c) # d
        BY <1>6, <1>i, <2>0, <2>1, <3>1, HasAllSame
      <3>2. CASE Device(c) = d /\ c # Current(d)
        BY <1>6, <1>i, <2>1, <3>2 DEF HasAll, Created, Allocated
      <3>3. CASE c = Current(d)
        <4>1. Allocated(c)' /\ c = Current(d)'
          BY <1>6, <2>0, <2>1, <3>3 DEF Allocated, Current
        <4>2. CASE c \notin irq
          BY <1>6, <2>0, <2>2, <3>3, <4>1, <4>2 DEF HasAll, Created
        <4>3. CASE c \in irq
          <5>1. c \in table /\ (c \in queue \/ place[d] = "queue")
            BY <1>i, <2>0, <3>3, <4>3 DEF HasAll, Created
          <5> QED
            BY <2>1, <2>2, <3>3, <4>1, <5>1 DEF HasAll
        <4> QED
          BY <4>2, <4>3
      <3> QED
        BY <2>0, <3>1, <3>2, <3>3
    <2>4. ASSUME NEW e \in Devices PROVE Gained(e)'
      <3>1. CASE e # d
        BY <1>6, <1>i, <2>1, <3>1, GainedSame
      <3>2. CASE e = d
        BY <2>1, <2>2, <3>2 DEF Gained, Current
      <3> QED
        BY <3>1, <3>2
    <2> QED
      BY <2>3, <2>4 DEF IrqHasAll
  <1>7. ASSUME NEW d \in Devices, NextChannel(d) PROVE IrqHasAll'
    <2>1. /\ state[d] = "probing" /\ place[d] = "next" /\ UNCHANGED channelVars
          /\ \A e \in Devices \ {d} : state'[e] = state[e] /\ i'[e] = i[e] /\ place'[e] = place[e]
          /\ state'[d] \in {"probing", "in"} /\ place'[d] = "request"
      BY <1>7 DEF NextChannel, At, Goto, LoopType
    <2>2. ASSUME NEW c \in Channels PROVE HasAll(c)'
      <3>1. CASE Device(c) # d
        BY <1>i, <2>1, <3>1, HasAllSame DEF channelVars
      <3>2. CASE Device(c) = d
        BY <1>i, <2>1, <3>2 DEF HasAll, Allocated, Created, channelVars
      <3> QED
        BY <3>1, <3>2
    <2>3. ASSUME NEW e \in Devices PROVE Gained(e)'
      <3>1. CASE e # d
        BY <1>i, <2>1, <3>1, GainedSame DEF channelVars
      <3>2. CASE e = d
        BY <2>1, <3>2 DEF Gained
      <3> QED
        BY <3>1, <3>2
    <2> QED
      BY <2>2, <2>3 DEF IrqHasAll
  <1>8. ASSUME UNCHANGED <<state, i, place, chan, table, irq, queue>> PROVE IrqHasAll'
    BY <1>8, <1>i, HasAllSame, GainedSame DEF IrqHasAll
  <1>9. ASSUME NEW f \in Channels, Open(f) \/ Poll(f) \/ Close(f) \/ Interrupt(f)
        PROVE  UNCHANGED <<state, i, place, chan, table, irq, queue>>
    BY <1>9 DEF Open, Poll, Close, Interrupt, loopVars, channelVars
  <1>10. ModuleExit \/ ModuleUnloaded \/ UNCHANGED vars
             => UNCHANGED <<state, i, place, chan, table, irq, queue>>
    BY DEF ModuleExit, ModuleUnloaded, vars, loopVars, channelVars
  <1> QED
    BY <1>1, <1>2, <1>4, <1>5, <1>6, <1>7, <1>8, <1>9, <1>10 DEF Next, RemoveStep
-----------------------------------------------------------------------------
LEMMA ProbeStepInv == ProbeInv /\ [Next]_vars => ProbeInv'
  BY PhasesStep, TotalStep, ChannelTypeStep, HeldStep, ClassStep, IrqStep DEF ProbeInv

LEMMA ProbeInvariant == Spec => []ProbeInv
  BY ProbeInit, ProbeStepInv, PTL DEF Spec

\* A counted channel is counted by total_count, and the class is there with it.
LEMMA CountedClass ==
  ASSUME ProbeInv
  PROVE  /\ \A c \in Counted : class \in {"live", "torn"}
         /\ total > 0 => \E c \in Channels : c \in Counted
  <1>1. Counted \in SUBSET Channels /\ total = Cardinality(Counted)
    BY DEF Counted, ProbeInv, TotalExact
  <1>2. total \in Nat /\ (total = 0 <=> Counted = {})
    BY <1>1, ChannelSets
  <1>3. ASSUME NEW c \in Counted PROVE class \in {"live", "torn"}
    BY <1>2, <1>3 DEF ProbeInv, ClassKnown, ChannelType
  <1> QED
    BY <1>1, <1>2, <1>3

(***************************************************************************)
(* dma_proxy_probe and dma_proxy_remove keep the type invariant: in        *)
(* particular total_count, which probe increments and cdevice_exit         *)
(* decrements without a test, stays between 0 and the number of channels.  *)
(***************************************************************************)
THEOREM ProbeTypeCorrect == Spec => []TypeOK
  BY ProbeInvariant, ProbeTypeParts, PTL

(***************************************************************************)
(* The class of the nodes is destroyed by cdevice_exit only when no        *)
(* channel of a device that was probed has a node any more, for any number *)
(* of devices, channels and failures, device_create's excepted.            *)
(***************************************************************************)
THEOREM ClassOutlivesNodes == Spec => []ClassCoversNodes
  <1>1. ASSUME ProbeInv PROVE ClassCoversNodes
    <2> SUFFICES ASSUME class # "torn", NEW c \in Channels, node[c] = "live",
                        state[Device(c)] # "failed"
                 PROVE  class = "live"
      BY DEF ClassCoversNodes
    <2>1. c \in Counted \/ Created(c, {"alloc", "irq", "queue", "next"})
      BY <1>1 DEF ProbeInv, Held, HeldAt
    <2>2. CASE c \in Counted
      BY <1>1, <2>2, CountedClass
    <2>3. CASE Created(c, {"alloc", "irq", "queue", "next"})
      <3>1. Device(c) \in Devices /\ state[Device(c)] = "probing"
            /\ place[Device(c)] \in {"alloc", "irq", "queue", "next"}
        BY <2>3, ChannelFacts DEF Created
      <3>2. module = "loaded"
        BY <1>1, <3>1 DEF ProbeInv, Phases, LoopType
      <3> QED
        BY <1>1, <3>1, <3>2 DEF ProbeInv, ClassKnown, ChannelType
    <2> QED
      BY <2>1, <2>2, <2>3
  <1> QED
    BY <1>1, ProbeInvariant, PTL

(***************************************************************************)
(* dma_proxy_exit leaves nothing of a device whose probe succeeded.        *)
(***************************************************************************)
THEOREM UnloadIsClean == Spec => []UnloadLeavesNothing
  <1>1. ASSUME ProbeInv PROVE UnloadLeavesNothing
    <2> SUFFICES ASSUME module = "unloaded"
                 PROVE  /\ \A c \in Channels :
                              c \in chan \/ c \in cdev \/ node[c] # "none"
                                  => state[Device(c)] = "failed"
                        /\ class = "live" => \E d \in Devices : state[d] = "failed"
      BY DEF UnloadLeavesNothing
    <2>1. \A d \in Devices : state[d] \in {"out", "failed"}
      BY <1>1 DEF ProbeInv, Phases
    <2>2. ASSUME NEW c \in Channels
          PROVE  Device(c) \in Devices /\ (c \in Counted => state[Device(c)] = "failed")
      BY <2>1, ChannelFacts DEF Counted
    <2>3. ASSUME NEW c \in Channels, c \in chan \/ c \in cdev \/ node[c] # "none"
          PROVE  state[Device(c)] = "failed"
      <3>1. c \in chan => state[Device(c)] # "out"
        BY <1>1 DEF ProbeInv, Held, HeldAt
      <3>2. c \in cdev \/ node[c] # "none" =>
               c \in Counted \/ state[Device(c)] \in {"failed", "probing"}
        BY <1>1 DEF ProbeInv, Held, HeldAt, Created
      <3> QED
        BY <2>1, <2>2, <2>3, <3>1, <3>2
    <2>4. ASSUME class = "live" PROVE \E d \in Devices : state[d] = "failed"
      <3>1. total > 0 \/ \E d \in Devices : state[d] \in {"failed", "probing"}
        BY <1>1, <2>4 DEF ProbeInv, ClassKnown
      <3>2. CASE total > 0
        BY <1>1, <2>2, <3>2, CountedClass
      <3>3. CASE \E d \in Devices : state[d] \in {"failed", "probing"}
        BY <2>1, <3>3
      <3> QED
        BY <3>1, <3>2, <3>3
    <2> QED
      BY <2>3, <2>4
  <1> QED
    BY <1>1, ProbeInvariant, PTL

(***************************************************************************)
(* local_open, dma_proxy_poll, release, irq_handler, cdevice_init and      *)
(* cdevice_exit use what is not there only on a channel that is exposed.   *)
(***************************************************************************)
THEOREM SafeAfterProbe == Spec => BadUseOnlyWhileExposed
  <1>1. ASSUME ProbeInv, [Next]_vars PROVE [\A c \in bad' \ bad : Exposed(c)]_vars
    <2>1. ASSUME NEW d \in Devices, CreateNode(d), NEW c \in bad' \ bad PROVE Exposed(c)
      <3>1. state[d] = "probing" /\ c = Current(d) /\ Device(Current(d)) = d
        BY <2>1 DEF CreateNode, At, Current, Device
      <3> QED
        BY <3>1 DEF Exposed
    <2>2. ASSUME NEW d \in Devices, ExitChannel(d), NEW c \in bad' \ bad PROVE Exposed(c)
      <3>1. LoopType /\ Phases
        BY <1>1 DEF ProbeInv
      <3>2. Current(d) \in Counted /\ Current(d) \in Channels
        BY <2>2, <3>1, CountedExit, CurrentFacts DEF ExitChannel
      <3>3. class \in {"live", "torn"}
        BY <1>1, <3>2, CountedClass
      <3>4. node[Current(d)] = "error" \/ class # "live"
        BY <2>2 DEF ExitChannel
      <3>5. class = "torn"
        BY <1>1, <3>2, <3>3, <3>4 DEF ProbeInv, ClassKnown
      <3> QED
        BY <3>5 DEF Exposed
    <2>3. ASSUME NEW c \in Channels, Open(c) \/ Poll(c) \/ Close(c) \/ Interrupt(c),
                 NEW f \in bad' \ bad
          PROVE  Exposed(f)
      <3>1. f = c /\ ~(Allocated(c) /\ c \in chan /\ c \in table /\ c \in queue)
        BY <2>3 DEF Open, Poll, Close, Interrupt, Use
      <3>2. CASE c \notin irq
        BY <3>1, <3>2 DEF Exposed
      <3>3. CASE c \in irq
        <4>1. Created(c, {"queue"})
          BY <1>1, <3>1, <3>3 DEF ProbeInv, IrqHasAll, HasAll
        <4> QED
          BY <3>1, <4>1 DEF Exposed, Created
      <3> QED
        BY <3>2, <3>3
    <2>4. ASSUME NEW d \in Devices,
                 Probe(d) \/ RemoveStep(d) \/ ProbeStep(d), ~CreateNode(d), ~ExitChannel(d)
          PROVE  UNCHANGED bad
      BY <2>4 DEF Probe, RemoveStep, Remove, ReleaseChannels, ProbeStep, RequestChannel, AddCdev,
                  AllocBuffers, RequestIrq, InitQueue, NextChannel
    <2>5. ModuleExit \/ ModuleUnloaded => UNCHANGED bad
      BY DEF ModuleExit, ModuleUnloaded
    <2>6. UNCHANGED bad => \A c \in bad' \ bad : Exposed(c)
      OBVIOUS
    <2> QED
      BY <1>1, <2>1, <2>2, <2>3, <2>4, <2>5, <2>6 DEF Next
  <1> QED
    BY <1>1, ProbeInvariant, PTL DEF Spec, BadUseOnlyWhileExposed
=============================================================================
