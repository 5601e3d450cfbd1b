--------------------------- MODULE AxiCtrlProofs ---------------------------
(***************************************************************************)
(* Proofs about AxiCtrl, for every set of devices and files, every size of *)
(* the register file and every request.                                    *)
(***************************************************************************)
EXTENDS AxiCtrl, TLAPS

USE DEF Uses, GoesOn

(***************************************************************************)
(* The type invariant by group of variables, and in the form the proofs    *)
(* use: reg, buf and seen are functions, and what they hold for a register *)
(* is a word for it.                                                       *)
(***************************************************************************)
AnyWord == {Zero} \cup UNION {WordsFor(k) : k \in Regs}

DevType ==
    /\ state \in [Devices -> {"out", "cdev", "class", "node", "in", "failed"}]
    /\ regs \in Devices \cup {NoDevice, "error"}
    /\ cdev \in Devices \cup {NoDevice}
    /\ class \in {"none", "live", "error", "freed"}
    /\ mapped \subseteq Devices
    /\ bad \in Uses

RegType ==
    /\ reg \in [Regs -> AnyWord]
    /\ \A k \in Regs : reg[k] \in WordsFor(k)
    /\ seen \in [Files -> [Regs -> SUBSET AnyWord]]
    /\ \A f \in Files : \A k \in Regs : seen[f][k] \subseteq WordsFor(k)

FileType ==
    /\ open \subseteq Files
    /\ map \in [Files -> Devices \cup {NoDevice, "error"}]
    /\ pos \in [Files -> 0 .. MaxPos]

CallType ==
    /\ call \in [Files -> {"idle", "read", "write", "done"}]
    /\ op \in [Files -> {"read", "write"}]
    /\ size \in [Files -> {0} \cup Sizes]
    /\ addr \in [Files -> 0 .. MaxPos]
    /\ start \in [Files -> 0 .. MaxPos]
    /\ buf \in [Files -> [Regs -> AnyWord]]
    /\ \A f \in Files : \A k \in Regs : buf[f][k] \in {Zero} \cup WordsFor(k)

AxiType == DevType /\ RegType /\ FileType /\ CallType

(***************************************************************************)
(* The devices.  One probe runs at a time and one device at most is in;    *)
(* what a probe has put into dev_data so far is still there, and remains   *)
(* there after the probe as long as no other device was probed.            *)
(***************************************************************************)
OneAtATime ==
    \A d, e \in Devices : d # e =>
        /\ ~(d \in Probing /\ e \in Probing)
        /\ ~(state[d] \in {"node", "in"} /\ state[e] = "in")

Alone(d) == state[d] = "in" /\ \A e \in Devices \ {d} : state[e] = "out"

DevData ==
    \A d \in Devices :
        /\ state[d] \in {"cdev", "class", "node", "in"} => d \in mapped
        /\ d \in Probing \/ Alone(d) => regs = d
        /\ state[d] \in {"class", "node"} \/ Alone(d) => cdev = d
        /\ state[d] = "node" \/ Alone(d) => class = "live"

(***************************************************************************)
(* The files.  A file that is open keeps its device in, and a mapping is   *)
(* of registers that are there.                                            *)
(***************************************************************************)
FilesHold ==
    /\ open # {} => \E d \in Devices : state[d] = "in"
    /\ \A f \in Files : call[f] # "idle" => f \in open
    /\ GoesOn => \A f \in Files : map[f] # NoDevice => f \in open /\ Reachable(map[f])

(***************************************************************************)
(* The calls.  A call under way has seen what the registers hold, and what *)
(* it has transferred so far it has seen in the registers.                 *)
(***************************************************************************)
Transferred(f, k) == IF op[f] = "read" THEN buf[f][k] ELSE Word(f, k)

CallsSee ==
    \A f \in Files :
        /\ call[f] \in {"read", "write"} =>
              op[f] = call[f] /\ \A k \in Regs : reg[k] \in seen[f][k]
        /\ call[f] = "done" => LoopEnds(f)
        /\ call[f] = "done" \/ (GoesOn /\ call[f] \in {"read", "write"}) =>
              (start[f] = 0 =>
                 \A k \in Regs : k < addr[f] /\ k < Count(f) =>
                     Transferred(f, k) \in seen[f][k])

AxiInv == AxiType /\ OneAtATime /\ DevData /\ FilesHold /\ CallsSee
-----------------------------------------------------------------------------
\* Division of sizes and positions by REG_SIZE.
LEMMA DivFacts ==
  ASSUME NEW n \in Nat
  PROVE  /\ n \div RegSize \in Nat
         /\ (n \div RegSize) * RegSize <= n
         /\ n \div RegSize <= n
  <1>0. RegSize \in Nat \ {0}
    BY AxiSizesAssumption
  <1>1. n = RegSize * (n \div RegSize) + (n % RegSize) /\ n % RegSize \in 0 .. RegSize - 1
    BY <1>0
  <1>2. n \div RegSize \in Nat
    BY <1>0, <1>1
  <1>3. (n \div RegSize) * RegSize <= n
    BY <1>0, <1>1, <1>2
  <1>4. n \div RegSize <= (n \div RegSize) * RegSize
    BY <1>0, <1>2
  <1> QED
    BY <1>0, <1>2, <1>3, <1>4

\* min_t of read and write: no more registers than there are, and no more than
\* the caller's buffer has words for.
LEMMA CountFacts ==
  ASSUME CallType, NEW f \in Files
  PROVE  /\ size[f] \in Nat /\ Count(f) \in Nat
         /\ Count(f) <= RegLength
         /\ Count(f) * RegSize <= size[f]
  <1>0. RegSize \in Nat \ {0} /\ RegLength \in Nat \ {0}
    BY AxiSizesAssumption
  <1>1. size[f] \in Nat
    <2>1. size[f] \in {0} \cup Sizes
      BY DEF CallType
    <2>2. {0} \cup Sizes \subseteq Nat
      BY AxiSizesAssumption
    <2> QED
      BY <2>1, <2>2
  <1>2. size[f] \div RegSize \in Nat /\ (size[f] \div RegSize) * RegSize <= size[f]
    BY <1>1, DivFacts
  <1>3. Count(f) \in Nat /\ Count(f) <= RegLength /\ Count(f) <= size[f] \div RegSize
    BY <1>0, <1>2 DEF Count
  <1>4. Count(f) * RegSize <= (size[f] \div RegSize) * RegSize
    BY <1>0, <1>2, <1>3
  <1> QED
    BY <1>0, <1>1, <1>2, <1>3, <1>4

\* While the loop of a call runs, its index is a register's.
LEMMA AddrInRegs ==
  ASSUME CallType, NEW f \in Files, ~LoopEnds(f)
  PROVE  /\ addr[f] \in Regs /\ addr[f] + 1 \in 0 .. MaxPos
         /\ (addr[f] + 1) * RegSize <= size[f]
  <1>0. /\ RegSize \in Nat \ {0} /\ RegLength \in Nat \ {0} /\ MaxPos \in Nat
        /\ RegLength <= MaxPos
    BY AxiSizesAssumption
  <1>1. addr[f] \in Nat
    BY <1>0 DEF CallType
  <1>2. Count(f) \in Nat /\ Count(f) <= RegLength /\ Count(f) * RegSize <= size[f] /\ size[f] \in Nat
    BY CountFacts
  <1>3. addr[f] + 1 <= Count(f)
    BY <1>1, <1>2 DEF LoopEnds
  <1>4. (addr[f] + 1) * RegSize <= Count(f) * RegSize
    BY <1>0, <1>1, <1>2, <1>3
  <1> QED
    BY <1>0, <1>1, <1>2, <1>3, <1>4 DEF Regs

LEMMA TypeParts == AxiType => TypeOK
  BY DEF AxiType, DevType, RegType, FileType, CallType, TypeOK

LEMMA WordsAreWords == \A k \in Regs : WordsFor(k) \subseteq AnyWord /\ Zero \in AnyWord
  BY DEF AnyWord

LEMMA TypeInit == Init => AxiType
  <1> SUFFICES ASSUME Init PROVE AxiType
    OBVIOUS
  <1>0. MaxPos \in Nat
    BY AxiSizesAssumption
  <1>1. DevType
    BY DEF Init, DevType
  <1>2. \A k \in Regs : Reset(k) \in WordsFor(k)
    BY DEF WordsFor
  <1>3. RegType
    BY <1>2, WordsAreWords DEF Init, RegType
  <1>4. FileType
    BY <1>0 DEF Init, FileType
  <1>5. CallType
    BY <1>0, WordsAreWords DEF Init, CallType
  <1> QED
    BY <1>1, <1>3, <1>4, <1>5 DEF AxiType

\* A store leaves every register with a word for it.
LEMMA StoreType ==
  ASSUME RegType, DevType, NEW d, NEW k \in Regs, NEW f \in Files, Store(d, k, Word(f, k))
  PROVE  RegType' /\ bad' \in Uses
  <1>0. Word(f, k) \in WordsFor(k) /\ WordsFor(k) \subseteq AnyWord
    BY WordsAreWords DEF WordsFor
  <1>1. CASE Reachable(d)
    <2>1. /\ reg' = [reg EXCEPT ![k] = Word(f, k)]
          /\ seen' = [g \in Files |->
                       [seen[g] EXCEPT ![k] =
                           IF call[g] \in {"read", "write"} THEN @ \cup {Word(f, k)} ELSE @]]
          /\ UNCHANGED bad
      BY <1>1 DEF Store
    <2>2. reg' \in [Regs -> AnyWord] /\ \A j \in Regs : reg'[j] \in WordsFor(j)
      BY <1>0, <2>1 DEF RegType
    <2>3. ASSUME NEW g \in Files
          PROVE  /\ seen'[g] \in [Regs -> SUBSET AnyWord]
                 /\ \A j \in Regs : seen'[g][j] \subseteq WordsFor(j)
      <3>1. seen'[g] = [seen[g] EXCEPT ![k] =
                           IF call[g] \in {"read", "write"}
                           THEN seen[g][k] \cup {Word(f, k)} ELSE seen[g][k]]
        BY <2>1
      <3>2. seen[g] \in [Regs -> SUBSET AnyWord]
            /\ \A j \in Regs : seen[g][j] \subseteq WordsFor(j)
        BY DEF RegType
      <3> QED
        BY <1>0, <3>1, <3>2
    <2>4. seen' \in [Files -> [Regs -> SUBSET AnyWord]]
      <3>1. seen' = [g \in Files |-> seen'[g]]
        BY <2>1
      <3> QED
        BY <2>3, <3>1
    <2> QED
      BY <2>1, <2>2, <2>3, <2>4 DEF RegType, DevType
  <1>2. CASE ~Reachable(d)
    BY <1>2 DEF Store, RegType
  <1> QED
    BY <1>1, <1>2

\* The locals of a call have their types at its end, and at its start.
LEMMA ForgetType ==
  ASSUME RegType, CallType, NEW f \in Files, Forget(f), UNCHANGED reg
  PROVE  RegType' /\ CallType'
  <1>0. 0 \in 0 .. MaxPos
    BY AxiSizesAssumption
  <1>1. /\ call' \in [Files -> {"idle", "read", "write", "done"}]
        /\ op' \in [Files -> {"read", "write"}]
        /\ size' \in [Files -> {0} \cup Sizes]
        /\ addr' \in [Files -> 0 .. MaxPos]
        /\ start' \in [Files -> 0 .. MaxPos]
    BY <1>0 DEF Forget, CallType
  <1>2. [k \in Regs |-> Zero] \in [Regs -> AnyWord]
    BY WordsAreWords
  <1>3. buf' \in [Files -> [Regs -> AnyWord]]
        /\ \A g \in Files : \A k \in Regs : buf'[g][k] \in {Zero} \cup WordsFor(k)
    BY <1>2 DEF Forget, CallType
  <1>4. [k \in Regs |-> {}] \in [Regs -> SUBSET AnyWord]
    OBVIOUS
  <1>5. seen' \in [Files -> [Regs -> SUBSET AnyWord]]
        /\ \A g \in Files : \A k \in Regs : seen'[g][k] \subseteq WordsFor(k)
    BY <1>4 DEF Forget, RegType
  <1> QED
    BY <1>1, <1>3, <1>5 DEF RegType, CallType

LEMMA BeginType ==
  ASSUME AxiType, NEW f \in Files, NEW o \in {"read", "write"}, Begin(f, o),
         call' = [call EXCEPT ![f] = o]
  PROVE  RegType' /\ CallType'
  <1>0. RegType /\ CallType /\ FileType
    BY DEF AxiType
  <1>1. pos[f] \div RegSize \in 0 .. MaxPos /\ pos[f] \in 0 .. MaxPos
    <2>1. pos[f] \in 0 .. MaxPos /\ MaxPos \in Nat
      BY <1>0, AxiSizesAssumption DEF FileType
    <2> QED
      BY <2>1, DivFacts
  <1>2. /\ call' \in [Files -> {"idle", "read", "write", "done"}]
        /\ op' \in [Files -> {"read", "write"}]
        /\ addr' \in [Files -> 0 .. MaxPos]
        /\ start' \in [Files -> 0 .. MaxPos]
    BY <1>0, <1>1 DEF Begin, CallType
  <1>3. size' \in [Files -> {0} \cup Sizes]
    <2>1. PICK n \in Sizes : size' = [size EXCEPT ![f] = n]
      BY DEF Begin
    <2> QED
      BY <1>0, <2>1 DEF CallType
  <1>4. [k \in Regs |-> Zero] \in [Regs -> AnyWord]
    BY WordsAreWords
  <1>5. buf' \in [Files -> [Regs -> AnyWord]]
        /\ \A g \in Files : \A k \in Regs : buf'[g][k] \in {Zero} \cup WordsFor(k)
    BY <1>0, <1>4 DEF Begin, CallType
  <1>6. [k \in Regs |-> {reg[k]}] \in [Regs -> SUBSET AnyWord]
    BY <1>0 DEF RegType
  <1>7. seen' \in [Files -> [Regs -> SUBSET AnyWord]]
        /\ \A g \in Files : \A k \in Regs : seen'[g][k] \subseteq WordsFor(k)
    BY <1>0, <1>6 DEF Begin, RegType
  <1>8. reg' = reg
    BY DEF Begin
  <1> QED
    BY <1>0, <1>2, <1>3, <1>5, <1>7, <1>8 DEF RegType, CallType

LEMMA TypeStep == AxiType /\ [Next]_vars => AxiType'
  <1> SUFFICES ASSUME AxiType, [Next]_vars PROVE AxiType'
    OBVIOUS
  <1>0. DevType /\ RegType /\ FileType /\ CallType
    BY DEF AxiType
  <1>1. ASSUME NEW d \in Devices, ProbeStep(d) PROVE AxiType'
    <2>1. UNCHANGED <<open, map, pos, call, op, size, addr, buf, start, seen, bad>>
      BY <1>1 DEF ProbeStep, MapRegisters, AddCdev, CreateClass, CreateNode, fileVars, callVars
    <2>2. DevType'
      <3>1. \A s \in {"out", "cdev", "class", "node", "in", "failed"} :
               Goto(d, s) => state' \in [Devices -> {"out", "cdev", "class", "node", "in", "failed"}]
        BY <1>0 DEF DevType, Goto
      <3>2. CASE MapRegisters(d)
        BY <1>0, <2>1, <3>1, <3>2 DEF DevType, MapRegisters, TakeRegs, Fail
      <3>3. CASE AddCdev(d)
        BY <1>0, <2>1, <3>1, <3>3 DEF DevType, AddCdev, Fail
      <3>4. CASE CreateClass(d)
        BY <1>0, <2>1, <3>1, <3>4 DEF DevType, CreateClass, Fail
      <3>5. CASE CreateNode(d)
        BY <1>0, <2>1, <3>1, <3>5 DEF DevType, CreateNode, Fail
      <3> QED
        BY <1>1, <3>2, <3>3, <3>4, <3>5 DEF ProbeStep
    <2>3. RegType'
      <3>1. reg' = reg \/ reg' = [k \in Regs |-> Reset(k)]
        BY <1>1 DEF ProbeStep, MapRegisters, AddCdev, CreateClass, CreateNode
      <3>2. \A k \in Regs : Reset(k) \in WordsFor(k)
        BY DEF WordsFor
      <3> QED
        BY <1>0, <2>1, <3>1, <3>2, WordsAreWords DEF RegType
    <2> QED
      BY <1>0, <2>1, <2>2, <2>3 DEF AxiType, FileType, CallType
  <1>2. ASSUME NEW d \in Devices, Remove(d) PROVE AxiType'
    BY <1>0, <1>2
       DEF Remove, Goto, AxiType, DevType, RegType, FileType, CallType, fileVars, callVars
  <1>3. ASSUME NEW f \in Files, Open(f) \/ Release(f) \/ Llseek(f) \/ SimpleMmap(f)
        PROVE  AxiType'
    <2>1. UNCHANGED <<state, regs, cdev, class, mapped, reg, call, op, size, addr, buf, start, seen>>
      BY <1>3 DEF Open, Release, Llseek, SimpleMmap, deviceVars, callVars
    <2>2. FileType'
      <3>1. 0 \in 0 .. MaxPos
        BY AxiSizesAssumption
      <3>2. CASE Open(f)
        BY <1>0, <3>1, <3>2 DEF FileType, Open
      <3>3. CASE Release(f)
        BY <1>0, <3>1, <3>3 DEF FileType, Release
      <3>4. CASE Llseek(f)
        BY <1>0, <3>1, <3>4 DEF FileType, Llseek
      <3>5. CASE SimpleMmap(f)
        BY <1>0, <3>5 DEF FileType, DevType, SimpleMmap
      <3> QED
        BY <1>3, <3>2, <3>3, <3>4, <3>5
    <2>3. bad' \in Uses
      BY <1>0, <1>3 DEF Open, Release, Llseek, SimpleMmap, DevType
    <2> QED
      BY <1>0, <2>1, <2>2, <2>3 DEF AxiType, DevType, RegType, CallType
  <1>4. ASSUME NEW f \in Files, Read(f) \/ Write(f) PROVE AxiType'
    <2>1. RegType' /\ CallType'
      BY <1>4, BeginType DEF Read, Write
    <2>2. UNCHANGED <<state, regs, cdev, class, mapped, open, map, pos>> /\ bad' \in {bad, "nomem"}
      BY <1>4 DEF Read, Write, Begin, deviceVars, fileVars
    <2> QED
      BY <1>0, <2>1, <2>2 DEF AxiType, DevType, FileType
  <1>5. ASSUME NEW f \in Files, ReadRegister(f) PROVE AxiType'
    <2>1. addr[f] \in Regs /\ addr[f] + 1 \in 0 .. MaxPos
      BY <1>0, <1>5, AddrInRegs DEF ReadRegister
    <2>2. UNCHANGED <<state, regs, cdev, class, mapped, reg, open, map, pos, call, op, size, start, seen>>
      BY <1>5 DEF ReadRegister, deviceVars, fileVars
    <2>3. addr' \in [Files -> 0 .. MaxPos]
      BY <1>0, <1>5, <2>1 DEF ReadRegister, CallType
    <2>4. PICK x \in {Zero} \cup WordsFor(addr[f]) :
             buf' = [buf EXCEPT ![f] = [buf[f] EXCEPT ![addr[f]] = x]]
      BY <1>0, <1>5, <2>1 DEF ReadRegister, RegType
    <2>5. x \in AnyWord
      BY <2>1, WordsAreWords
    <2>6. [buf[f] EXCEPT ![addr[f]] = x] \in [Regs -> AnyWord]
      BY <1>0, <2>5 DEF CallType
    <2>7. buf' \in [Files -> [Regs -> AnyWord]]
          /\ \A g \in Files : \A k \in Regs : buf'[g][k] \in {Zero} \cup WordsFor(k)
      BY <1>0, <2>1, <2>4, <2>6 DEF CallType
    <2>8. bad' \in Uses
      BY <1>0, <1>5 DEF ReadRegister, DevType
    <2> QED
      BY <1>0, <2>2, <2>3, <2>7, <2>8 DEF AxiType, DevType, RegType, FileType, CallType
  <1>6. ASSUME NEW f \in Files, WriteRegister(f) PROVE AxiType'
    <2>1. addr[f] \in Regs /\ addr[f] + 1 \in 0 .. MaxPos
      BY <1>0, <1>6, AddrInRegs DEF WriteRegister
    <2>2. RegType' /\ bad' \in Uses
      BY <1>0, <1>6, <2>1, StoreType DEF WriteRegister, ThisWord
    <2>3. UNCHANGED <<state, regs, cdev, class, mapped, open, map, pos, call, op, size, buf, start>>
      BY <1>6 DEF WriteRegister, deviceVars, fileVars
    <2>4. addr' \in [Files -> 0 .. MaxPos]
      BY <1>0, <1>6, <2>1 DEF WriteRegister, CallType
    <2> QED
      BY <1>0, <2>2, <2>3, <2>4 DEF AxiType, DevType, FileType, CallType
  <1>7. ASSUME NEW f \in Files, MappedStore(f) PROVE AxiType'
    <2>1. PICK k \in Regs : Store(map[f], k, Word(f, k))
      BY <1>7 DEF MappedStore
    <2>2. RegType' /\ bad' \in Uses
      BY <1>0, <2>1, StoreType
    <2> QED
      BY <1>0, <1>7, <2>2
         DEF AxiType, DevType, FileType, CallType, MappedStore, deviceVars, fileVars, callVars
  <1>8. ASSUME NEW f \in Files, CopyFails(f) \/ Return(f) PROVE AxiType'
    <2>1. Forget(f) /\ UNCHANGED <<state, regs, cdev, class, mapped, reg, open, map, pos, bad>>
      BY <1>8 DEF CopyFails, Return, deviceVars, fileVars
    <2>2. RegType' /\ CallType'
      BY <1>0, <2>1, ForgetType
    <2> QED
      BY <1>0, <2>1, <2>2 DEF AxiType, DevType, FileType
  <1>9. ASSUME NEW f \in Files, Finish(f) PROVE AxiType'
    <2>1. /\ UNCHANGED <<state, regs, cdev, class, mapped, reg, open, map, op, size, addr, buf,
                         start, seen, bad>>
          /\ call' = [call EXCEPT ![f] = "done"]
      BY <1>9 DEF Finish, deviceVars
    <2>2. pos' \in [Files -> 0 .. MaxPos]
      <3>1. pos[f] \in Nat /\ Count(f) * RegSize \in Nat
        <4>1. pos[f] \in 0 .. MaxPos /\ MaxPos \in Nat
          BY <1>0, AxiSizesAssumption DEF FileType
        <4>2. Count(f) \in Nat /\ RegSize \in Nat
          BY <1>0, CountFacts, AxiSizesAssumption
        <4> QED
          BY <4>1, <4>2
      <3>2. PICK p \in {pos[f], pos[f] + Count(f) * RegSize} :
               p <= MaxPos /\ pos' = [pos EXCEPT ![f] = p]
        BY <1>9 DEF Finish
      <3>3. p \in 0 .. MaxPos
        BY <3>1, <3>2, AxiSizesAssumption
      <3> QED
        BY <1>0, <3>2, <3>3 DEF FileType
    <2> QED
      BY <1>0, <2>1, <2>2 DEF AxiType, DevType, RegType, FileType, CallType
  <1>10. CASE UNCHANGED vars
    BY <1>0, <1>10
       DEF vars, deviceVars, fileVars, callVars, AxiType, DevType, RegType, FileType, CallType
  <1> QED
    BY <1>1, <1>2, <1>3, <1>4, <1>5, <1>6, <1>7, <1>8, <1>9, <1>10 DEF Next, FileStep

(***************************************************************************)
(* Every register, every buffer and every position has the values it can   *)
(* have, for any size of the register file.                                *)
(***************************************************************************)
THEOREM AxiTypeCorrect == Spec => []TypeOK
  BY TypeInit, TypeStep, TypeParts, PTL DEF Spec
-----------------------------------------------------------------------------
LEMMA DevicesInit == Init => OneAtATime /\ DevData /\ FilesHold
  BY DEF Init, OneAtATime, DevData, FilesHold, Probing, Alone

\* Probes and removals keep what the other devices rely on.
LEMMA DevicesStep ==
  ASSUME AxiType, OneAtATime, DevData, [Next]_vars
  PROVE  OneAtATime' /\ DevData'
  <1>0. DevType
    BY DEF AxiType
  <1>1. ASSUME NEW d \in Devices, MapRegisters(d) PROVE OneAtATime' /\ DevData'
    <2>1. /\ state[d] = "out" /\ \A e \in Devices : state[e] \notin {"cdev", "class", "node"}
          /\ UNCHANGED <<cdev, class>>
      BY <1>1 DEF MapRegisters, At, Probing
    <2>2. CASE regs' = d /\ mapped' = mapped \cup {d} /\ Goto(d, "cdev")
      <3>1. \A e \in Devices : state'[e] = IF e = d THEN "cdev" ELSE state[e]
        BY <1>0, <2>2 DEF DevType, Goto
      <3>2. \A e \in Devices : ~Alone(e)'
        BY <3>1 DEF Alone
      <3> QED
        BY <2>1, <2>2, <3>1, <3>2 DEF OneAtATime, DevData, Probing
    <2>3. CASE Fail(d)
      <3>1. \A e \in Devices : state'[e] = IF e = d THEN "failed" ELSE state[e]
        BY <1>0, <2>3 DEF DevType, Fail, Goto
      <3>2. mapped' = mapped \ {d}
        BY <2>3 DEF Fail
      <3>3. \A e \in Devices : ~Alone(e)'
        BY <3>1 DEF Alone
      <3> QED
        BY <2>1, <3>1, <3>2, <3>3 DEF OneAtATime, DevData, Probing
    <2> QED
      BY <1>1, <2>2, <2>3 DEF MapRegisters, TakeRegs
  <1>2. ASSUME NEW d \in Devices, AddCdev(d) PROVE OneAtATime' /\ DevData'
    <2>1. state[d] = "cdev" /\ UNCHANGED <<regs, class>>
      BY <1>2 DEF AddCdev, At
    <2>2. CASE cdev' = d /\ Goto(d, "class") /\ UNCHANGED mapped
      <3>1. \A e \in Devices : state'[e] = IF e = d THEN "class" ELSE state[e]
        BY <1>0, <2>2 DEF DevType, Goto
      <3>2. \A e \in Devices : ~Alone(e)'
        BY <3>1 DEF Alone
      <3> QED
        BY <2>1, <2>2, <3>1, <3>2 DEF OneAtATime, DevData, Probing
    <2>3. CASE Fail(d)
      <3>1. \A e \in Devices : state'[e] = IF e = d THEN "failed" ELSE state[e]
        BY <1>0, <2>3 DEF DevType, Fail, Goto
      <3>2. mapped' = mapped \ {d}
        BY <2>3 DEF Fail
      <3>3. \A e \in Devices : ~Alone(e)'
        BY <3>1 DEF Alone
      <3> QED
        BY <2>1, <3>1, <3>2, <3>3 DEF OneAtATime, DevData, Probing
    <2> QED
      BY <1>2, <2>2, <2>3 DEF AddCdev
  <1>3. ASSUME NEW d \in Devices, CreateClass(d) PROVE OneAtATime' /\ DevData'
    <2>1. state[d] = "class" /\ UNCHANGED <<regs, cdev>>
      BY <1>3 DEF CreateClass, At
    <2>2. CASE /\ \A e \in Devices : state[e] # "in"
               /\ class' = "live" /\ Goto(d, "node") /\ UNCHANGED mapped
      <3>1. \A e \in Devices : state'[e] = IF e = d THEN "node" ELSE state[e]
        BY <1>0, <2>2 DEF DevType, Goto
      <3>2. \A e \in Devices : ~Alone(e)'
        BY <3>1 DEF Alone
      <3> QED
        BY <2>1, <2>2, <3>1, <3>2 DEF OneAtATime, DevData, Probing
    <2>3. CASE Fail(d)
      <3>1. \A e \in Devices : state'[e] = IF e = d THEN "failed" ELSE state[e]
        BY <1>0, <2>3 DEF DevType, Fail, Goto
      <3>2. mapped' = mapped \ {d}
        BY <2>3 DEF Fail
      <3>3. \A e \in Devices : ~Alone(e)'
        BY <3>1 DEF Alone
      <3> QED
        BY <2>1, <3>1, <3>2, <3>3 DEF OneAtATime, DevData, Probing
    <2> QED
      BY <1>3, <2>2, <2>3 DEF CreateClass
  <1>4. ASSUME NEW d \in Devices, CreateNode(d) PROVE OneAtATime' /\ DevData'
    <2>1. state[d] = "node" /\ UNCHANGED <<regs, cdev>>
      BY <1>4 DEF CreateNode, At
    <2>2. CASE Goto(d, "in") /\ UNCHANGED <<class, mapped>>
      <3>1. \A e \in Devices : state'[e] = IF e = d THEN "in" ELSE state[e]
        BY <1>0, <2>2 DEF DevType, Goto
      <3>2. \A e \in Devices \ {d} : state[e] # "in" /\ state[e] \notin {"cdev", "class", "node"}
        BY <2>1 DEF OneAtATime, Probing
      <3>3. \A e \in Devices : Alone(e)' => e = d
        BY <3>1 DEF Alone
      <3>4. OneAtATime'
        BY <3>1, <3>2 DEF OneAtATime, Probing
      <3>5. DevData'
        BY <2>1, <2>2, <3>1, <3>2, <3>3 DEF DevData, Probing
      <3> QED
        BY <3>4, <3>5
    <2>3. CASE Fail(d)
      <3>1. \A e \in Devices : state'[e] = IF e = d THEN "failed" ELSE state[e]
        BY <1>0, <2>3 DEF DevType, Fail, Goto
      <3>2. mapped' = mapped \ {d}
        BY <2>3 DEF Fail
      <3>3. \A e \in Devices : ~Alone(e)'
        BY <3>1 DEF Alone
      <3> QED
        BY <2>1, <3>1, <3>2, <3>3 DEF OneAtATime, DevData, Probing
    <2> QED
      BY <1>4, <2>2, <2>3 DEF CreateNode
  <1>5. ASSUME NEW d \in Devices, Remove(d) PROVE OneAtATime' /\ DevData'
    <2>1. /\ state[d] = "in" /\ mapped' = mapped \ {d} /\ UNCHANGED <<regs, cdev>>
          /\ \A e \in Devices : state[e] \notin {"cdev", "class", "node"}
          /\ \A e \in Devices : state'[e] = IF e = d THEN "out" ELSE state[e]
      BY <1>0, <1>5 DEF Remove, At, Goto, Probing, DevType
    <2>2. \A e \in Devices : state'[e] # "in"
      BY <2>1 DEF OneAtATime
    <2> QED
      BY <2>1, <2>2 DEF OneAtATime, DevData, Probing, Alone
  <1>6. CASE UNCHANGED deviceVars
    BY <1>6 DEF deviceVars, OneAtATime, DevData, Probing, Alone
  <1>7. ASSUME NEW f \in Files, FileStep(f) PROVE UNCHANGED deviceVars
    BY <1>7 DEF FileStep, Open, Release, Llseek, SimpleMmap, MappedStore, Read, Write, Begin,
                ReadRegister, WriteRegister, CopyFails, Finish, Return
  <1> QED
    BY <1>1, <1>2, <1>3, <1>4, <1>5, <1>6, <1>7 DEF Next, ProbeStep, vars

\* A probe that is not finished leaves the devices that are in, and a removal
\* needs all files closed.
LEMMA FilesStep ==
  ASSUME AxiType, OneAtATime, DevData, FilesHold, [Next]_vars
  PROVE  FilesHold'
  <1>0. DevType /\ FileType /\ CallType
    BY DEF AxiType
  <1>1. ASSUME NEW d \in Devices, ProbeStep(d) PROVE FilesHold'
    <2>1. UNCHANGED <<open, map, call, bad>>
      BY <1>1 DEF ProbeStep, MapRegisters, AddCdev, CreateClass, CreateNode, fileVars, callVars
    <2>2. /\ state[d] # "in" /\ mapped \ {d} \subseteq mapped'
          /\ \E s \in {"cdev", "class", "node", "in", "failed"} : state' = [state EXCEPT ![d] = s]
      BY <1>1 DEF ProbeStep, MapRegisters, AddCdev, CreateClass, CreateNode, Fail, Goto, At
    <2>3. \A e \in Devices : state[e] = "in" => state'[e] = "in"
      BY <1>0, <2>2 DEF DevType
    <2>4. ASSUME NEW x, Reachable(x) PROVE Reachable(x)'
      BY <1>0, <2>2, <2>3, <2>4 DEF Reachable, DevType
    <2> QED
      BY <2>1, <2>3, <2>4 DEF FilesHold
  <1>2. ASSUME NEW d \in Devices, Remove(d), GoesOn PROVE FilesHold'
    <2>1. open = {} /\ UNCHANGED <<open, map, call>>
      BY <1>2 DEF Remove, fileVars, callVars
    <2> QED
      BY <1>2, <2>1 DEF FilesHold
  <1>3. ASSUME NEW f \in Files, FileStep(f), GoesOn PROVE FilesHold'
    <2>0. UNCHANGED <<state, mapped>> /\ \A x : Reachable(x)' <=> Reachable(x)
      <3>1. UNCHANGED <<state, mapped>>
        BY <1>3 DEF FileStep, Open, Release, Llseek, SimpleMmap, MappedStore, Read, Write, Begin,
                    ReadRegister, WriteRegister, CopyFails, Finish, Return, deviceVars
      <3> QED
        BY <3>1 DEF Reachable
    <2>1. CASE Open(f)
      BY <1>0, <1>3, <2>0, <2>1 DEF Open, FilesHold, callVars
    <2>2. CASE Release(f)
      BY <1>0, <1>3, <2>0, <2>2 DEF Release, Idle, FilesHold, callVars, FileType
    <2>3. CASE SimpleMmap(f)
      BY <1>0, <1>3, <2>0, <2>3 DEF SimpleMmap, Idle, FilesHold, callVars, FileType
    <2>4. CASE Llseek(f) \/ MappedStore(f)
      <3>1. UNCHANGED <<open, map, call>>
        BY <2>4 DEF Llseek, MappedStore, fileVars, callVars
      <3> QED
        BY <1>3, <2>0, <3>1 DEF FilesHold
    <2>5. CASE Read(f) \/ Write(f)
      <3>1. /\ UNCHANGED <<open, map>> /\ f \in open
            /\ \E c \in {"read", "write"} : call' = [call EXCEPT ![f] = c]
        BY <2>5 DEF Read, Write, Begin, Idle, fileVars
      <3> QED
        BY <1>0, <1>3, <2>0, <3>1 DEF FilesHold, CallType
    <2>6. CASE ReadRegister(f) \/ WriteRegister(f)
      <3>1. UNCHANGED <<open, map, call>>
        BY <2>6 DEF ReadRegister, WriteRegister, fileVars
      <3> QED
        BY <1>3, <2>0, <3>1 DEF FilesHold
    <2>7. CASE CopyFails(f) \/ Finish(f) \/ Return(f)
      <3>1. /\ UNCHANGED <<open, map>> /\ call[f] # "idle"
            /\ \E c \in {"idle", "done"} : call' = [call EXCEPT ![f] = c]
        BY <2>7 DEF CopyFails, Finish, Return, Forget, fileVars
      <3>2. \A g \in Files : call'[g] # "idle" => call[g] # "idle"
        BY <1>0, <3>1 DEF CallType
      <3> QED
        BY <1>3, <2>0, <3>1, <3>2 DEF FilesHold
    <2> QED
      BY <1>3, <2>1, <2>2, <2>3, <2>4, <2>5, <2>6, <2>7 DEF FileStep
  <1>4. CASE UNCHANGED vars
    BY <1>4 DEF vars, deviceVars, fileVars, callVars, FilesHold, Reachable
  <1> QED
    BY <1>1, <1>2, <1>3, <1>4 DEF Next

LEMMA DevicesInvariant == Spec => [](AxiType /\ OneAtATime /\ DevData /\ FilesHold)
  BY TypeInit, TypeStep, DevicesInit, DevicesStep, FilesStep, PTL DEF Spec

(***************************************************************************)
(* With one dev_data for all devices, a file, a mapping or a removal meets *)
(* registers, a class or a number of another device, or of none, only      *)
(* while a second device of the tree has been probed.                      *)
(***************************************************************************)
THEOREM StaleNeedsTwoDevices == Spec => StaleOnlyWithTwoDevices
  <1>1. ASSUME AxiType, OneAtATime, DevData, FilesHold, [Next]_vars, bad # "stale", bad' = "stale"
        PROVE  \E d, e \in Devices : d # e /\ state[d] = "in" /\ state[e] # "out"
    <2>0. bad' # bad /\ GoesOn
      BY <1>1 DEF Next, vars
    <2>1. ASSUME NEW d \in Devices, Remove(d)
          PROVE  \E e \in Devices : d # e /\ state[e] # "out"
      <3>1. state[d] = "in" /\ (class # "live" \/ cdev # d)
        BY <1>1, <2>1 DEF Remove, At
      <3>2. ~Alone(d)
        BY <1>1, <3>1 DEF DevData
      <3> QED
        BY <3>1, <3>2 DEF Alone
    <2>2. ASSUME NEW f \in Files, f \in open, ~Reachable(regs)
          PROVE  \E d, e \in Devices : d # e /\ state[d] = "in" /\ state[e] # "out"
      <3>1. PICK d \in Devices : state[d] = "in"
        BY <1>1, <2>2 DEF FilesHold
      <3>2. ~Alone(d)
        BY <1>1, <2>2, <3>1 DEF DevData, Reachable
      <3> QED
        BY <3>1, <3>2 DEF Alone
    <2>3. ASSUME NEW f \in Files, MappedStore(f) PROVE FALSE
      <3>1. Reachable(map[f])
        BY <1>1, <2>0, <2>3 DEF MappedStore, FilesHold
      <3> QED
        BY <1>1, <2>3, <3>1 DEF MappedStore, Store
    <2>4. ASSUME NEW f \in Files, ReadRegister(f) \/ WriteRegister(f) \/ SimpleMmap(f)
          PROVE  f \in open /\ ~Reachable(regs)
      BY <1>1, <2>4 DEF ReadRegister, WriteRegister, SimpleMmap, Store, Idle, FilesHold
    <2>5. \/ \E d \in Devices : Remove(d)
          \/ \E f \in Files : \/ ReadRegister(f) \/ WriteRegister(f) \/ SimpleMmap(f)
                              \/ MappedStore(f)
      BY <1>1, <2>0
         DEF Next, ProbeStep, MapRegisters, AddCdev, CreateClass, CreateNode, FileStep, Open, Release,
             Llseek, Read, Write, Begin, CopyFails, Finish, Return, vars
    <2>6. CASE \E d \in Devices : Remove(d)
      <3>1. PICK d \in Devices : Remove(d)
        BY <2>6
      <3>2. state[d] = "in"
        BY <3>1 DEF Remove, At
      <3> QED
        BY <2>1, <3>1, <3>2
    <2> QED
      BY <2>2, <2>3, <2>4, <2>5, <2>6
  <1>2. AxiType /\ OneAtATime /\ DevData /\ FilesHold /\ [Next]_vars
          => [bad # "stale" /\ bad' = "stale" =>
                \E d, e \in Devices : d # e /\ state[d] = "in" /\ state[e] # "out"]_vars
    BY <1>1
  <1> QED
    BY <1>2, DevicesInvariant, PTL DEF Spec, StaleOnlyWithTwoDevices
-----------------------------------------------------------------------------
LEMMA CallsInit == Init => CallsSee
  BY DEF Init, CallsSee

\* What CallsSee says of one file, for a step that leaves the file's own call and
\* does not take from the registers what it has seen.
Sees(f) ==
    /\ call[f] \in {"read", "write"} =>
          op[f] = call[f] /\ \A k \in Regs : reg[k] \in seen[f][k]
    /\ call[f] = "done" => LoopEnds(f)
    /\ call[f] = "done" \/ (GoesOn /\ call[f] \in {"read", "write"}) =>
          (start[f] = 0 =>
             \A k \in Regs : k < addr[f] /\ k < Count(f) => Transferred(f, k) \in seen[f][k])

LEMMA OtherCalls ==
  ASSUME CallType, CallType', NEW f \in Files, Sees(f), GoesOn,
         call'[f] = call[f], op'[f] = op[f], size'[f] = size[f], addr'[f] = addr[f],
         buf'[f] = buf[f], start'[f] = start[f],
         \A k \in Regs : seen[f][k] \subseteq seen'[f][k],
         call[f] \in {"read", "write"} => \A k \in Regs : reg'[k] \in seen'[f][k]
  PROVE  Sees(f)'
  <1>1. Count(f)' = Count(f) /\ LoopEnds(f)' = LoopEnds(f)
    BY DEF Count, LoopEnds
  <1>2. \A k : Transferred(f, k)' = Transferred(f, k)
    BY DEF Transferred
  <1>3. call'[f] \in {"read", "write"} =>
           op'[f] = call'[f] /\ \A k \in Regs : reg'[k] \in seen'[f][k]
    BY DEF Sees
  <1>4. call'[f] = "done" => LoopEnds(f)'
    BY <1>1 DEF Sees
  <1>5. ASSUME call[f] \in {"read", "write", "done"}, start[f] = 0,
               NEW k \in Regs, k < addr[f], k < Count(f)
        PROVE  Transferred(f, k) \in seen'[f][k]
    BY <1>5 DEF Sees
  <1> QED
    BY <1>1, <1>2, <1>3, <1>4, <1>5 DEF Sees

\* A store is seen by every call under way.
LEMMA StoreSeen ==
  ASSUME RegType, NEW d, NEW k \in Regs, NEW w, Store(d, k, w), NEW g \in Files
  PROVE  /\ \A j \in Regs : seen[g][j] \subseteq seen'[g][j]
         /\ call[g] \in {"read", "write"} /\ (\A j \in Regs : reg[j] \in seen[g][j]) =>
               \A j \in Regs : reg'[j] \in seen'[g][j]
         /\ call[g] \in {"read", "write"} /\ GoesOn' => w \in seen'[g][k]
  <1>1. CASE Reachable(d)
    <2>1. /\ reg' = [reg EXCEPT ![k] = w]
          /\ seen' = [f \in Files |->
                       [seen[f] EXCEPT ![k] =
                           IF call[f] \in {"read", "write"} THEN @ \cup {w} ELSE @]]
      BY <1>1 DEF Store
    <2>2. seen'[g] = [seen[g] EXCEPT ![k] =
                         IF call[g] \in {"read", "write"} THEN seen[g][k] \cup {w} ELSE seen[g][k]]
      BY <2>1
    <2>3. seen[g] \in [Regs -> SUBSET AnyWord] /\ reg \in [Regs -> AnyWord]
      BY DEF RegType
    <2>4. /\ seen'[g][k] = IF call[g] \in {"read", "write"} THEN seen[g][k] \cup {w} ELSE seen[g][k]
          /\ \A j \in Regs \ {k} : seen'[g][j] = seen[g][j]
      BY <2>2, <2>3
    <2>5. reg'[k] = w /\ \A j \in Regs \ {k} : reg'[j] = reg[j]
      BY <2>1, <2>3
    <2> QED
      BY <2>4, <2>5
  <1>2. CASE ~Reachable(d)
    BY <1>2 DEF Store
  <1> QED
    BY <1>1, <1>2

LEMMA CallsStep ==
  ASSUME AxiType, AxiType', OneAtATime, DevData, FilesHold, CallsSee, [Next]_vars
  PROVE  CallsSee'
  <1>0. RegType /\ CallType /\ CallType' /\ FileType
    BY DEF AxiType
  <1>s. \A g \in Files : Sees(g)
    BY DEF CallsSee, Sees
  <1> SUFFICES ASSUME NEW g \in Files PROVE Sees(g)'
    BY DEF CallsSee, Sees
  <1>r. call[g] \in {"read", "write"} => \A k \in Regs : reg[k] \in seen[g][k]
    BY <1>s DEF Sees
  <1>1. ASSUME GoesOn, NEW d \in Devices, ProbeStep(d) \/ Remove(d) PROVE Sees(g)'
    <2>1. UNCHANGED <<call, op, size, addr, buf, start, seen>>
      BY <1>1 DEF ProbeStep, MapRegisters, AddCdev, CreateClass, CreateNode, Remove, callVars
    <2>2. call[g] \in {"read", "write"} => reg' = reg
      <3>1. CASE CreateNode(d)
        <4>1. \A e \in Devices : state[e] # "in"
          BY <3>1 DEF CreateNode, At, OneAtATime
        <4>2. call[g] = "idle"
          BY <4>1 DEF FilesHold
        <4> QED
          BY <4>2
      <3>2. CASE ~CreateNode(d)
        BY <1>1, <3>2 DEF ProbeStep, MapRegisters, AddCdev, CreateClass, Remove
      <3> QED
        BY <3>1, <3>2
    <2> QED
      BY <1>0, <1>1, <1>r, <1>s, <2>1, <2>2, OtherCalls
  <1>2. ASSUME GoesOn, UNCHANGED <<call, op, size, addr, buf, start, seen, reg>> PROVE Sees(g)'
    BY <1>0, <1>2, <1>r, <1>s, OtherCalls
  <1>3. ASSUME GoesOn, NEW f \in Files, MappedStore(f) PROVE Sees(g)'
    <2>1. UNCHANGED <<call, op, size, addr, buf, start>>
      BY <1>3 DEF MappedStore, callVars
    <2>2. PICK k \in Regs : Store(map[f], k, Word(f, k))
      BY <1>3 DEF MappedStore
    <2>3. /\ \A j \in Regs : seen[g][j] \subseteq seen'[g][j]
          /\ call[g] \in {"read", "write"} => \A j \in Regs : reg'[j] \in seen'[g][j]
      BY <1>0, <1>r, <2>2, StoreSeen
    <2> QED
      BY <1>0, <1>3, <1>s, <2>1, <2>3, OtherCalls
  <1>4. ASSUME GoesOn, NEW f \in Files, Read(f) \/ Write(f) PROVE Sees(g)'
    <2>0. PICK o \in {"read", "write"} : Begin(f, o) /\ call' = [call EXCEPT ![f] = o]
      BY <1>4 DEF Read, Write
    <2>1. CASE g = f
      <3>1. /\ call'[g] = o /\ op'[g] = o /\ start'[g] = pos[g] /\ addr'[g] = pos[g] \div RegSize
            /\ \A k \in Regs : reg'[k] \in seen'[g][k]
        BY <1>0, <2>0, <2>1 DEF Begin, CallType, RegType
      <3>2. start'[g] = 0 => \A k \in Regs : ~(k < addr'[g])
        <4>1. start'[g] = 0 => addr'[g] = 0
          BY <3>1, AxiSizesAssumption
        <4> QED
          BY <4>1, AxiSizesAssumption DEF Regs
      <3> QED
        BY <3>1, <3>2 DEF Sees
    <2>2. CASE g # f
      <3>1. /\ call'[g] = call[g] /\ op'[g] = op[g] /\ size'[g] = size[g] /\ addr'[g] = addr[g]
            /\ buf'[g] = buf[g] /\ start'[g] = start[g] /\ seen'[g] = seen[g] /\ reg' = reg
        BY <1>0, <2>0, <2>2 DEF Begin, CallType, RegType
      <3> QED
        BY <1>0, <1>4, <1>r, <1>s, <3>1, OtherCalls
    <2> QED
      BY <2>1, <2>2
  <1>5. ASSUME GoesOn, NEW f \in Files, ReadRegister(f) PROVE Sees(g)'
    <2>0. /\ call[f] = "read" /\ ~LoopEnds(f) /\ addr[f] \in Regs
          /\ UNCHANGED <<reg, call, op, size, start, seen>>
          /\ addr' = [addr EXCEPT ![f] = addr[f] + 1]
          /\ bad' = IF Reachable(regs) THEN bad ELSE "stale"
          /\ buf' = [buf EXCEPT ![f] = [buf[f] EXCEPT ![addr[f]] =
                        IF Reachable(regs) THEN reg[addr[f]] ELSE Zero]]
      BY <1>0, <1>5, AddrInRegs DEF ReadRegister
    <2>1. CASE g = f
      <3>1. op[g] = "read" /\ Count(g)' = Count(g) /\ addr'[g] = addr[g] + 1
        BY <1>0, <1>s, <2>0, <2>1 DEF Sees, Count, CallType
      <3>2. ASSUME GoesOn', start[g] = 0, NEW k \in Regs, k < addr[g] + 1, k < Count(g)
            PROVE  buf'[g][k] \in seen[g][k]
        <4>1. buf'[g] = [buf[g] EXCEPT ![addr[g]] = reg[addr[g]]]
          BY <1>0, <2>0, <2>1, <3>2 DEF CallType
        <4>2. CASE k = addr[g]
          BY <1>0, <1>r, <2>0, <2>1, <4>1, <4>2 DEF CallType
        <4>3. CASE k # addr[g]
          <5>1. k < addr[g]
            BY <1>0, <2>0, <2>1, <3>2, <4>3 DEF Regs
          <5>2. buf[g][k] \in seen[g][k]
            BY <1>5, <1>s, <2>0, <2>1, <3>1, <3>2, <5>1 DEF Sees, Transferred
          <5>3. buf'[g][k] = buf[g][k]
            BY <1>0, <4>1, <4>3 DEF CallType
          <5> QED
            BY <5>2, <5>3
        <4> QED
          BY <4>2, <4>3
      <3> QED
        BY <1>r, <2>0, <2>1, <3>1, <3>2 DEF Sees, Transferred
    <2>2. CASE g # f
      <3>1. addr'[g] = addr[g] /\ buf'[g] = buf[g]
        BY <1>0, <2>0, <2>2 DEF CallType
      <3> QED
        BY <1>0, <1>5, <1>r, <1>s, <2>0, <3>1, OtherCalls
    <2> QED
      BY <2>1, <2>2
  <1>6. ASSUME GoesOn, NEW f \in Files, WriteRegister(f) PROVE Sees(g)'
    <2>0. /\ call[f] = "write" /\ ~LoopEnds(f) /\ addr[f] \in Regs
          /\ UNCHANGED <<call, op, size, buf, start>>
          /\ addr' = [addr EXCEPT ![f] = addr[f] + 1]
          /\ Store(regs, addr[f], Word(f, addr[f]))
      BY <1>0, <1>6, AddrInRegs DEF WriteRegister, ThisWord
    <2>s. /\ \A j \in Regs : seen[g][j] \subseteq seen'[g][j]
          /\ call[g] \in {"read", "write"} => \A j \in Regs : reg'[j] \in seen'[g][j]
          /\ call[g] \in {"read", "write"} /\ GoesOn' => Word(f, addr[f]) \in seen'[g][addr[f]]
      BY <1>0, <1>r, <2>0, StoreSeen
    <2>1. CASE g = f
      <3>1. op[g] = "write" /\ Count(g)' = Count(g) /\ addr'[g] = addr[g] + 1
        BY <1>0, <1>s, <2>0, <2>1 DEF Sees, Count, CallType
      <3>2. ASSUME GoesOn', start[g] = 0, NEW k \in Regs, k < addr[g] + 1, k < Count(g)
            PROVE  Word(g, k) \in seen'[g][k]
        <4>1. CASE k = addr[g]
          BY <2>0, <2>1, <2>s, <3>2, <4>1
        <4>2. CASE k # addr[g]
          <5>1. k < addr[g]
            BY <1>0, <2>0, <2>1, <3>2, <4>2 DEF Regs
          <5>2. Word(g, k) \in seen[g][k]
            BY <1>6, <1>s, <2>0, <2>1, <3>1, <3>2, <5>1 DEF Sees, Transferred
          <5> QED
            BY <2>s, <5>2
        <4> QED
          BY <4>1, <4>2
      <3> QED
        BY <2>0, <2>1, <2>s, <3>1, <3>2 DEF Sees, Transferred
    <2>2. CASE g # f
      <3>1. addr'[g] = addr[g]
        BY <1>0, <2>0, <2>2 DEF CallType
      <3> QED
        BY <1>0, <1>6, <1>s, <2>0, <2>s, <3>1, OtherCalls
    <2> QED
      BY <2>1, <2>2
  <1>7. ASSUME GoesOn, NEW f \in Files, CopyFails(f) \/ Return(f) PROVE Sees(g)'
    <2>0. Forget(f) /\ UNCHANGED reg
      BY <1>7 DEF CopyFails, Return
    <2>1. CASE g = f
      <3>1. call'[g] = "idle"
        BY <1>0, <2>0, <2>1 DEF Forget, CallType
      <3> QED
        BY <3>1 DEF Sees
    <2>2. CASE g # f
      <3>1. /\ call'[g] = call[g] /\ op'[g] = op[g] /\ size'[g] = size[g] /\ addr'[g] = addr[g]
            /\ buf'[g] = buf[g] /\ start'[g] = start[g] /\ seen'[g] = seen[g]
        BY <1>0, <2>0, <2>2 DEF Forget, CallType, RegType
      <3> QED
        BY <1>0, <1>7, <1>r, <1>s, <2>0, <3>1, OtherCalls
    <2> QED
      BY <2>1, <2>2
  <1>8. ASSUME GoesOn, NEW f \in Files, Finish(f) PROVE Sees(g)'
    <2>0. /\ call[f] \in {"read", "write"} /\ LoopEnds(f)
          /\ call' = [call EXCEPT ![f] = "done"]
          /\ UNCHANGED <<reg, op, size, addr, buf, start, seen, bad>>
      BY <1>8 DEF Finish
    <2>1. CASE g = f
      <3>1. call'[g] = "done"
        BY <1>0, <2>0, <2>1 DEF CallType
      <3>2. LoopEnds(g)' = LoopEnds(g) /\ Count(g)' = Count(g)
            /\ \A k : Transferred(g, k)' = Transferred(g, k)
        BY <2>0 DEF LoopEnds, Count, Transferred
      <3> QED
        BY <1>8, <1>s, <2>0, <2>1, <3>1, <3>2 DEF Sees
    <2>2. CASE g # f
      <3>1. call'[g] = call[g]
        BY <1>0, <2>0, <2>2 DEF CallType
      <3> QED
        BY <1>0, <1>8, <1>r, <1>s, <2>0, <3>1, OtherCalls
    <2> QED
      BY <2>1, <2>2
  <1>9. ASSUME GoesOn, NEW f \in Files, Open(f) \/ Release(f) \/ Llseek(f) \/ SimpleMmap(f)
        PROVE  Sees(g)'
    <2>1. UNCHANGED <<call, op, size, addr, buf, start, seen, reg>>
      BY <1>9 DEF Open, Release, Llseek, SimpleMmap, callVars
    <2> QED
      BY <1>2, <1>9, <2>1
  <1>10. CASE UNCHANGED vars
    BY <1>10, <1>s DEF vars, deviceVars, fileVars, callVars, Sees, LoopEnds, Count, Transferred
  <1> QED
    BY <1>1, <1>3, <1>4, <1>5, <1>6, <1>7, <1>8, <1>9, <1>10 DEF Next, FileStep

(***************************************************************************)
(* A read or write that began at position 0 has transferred every register *)
(* it was asked for when it returns, each with a word the register held    *)
(* during the call, however many files and mappings store meanwhile.       *)
(***************************************************************************)
THEOREM CallsComplete == Spec => []CallsFromStartComplete
  <1>1. Spec => []AxiInv
    <2>1. Init => AxiInv
      BY TypeInit, DevicesInit, CallsInit DEF AxiInv
    <2>2. AxiInv /\ [Next]_vars => AxiInv'
      BY TypeStep, DevicesStep, FilesStep, CallsStep DEF AxiInv
    <2> QED
      BY <2>1, <2>2, PTL DEF Spec
  <1>2. AxiInv => CallsFromStartComplete
    <2> SUFFICES ASSUME AxiInv, NEW f \in Files, call[f] = "done", start[f] = 0,
                        NEW k \in 0 .. Count(f) - 1
                 PROVE  Transferred(f, k) \in seen[f][k]
      BY DEF CallsFromStartComplete, Transferred
    <2>0. CallType /\ CallsSee
      BY DEF AxiInv, AxiType
    <2>1. Count(f) \in Nat /\ Count(f) <= RegLength /\ RegLength \in Nat
      BY <2>0, CountFacts, AxiSizesAssumption
    <2>2. k \in Regs /\ k < Count(f)
      BY <2>1 DEF Regs
    <2>3. addr[f] >= Count(f) /\ addr[f] \in 0 .. MaxPos /\ MaxPos \in Nat
      BY <2>0, AxiSizesAssumption DEF CallsSee, LoopEnds, CallType
    <2>4. k < addr[f]
      BY <2>1, <2>2, <2>3
    <2> QED
      BY <2>0, <2>2, <2>4 DEF CallsSee
  <1> QED
    BY <1>1, <1>2, PTL
=============================================================================
