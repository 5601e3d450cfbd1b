------------------------ MODULE ContextServerProofs ------------------------
(***************************************************************************)
(* Proofs about ContextServer, for every number of clients, workers and    *)
(* slots.                                                                  *)
(***************************************************************************)
EXTENDS ContextServer, SequenceTheorems, TLAPS

(***************************************************************************)
(* The type invariant by group of variables, with what a worker between    *)
(* the test of a slot and its store holds: a slot below the limit and a    *)
(* context that was made.                                                  *)
(***************************************************************************)
ClientType ==
    /\ client \in [Clients -> {"new", "connected", "waiting", "open", "failed", "gone"}]
    /\ id \in [Clients -> Words]
    /\ closes \in [Clients -> 0 .. MaxCloses]
    /\ inbox \in [Clients -> Seq(Words)]
    /\ told \in [Clients -> Seq(0 .. ScanLimit - 1)]
    /\ given \in [Clients -> Seq(Nat \ {NoContext})]

PoolType ==
    /\ server \in {"up", "stopping", "down"}
    /\ listening \in Seq(Clients) /\ jobs \in Seq(Clients)

SlotType ==
    /\ created \in Nat
    /\ slots \in [Slots -> 0 .. created]
    /\ ctx \in [Workers -> 0 .. created]
    /\ closed \subseteq 1 .. created /\ twice \subseteq closed
    /\ contested \subseteq 0 .. ScanLimit - 1

WorkerType ==
    /\ pc \in [Workers -> {"idle", "peek", "handle", "send", "store", "recv"}]
    /\ conn \in [Workers -> Clients]
    /\ op \in [Workers -> Words]
    /\ i \in [Workers -> 0 .. ScanLimit]
    /\ \A w \in Workers :
          pc[w] \in {"send", "store"} => i[w] < ScanLimit /\ ctx[w] # NoContext

CtxType == ClientType /\ PoolType /\ SlotType /\ WorkerType

(***************************************************************************)
(* A connection is in one place: waiting to be accepted, a job of the      *)
(* pool, or with one worker.                                               *)
(***************************************************************************)
Active(w) == pc[w] # "idle"

OnePlace ==
    /\ \A m, n \in 1 .. Len(listening) : listening[m] = listening[n] => m = n
    /\ \A m, n \in 1 .. Len(jobs) : jobs[m] = jobs[n] => m = n
    /\ \A m \in 1 .. Len(listening), n \in 1 .. Len(jobs) : listening[m] # jobs[n]
    /\ \A w \in Workers : Active(w) =>
          /\ \A m \in 1 .. Len(listening) : listening[m] # conn[w]
          /\ \A n \in 1 .. Len(jobs) : jobs[n] # conn[w]
          /\ \A x \in Workers : Active(x) /\ conn[x] = conn[w] => x = w

\* A client that is not connected is in none of them.
NewIsNowhere ==
    \A c \in Clients : client[c] = "new" =>
        /\ \A m \in 1 .. Len(listening) : listening[m] # c
        /\ \A n \in 1 .. Len(jobs) : jobs[n] # c
        /\ \A w \in Workers : Active(w) => conn[w] # c

\* Nobody is told a context before a worker has taken the connection.
Untold(c) == told[c] = <<>> /\ given[c] = <<>>

NotYetTold ==
    /\ \A c \in Clients : client[c] = "new" => Untold(c)
    /\ \A m \in 1 .. Len(listening) : Untold(listening[m])
    /\ \A n \in 1 .. Len(jobs) : Untold(jobs[n])

(***************************************************************************)
(* A worker between the test of a slot and its assignment has the slot to  *)
(* itself and finds it empty, unless the slot is contested.                *)
(***************************************************************************)
Storing(w) == pc[w] \in {"send", "store"}

StoringAlone ==
    \A w, x \in Workers : w # x /\ Storing(w) /\ Storing(x) /\ i[w] = i[x] => i[w] \in contested

StoringToEmpty ==
    \A w \in Workers : Storing(w) => slots[i[w]] = NoContext \/ i[w] \in contested

(***************************************************************************)
(* Every answer has its context, and the context is in its slot, closed,   *)
(* lost in a contested slot, or about to be stored.                        *)
(***************************************************************************)
Kept(c, k) ==
    slots[told[c][k]] = given[c][k] \/ given[c][k] \in closed \/ told[c][k] \in contested

Owns(w) ==
    Active(w) =>
        /\ Len(given[conn[w]]) = Len(told[conn[w]])
        /\ \A k \in 1 .. Len(told[conn[w]]) :
              \/ Kept(conn[w], k)
              \/ pc[w] = "store" /\ told[conn[w]][k] = i[w] /\ given[conn[w]][k] = ctx[w]

AllOwn == \A w \in Workers : Owns(w)

CtxInv ==
    CtxType /\ OnePlace /\ NewIsNowhere /\ NotYetTold /\ StoringAlone /\ StoringToEmpty /\ AllOwn
-----------------------------------------------------------------------------
LEMMA WordFacts ==
  /\ SlotCount \in Nat /\ ScanLimit \in Nat \ {0} /\ ScanLimit <= SlotCount
  /\ Open \in Words /\ Clos \in Words /\ Hs \in Words
  /\ 0 .. ScanLimit - 1 \subseteq Slots /\ Slots \subseteq Words
  /\ Open # Clos
  BY SlotsAssumption DEF Open, Clos, Hs, Words, Slots

LEMMA CtxTypeParts == CtxType => TypeOK
  BY DEF CtxType, ClientType, PoolType, SlotType, WorkerType, TypeOK

LEMMA CtxTypeInit == Init => CtxType
  <1> SUFFICES ASSUME Init PROVE CtxType
    OBVIOUS
  <1>1. ClientType
    BY WordFacts, MaxClosesAssumption DEF Init, ClientType, Empty
  <1>2. PoolType
    BY DEF Init, PoolType
  <1>3. SlotType
    BY DEF Init, SlotType, NoContext, NoSlots, NoWork
  <1>4. (CHOOSE c \in Clients : TRUE) \in Clients
    BY ClientsAssumption
  <1>5. WorkerType
    BY <1>4, WordFacts DEF Init, WorkerType, NoWork
  <1> QED
    BY <1>1, <1>2, <1>3, <1>5 DEF CtxType

\* What recv gives a worker are words, and words remain.
LEMMA ReceivedWords ==
  ASSUME ClientType, WorkerType, NEW w \in Workers, NEW n \in Nat \ {0}
  PROVE  Arrived(w) \in Seq(Words) /\ Received(w, n) \subseteq Words /\ Rest(w, n) \in Seq(Words)
  <1>1. Arrived(w) \in Seq(Words)
    BY DEF ClientType, WorkerType, Arrived
  <1>2. Len(Arrived(w)) \in Nat /\ \A m \in 1 .. Len(Arrived(w)) : Arrived(w)[m] \in Words
    BY <1>1, ElementOfSeq, LenProperties
  <1>3. Received(w, n) \subseteq Words
    BY <1>2 DEF Received
  <1>4. \A m \in n + 1 .. Len(Arrived(w)) : Arrived(w)[m] \in Words
    BY <1>2
  <1>5. Rest(w, n) \in Seq(Words)
    BY <1>2, <1>4, SubSeqProperties DEF Rest
  <1> QED
    BY <1>1, <1>3, <1>5

LEMMA ClientTypeStep ==
  ASSUME CtxType, NEW c \in Clients,
         Connect(c) \/ ClientStep(c) \/ SendClose(c) \/ Disconnect(c)
  PROVE  CtxType'
  <1>0. ClientType /\ PoolType /\ SlotType /\ WorkerType
    BY DEF CtxType
  <1>1. UNCHANGED <<told, given, server, jobs, slots, created, closed, twice, contested, pc, conn, op,
                    i, ctx>>
    BY DEF Connect, ClientStep, SendOpen, RecvReply, SendClose, Disconnect, poolVars, ctxVars,
           toldVars, workerVars
  <1>2. PoolType'
    <2>1. listening' = listening \/ listening' = Append(listening, c)
      BY DEF Connect, ClientStep, SendOpen, RecvReply, SendClose, Disconnect, poolVars
    <2> QED
      BY <1>0, <1>1, <2>1 DEF PoolType
  <1>3. ClientType'
    <2>1. CASE Connect(c)
      BY <1>0, <1>1, <2>1 DEF Connect, ClientType
    <2>2. CASE SendOpen(c)
      <3>1. inbox[c] \o <<Hs, Open>> \in Seq(Words)
        <4>1. inbox[c] \in Seq(Words) /\ <<Hs, Open>> \in Seq(Words)
          BY <1>0, WordFacts DEF ClientType
        <4> QED
          BY <4>1, ConcatProperties
      <3> QED
        BY <1>0, <1>1, <2>2, <3>1 DEF SendOpen, Fails, ClientType
    <2>3. CASE RecvReply(c)
      <3>1. id' = id \/ \E x \in Words : id' = [id EXCEPT ![c] = x]
        <4>1. CASE told[c] # <<>> /\ id' = [id EXCEPT ![c] = told[c][1]]
          <5>1. told[c] \in Seq(0 .. ScanLimit - 1)
            BY <1>0 DEF ClientType
          <5>2. told[c][1] \in 0 .. ScanLimit - 1
            <6>1. 1 \in 1 .. Len(told[c])
              BY <4>1, <5>1, EmptySeq, LenProperties
            <6> QED
              BY <5>1, <6>1, ElementOfSeq
          <5> QED
            BY <4>1, <5>2, WordFacts
        <4> QED
          BY <2>3, <4>1 DEF RecvReply
      <3> QED
        <4>1. id' \in [Clients -> Words]
          BY <1>0, <3>1 DEF ClientType
        <4>2. UNCHANGED <<closes, inbox>>
              /\ \E p \in {"open", "failed"} : client' = [client EXCEPT ![c] = p]
          BY <2>3 DEF RecvReply, Fails
        <4> QED
          BY <1>0, <1>1, <4>1, <4>2 DEF ClientType
    <2>4. CASE SendClose(c)
      <3>1. inbox[c] \o <<Hs, Clos, id[c]>> \in Seq(Words)
        <4>1. inbox[c] \in Seq(Words) /\ <<Hs, Clos, id[c]>> \in Seq(Words)
          BY <1>0, WordFacts DEF ClientType
        <4> QED
          BY <4>1, ConcatProperties
      <3>2. closes[c] + 1 \in 0 .. MaxCloses
        BY <1>0, <2>4, MaxClosesAssumption DEF SendClose, ClientType
      <3> QED
        BY <1>0, <1>1, <2>4, <3>1, <3>2 DEF SendClose, ClientType
    <2>5. CASE Disconnect(c)
      BY <1>0, <1>1, <2>5 DEF Disconnect, ClientType
    <2> QED
      BY <2>1, <2>2, <2>3, <2>4, <2>5 DEF ClientStep
  <1> QED
    BY <1>0, <1>1, <1>2, <1>3 DEF CtxType, SlotType, WorkerType

LEMMA WorkerTypeStep ==
  ASSUME CtxType, NEW w \in Workers, WorkerStep(w)
  PROVE  CtxType'
  <1>0. ClientType /\ PoolType /\ SlotType /\ WorkerType
    BY DEF CtxType
  <1>w. ScanLimit \in Nat \ {0} /\ created \in Nat
    BY <1>0, WordFacts DEF SlotType
  <1>1. CASE Take(w)
    <2>1. /\ jobs # <<>> /\ jobs' = Tail(jobs) /\ conn' = [conn EXCEPT ![w] = Head(jobs)]
          /\ pc' = [pc EXCEPT ![w] = "peek"]
          /\ UNCHANGED <<client, id, closes, inbox, told, given, server, listening, slots, created, closed,
                         twice, contested, op, i, ctx>>
      BY <1>1 DEF Take, clientVars, toldVars, ctxVars
    <2>2. Head(jobs) \in Clients /\ Tail(jobs) \in Seq(Clients)
      BY <1>0, <2>1, HeadTailProperties DEF PoolType
    <2> QED
      BY <1>0, <2>1, <2>2 DEF CtxType, ClientType, PoolType, SlotType, WorkerType
  <1>2. ASSUME NEW o \in Words, Handle(w, o), UNCHANGED <<conn, ctx>> PROVE WorkerType'
    BY <1>0, <1>2, <1>w DEF Handle, WorkerType
  <1>3. ASSUME Return(w), UNCHANGED <<conn, ctx, op, i>> PROVE WorkerType'
    BY <1>0, <1>3 DEF Return, WorkerType
  <1>4. CASE Peek(w)
    <2>1. UNCHANGED <<client, id, closes, inbox, told, given, server, listening, jobs, slots, created, closed,
                      twice, contested, conn, ctx>>
      BY <1>4 DEF Peek, clientVars, toldVars, poolVars, ctxVars
    <2>2. Received(w, 2) \subseteq Words
      BY <1>0, ReceivedWords
    <2>3. WorkerType'
      BY <1>2, <1>3, <1>4, <2>1, <2>2 DEF Peek
    <2> QED
      BY <1>0, <2>1, <2>3 DEF CtxType, ClientType, PoolType, SlotType
  <1>5. CASE Recv(w)
    <2>1. UNCHANGED <<client, id, closes, told, given, server, listening, jobs, slots, created, closed,
                      twice, contested, conn, ctx>>
      BY <1>5 DEF Recv, clientVars, toldVars, poolVars, ctxVars
    <2>2. Received(w, 2) \subseteq Words /\ Rest(w, 2) \in Seq(Words)
      BY <1>0, ReceivedWords
    <2>3. WorkerType'
      BY <1>2, <1>3, <1>5, <2>1, <2>2 DEF Recv, Return, AfterEof
    <2>4. inbox' \in [Clients -> Seq(Words)]
      BY <1>0, <1>5, <2>2 DEF Recv, ClientType
    <2> QED
      BY <1>0, <2>1, <2>3, <2>4 DEF CtxType, ClientType, PoolType, SlotType
  <1>6. CASE Scan(w)
    <2>1. /\ UNCHANGED <<client, id, closes, inbox, told, given, server, listening, jobs, slots, closed, twice,
                         conn, op>>
          /\ i[w] < ScanLimit
      BY <1>6 DEF Scan, ScanEnd, clientVars, toldVars, poolVars
    <2>2. CASE UNCHANGED <<pc, ctx, created, contested>> /\ i' = [i EXCEPT ![w] = @ + 1]
      <3>1. i[w] + 1 \in 0 .. ScanLimit /\ pc[w] = "handle"
        BY <1>0, <1>6, <1>w, <2>1 DEF WorkerType, Scan
      <3> QED
        BY <1>0, <2>1, <2>2, <3>1 DEF CtxType, ClientType, PoolType, SlotType, WorkerType
    <2>3. CASE /\ created' = created + 1 /\ ctx' = [ctx EXCEPT ![w] = created + 1]
               /\ pc' = [pc EXCEPT ![w] = "send"] /\ UNCHANGED i
               /\ contested' = contested \cup ({i[w]} \cap {i[x] : x \in Pending(w)})
      <3>1. 0 .. created \subseteq 0 .. created' /\ 1 .. created \subseteq 1 .. created'
            /\ created + 1 \in 0 .. created' /\ created' \in Nat
        BY <1>w, <2>3
      <3>2. SlotType'
        <4>1. slots' \in [Slots -> 0 .. created']
          BY <1>0, <2>1, <3>1 DEF SlotType
        <4>2. ctx' \in [Workers -> 0 .. created']
          BY <1>0, <2>3, <3>1 DEF SlotType
        <4>3. contested' \subseteq 0 .. ScanLimit - 1
          <5>1. i[w] \in 0 .. ScanLimit - 1
            BY <1>0, <1>w, <2>1 DEF WorkerType
          <5> QED
            BY <1>0, <2>3, <5>1 DEF SlotType
        <4> QED
          BY <1>0, <2>1, <3>1, <4>1, <4>2, <4>3 DEF SlotType
      <3>3. WorkerType'
        <4>1. \A x \in Workers : ctx'[x] = IF x = w THEN created + 1 ELSE ctx[x]
          BY <1>0, <2>3 DEF SlotType
        <4>2. created + 1 # NoContext
          BY <1>w DEF NoContext
        <4> QED
          BY <1>0, <2>1, <2>3, <4>1, <4>2 DEF WorkerType
      <3> QED
        BY <1>0, <2>1, <3>2, <3>3 DEF CtxType, ClientType, PoolType
    <2> QED
      BY <1>6, <2>2, <2>3 DEF Scan
  <1>7. CASE Refuse(w)
    <2>1. /\ UNCHANGED <<client, id, closes, inbox, told, given, server, listening, jobs, slots, created, closed,
                         twice, contested, conn, op, i, ctx>>
          /\ Return(w)
      BY <1>7 DEF Refuse, clientVars, toldVars, poolVars, ctxVars
    <2> QED
      BY <1>0, <1>3, <2>1 DEF CtxType, ClientType, PoolType, SlotType
  <1>8. CASE Send(w)
    <2>1. /\ UNCHANGED <<client, id, closes, inbox, server, listening, jobs, created, twice, contested,
                         conn, op, i, ctx>>
          /\ pc[w] = "send"
      BY <1>8 DEF Send, clientVars, poolVars
    <2>2. /\ i[w] \in 0 .. ScanLimit - 1 /\ ctx[w] \in 1 .. created /\ conn[w] \in Clients
          /\ i[w] \in Slots
      BY <1>0, <1>w, <2>1, WordFacts DEF WorkerType, SlotType, NoContext
    <2>3. CASE /\ told' = [told EXCEPT ![conn[w]] = Answer(w)]
               /\ given' = [given EXCEPT ![conn[w]] = Append(@, ctx[w])]
               /\ pc' = [pc EXCEPT ![w] = "store"] /\ UNCHANGED <<slots, closed>>
      <3>1. Answer(w) \in Seq(0 .. ScanLimit - 1)
        BY <1>0, <2>2, AppendProperties DEF Answer, ClientType
      <3>2. told' \in [Clients -> Seq(0 .. ScanLimit - 1)]
        BY <1>0, <2>3, <3>1 DEF ClientType
      <3>3. given' \in [Clients -> Seq(Nat \ {NoContext})]
        <4>1. ctx[w] \in Nat \ {NoContext} /\ given[conn[w]] \in Seq(Nat \ {NoContext})
          BY <1>0, <1>w, <2>2 DEF ClientType, NoContext
        <4>2. Append(given[conn[w]], ctx[w]) \in Seq(Nat \ {NoContext})
          BY <4>1, AppendProperties
        <4> QED
          BY <1>0, <2>3, <4>2 DEF ClientType
      <3> QED
        BY <1>0, <2>1, <2>3, <3>2, <3>3 DEF CtxType, ClientType, PoolType, SlotType, WorkerType
    <2>4. CASE /\ closed' = closed \cup {ctx[w]} /\ slots' = [slots EXCEPT ![i[w]] = NoContext]
               /\ Return(w) /\ UNCHANGED <<told, given>>
      <3>1. slots' \in [Slots -> 0 .. created]
        <4>1. NoContext \in 0 .. created
          BY <1>w DEF NoContext
        <4> QED
          BY <1>0, <2>4, <4>1 DEF SlotType
      <3>2. WorkerType'
        BY <1>3, <2>1, <2>4
      <3> QED
        BY <1>0, <2>1, <2>2, <2>4, <3>1, <3>2 DEF CtxType, ClientType, PoolType, SlotType
    <2> QED
      BY <1>8, <2>3, <2>4 DEF Send, toldVars
  <1>9. CASE Store(w)
    <2>1. /\ UNCHANGED <<client, id, closes, inbox, told, given, server, listening, jobs, created, closed,
                         twice, contested, conn, op, i, ctx>>
          /\ pc' = [pc EXCEPT ![w] = "recv"] /\ slots' = [slots EXCEPT ![i[w]] = ctx[w]]
      BY <1>9 DEF Store, Stored, clientVars, toldVars, poolVars
    <2>2. slots' \in [Slots -> 0 .. created]
      BY <1>0, <2>1 DEF SlotType
    <2> QED
      BY <1>0, <2>1, <2>2 DEF CtxType, ClientType, PoolType, SlotType, WorkerType
  <1>10. CASE CloseContext(w)
    <2>1. UNCHANGED <<client, id, closes, told, given, server, listening, jobs, slots, created, contested,
                      conn, op, i, ctx>>
      BY <1>10 DEF CloseContext, clientVars, toldVars, poolVars
    <2>2. Rest(w, 3) \in Seq(Words)
      BY <1>0, ReceivedWords
    <2>3. inbox' \in [Clients -> Seq(Words)]
      BY <1>0, <1>10, <2>2 DEF CloseContext, ClientType
    <2>4. \A s : InUse(s) => slots[s] \in 1 .. created
      BY <1>0, <1>w DEF InUse, SlotType, NoContext
    <2>5. closed' \subseteq 1 .. created /\ twice' \subseteq closed'
      BY <1>0, <1>10, <2>4 DEF CloseContext, SlotType
    <2>6. pc' = [pc EXCEPT ![w] = "recv"] \/ pc' = [pc EXCEPT ![w] = "idle"]
      BY <1>10 DEF CloseContext, Return
    <2>7. WorkerType'
      BY <1>0, <2>1, <2>6 DEF WorkerType
    <2> QED
      BY <1>0, <2>1, <2>3, <2>5, <2>7 DEF CtxType, ClientType, PoolType, SlotType
  <1> QED
    BY <1>1, <1>4, <1>5, <1>6, <1>7, <1>8, <1>9, <1>10 DEF WorkerStep

LEMMA CtxTypeStep == CtxType /\ [Next]_vars => CtxType'
  <1> SUFFICES ASSUME CtxType, [Next]_vars PROVE CtxType'
    OBVIOUS
  <1>0. ClientType /\ PoolType /\ SlotType /\ WorkerType
    BY DEF CtxType
  <1>1. ASSUME AcceptOne, server' \in {"up", "stopping"},
               UNCHANGED <<clientVars, inbox, toldVars, ctxVars, workerVars>>
        PROVE  CtxType'
    <2>1. /\ listening # <<>> /\ listening' = Tail(listening)
          /\ jobs' = Append(jobs, Head(listening))
          /\ UNCHANGED <<client, id, closes, inbox, told, given, slots, created, closed, twice,
                         contested, pc, conn, op, i, ctx>>
      BY <1>1 DEF AcceptOne, clientVars, toldVars, ctxVars, workerVars
    <2>2. Head(listening) \in Clients /\ Tail(listening) \in Seq(Clients)
      BY <1>0, <2>1, HeadTailProperties DEF PoolType
    <2>3. PoolType'
      BY <1>0, <1>1, <2>1, <2>2, AppendProperties DEF PoolType
    <2> QED
      BY <1>0, <2>1, <2>3 DEF CtxType, ClientType, SlotType, WorkerType
  <1>2. CASE Exit
    <2>1. ClientType'
      BY <1>0, <1>2 DEF Exit, ClientType, clientVars, Empty
    <2>2. PoolType'
      BY <1>2 DEF Exit, PoolType
    <2>3. SlotType'
      BY <1>2 DEF Exit, SlotType, NoContext, NoSlots, NoWork
    <2>4. (CHOOSE c \in Clients : TRUE) \in Clients
      BY ClientsAssumption
    <2>5. WorkerType'
      BY <1>2, <2>4, WordFacts DEF Exit, WorkerType, NoWork
    <2> QED
      BY <2>1, <2>2, <2>3, <2>5 DEF CtxType
  <1>3. CASE UNCHANGED vars
    BY <1>0, <1>3 DEF vars, clientVars, toldVars, poolVars, ctxVars, workerVars, CtxType, ClientType,
                PoolType, SlotType, WorkerType
  <1>4. CASE Accept \/ Sigint \/ ServerReturns
    BY <1>1, <1>2, <1>4 DEF Accept, Sigint, ServerReturns
  <1> QED
    BY <1>3, <1>4, ClientTypeStep, WorkerTypeStep DEF Next

(***************************************************************************)
(* Every answer is a slot the loop looks at, every word on a socket is one *)
(* that was sent, and only contexts that were made are closed, for any     *)
(* number of clients, workers and slots.                                   *)
(***************************************************************************)
THEOREM CtxTypeCorrect == Spec => []TypeOK
  BY CtxTypeInit, CtxTypeStep, CtxTypeParts, PTL DEF Spec
-----------------------------------------------------------------------------
LEMMA PlacesInit == Init => OnePlace /\ NewIsNowhere /\ NotYetTold
  BY DEF Init, OnePlace, NewIsNowhere, NotYetTold, Untold, Active, Empty, NoWork

LEMMA PlacesStep ==
  ASSUME CtxType, OnePlace, NewIsNowhere, NotYetTold, [Next]_vars
  PROVE  OnePlace' /\ NewIsNowhere' /\ NotYetTold'
  <1>0. ClientType /\ PoolType /\ WorkerType
    BY DEF CtxType
  <1>l. Len(listening) \in Nat /\ Len(jobs) \in Nat
    BY <1>0, LenProperties DEF PoolType
  <1>m. /\ \A m \in 1 .. Len(listening) : listening[m] \in Clients
        /\ \A n \in 1 .. Len(jobs) : jobs[n] \in Clients
    BY <1>0, ElementOfSeq DEF PoolType
  <1>1. ASSUME NEW c \in Clients, Connect(c) PROVE OnePlace' /\ NewIsNowhere' /\ NotYetTold'
    <2>1. /\ client[c] = "new" /\ client' = [client EXCEPT ![c] = "connected"]
          /\ listening' = Append(listening, c)
          /\ UNCHANGED <<jobs, told, given, pc, conn>>
      BY <1>1 DEF Connect, toldVars, workerVars
    <2>2. /\ Len(listening') = Len(listening) + 1
          /\ listening'[Len(listening) + 1] = c
          /\ \A m \in 1 .. Len(listening) : listening'[m] = listening[m]
      BY <1>0, <2>1, AppendProperties DEF PoolType
    <2>3. \A m \in 1 .. Len(listening') :
             (m \in 1 .. Len(listening) /\ listening'[m] = listening[m])
             \/ (m = Len(listening) + 1 /\ listening'[m] = c)
      BY <1>l, <2>2
    <2>4. /\ \A m \in 1 .. Len(listening) : listening[m] # c
          /\ \A n \in 1 .. Len(jobs) : jobs[n] # c
          /\ \A w \in Workers : Active(w) => conn[w] # c
      BY <2>1 DEF NewIsNowhere
    <2>5. \A w \in Workers : Active(w)' <=> Active(w)
      BY <2>1 DEF Active
    <2>6. OnePlace'
      <3>1. \A m, n \in 1 .. Len(listening') : listening'[m] = listening'[n] => m = n
        BY <2>3, <2>4 DEF OnePlace
      <3>2. \A m \in 1 .. Len(listening'), n \in 1 .. Len(jobs) : listening'[m] # jobs[n]
        BY <2>3, <2>4 DEF OnePlace
      <3>3. \A w \in Workers : Active(w) =>
               \A m \in 1 .. Len(listening') : listening'[m] # conn[w]
        BY <2>3, <2>4 DEF OnePlace
      <3> QED
        BY <2>1, <2>5, <3>1, <3>2, <3>3 DEF OnePlace
    <2>7. NewIsNowhere'
      <3>1. \A d \in Clients : client'[d] = "new" => d # c /\ client[d] = "new"
        BY <1>0, <2>1 DEF ClientType
      <3> QED
        BY <2>1, <2>3, <2>5, <3>1 DEF NewIsNowhere
    <2>8. NotYetTold'
      <3>1. \A d \in Clients : client'[d] = "new" => client[d] = "new"
        BY <1>0, <2>1 DEF ClientType
      <3>2. Untold(c)
        BY <2>1 DEF NotYetTold
      <3> QED
        BY <2>1, <2>3, <3>1, <3>2 DEF NotYetTold, Untold
    <2> QED
      BY <2>6, <2>7, <2>8
  <1>2. ASSUME AcceptOne, UNCHANGED <<clientVars, toldVars, workerVars>>
        PROVE  OnePlace' /\ NewIsNowhere' /\ NotYetTold'
    <2>1. /\ listening # <<>> /\ listening' = Tail(listening)
          /\ jobs' = Append(jobs, Head(listening))
          /\ UNCHANGED <<client, told, given, pc, conn>>
      BY <1>2 DEF AcceptOne, clientVars, toldVars, workerVars
    <2>2. /\ Len(listening) > 0 /\ Head(listening) = listening[1]
          /\ Len(listening') = Len(listening) - 1
          /\ \A m \in 1 .. Len(listening') : listening'[m] = listening[m + 1]
      BY <1>0, <2>1, HeadTailProperties DEF PoolType
    <2>3. /\ Len(jobs') = Len(jobs) + 1
          /\ jobs'[Len(jobs) + 1] = listening[1]
          /\ \A n \in 1 .. Len(jobs) : jobs'[n] = jobs[n]
      <3>1. Head(listening) \in Clients
        BY <1>l, <1>m, <2>2
      <3> QED
        BY <1>0, <2>1, <2>2, <3>1, AppendProperties DEF PoolType
    <2>4. 1 \in 1 .. Len(listening)
      BY <1>l, <2>2
    <2>5. \A m \in 1 .. Len(listening') :
             m + 1 \in 1 .. Len(listening) /\ m + 1 # 1 /\ listening'[m] = listening[m + 1]
      BY <1>l, <2>2
    <2>6. \A n \in 1 .. Len(jobs') :
             (n \in 1 .. Len(jobs) /\ jobs'[n] = jobs[n])
             \/ (n = Len(jobs) + 1 /\ jobs'[n] = listening[1])
      BY <1>l, <2>3
    <2>7. \A w \in Workers : Active(w)' <=> Active(w)
      BY <2>1 DEF Active
    <2>8. OnePlace'
      <3>1. \A m, n \in 1 .. Len(listening') : listening'[m] = listening'[n] => m = n
        <4> SUFFICES ASSUME NEW m \in 1 .. Len(listening'), NEW n \in 1 .. Len(listening'),
                            listening'[m] = listening'[n]
                     PROVE  m = n
          OBVIOUS
        <4>1. m + 1 = n + 1
          BY <2>5 DEF OnePlace
        <4> QED
          BY <4>1
      <3>2. \A m, n \in 1 .. Len(jobs') : jobs'[m] = jobs'[n] => m = n
        BY <2>4, <2>6 DEF OnePlace
      <3>3. \A m \in 1 .. Len(listening'), n \in 1 .. Len(jobs') : listening'[m] # jobs'[n]
        <4> SUFFICES ASSUME NEW m \in 1 .. Len(listening'), NEW n \in 1 .. Len(jobs')
                     PROVE  listening'[m] # jobs'[n]
          OBVIOUS
        <4>1. listening[m + 1] # listening[1]
          BY <2>4, <2>5 DEF OnePlace
        <4>2. n \in 1 .. Len(jobs) => listening[m + 1] # jobs[n]
          BY <2>5 DEF OnePlace
        <4> QED
          BY <2>5, <2>6, <4>1, <4>2
      <3>4. ASSUME NEW w \in Workers, Active(w)
            PROVE  /\ \A m \in 1 .. Len(listening') : listening'[m] # conn[w]
                   /\ \A n \in 1 .. Len(jobs') : jobs'[n] # conn[w]
        <4>1. /\ \A m \in 1 .. Len(listening) : listening[m] # conn[w]
              /\ \A n \in 1 .. Len(jobs) : jobs[n] # conn[w]
          BY <3>4 DEF OnePlace
        <4> QED
          BY <2>4, <2>5, <2>6, <4>1
      <3> QED
        BY <2>1, <2>7, <3>1, <3>2, <3>3, <3>4 DEF OnePlace
    <2>9. NewIsNowhere'
      <3> SUFFICES ASSUME NEW c \in Clients, client[c] = "new"
                   PROVE  /\ \A m \in 1 .. Len(listening') : listening'[m] # c
                          /\ \A n \in 1 .. Len(jobs') : jobs'[n] # c
                          /\ \A w \in Workers : Active(w) => conn[w] # c
        BY <2>1, <2>7 DEF NewIsNowhere
      <3>1. /\ \A m \in 1 .. Len(listening) : listening[m] # c
            /\ \A n \in 1 .. Len(jobs) : jobs[n] # c
            /\ \A w \in Workers : Active(w) => conn[w] # c
        BY DEF NewIsNowhere
      <3> QED
        BY <2>4, <2>5, <2>6, <3>1
    <2>10. NotYetTold'
      <3>1. \A m \in 1 .. Len(listening') : Untold(listening'[m])
        BY <2>5 DEF NotYetTold
      <3>2. \A n \in 1 .. Len(jobs') : Untold(jobs'[n])
        BY <2>4, <2>6 DEF NotYetTold
      <3> QED
        BY <2>1, <3>1, <3>2 DEF NotYetTold, Untold
    <2> QED
      BY <2>8, <2>9, <2>10
  <1>3. ASSUME NEW w \in Workers, Take(w) PROVE OnePlace' /\ NewIsNowhere' /\ NotYetTold'
    <2>1. /\ pc[w] = "idle" /\ jobs # <<>> /\ jobs' = Tail(jobs)
          /\ conn' = [conn EXCEPT ![w] = Head(jobs)] /\ pc' = [pc EXCEPT ![w] = "peek"]
          /\ UNCHANGED <<client, told, given, listening>>
      BY <1>3 DEF Take, clientVars, toldVars
    <2>2. /\ Len(jobs) > 0 /\ Head(jobs) = jobs[1]
          /\ Len(jobs') = Len(jobs) - 1
          /\ \A n \in 1 .. Len(jobs') : jobs'[n] = jobs[n + 1]
      BY <1>0, <2>1, HeadTailProperties DEF PoolType
    <2>3. 1 \in 1 .. Len(jobs)
          /\ \A n \in 1 .. Len(jobs') :
                n + 1 \in 1 .. Len(jobs) /\ n + 1 # 1 /\ jobs'[n] = jobs[n + 1]
      BY <1>l, <2>2
    <2>4. /\ \A x \in Workers \ {w} : (Active(x)' <=> Active(x)) /\ conn'[x] = conn[x]
          /\ Active(w)' /\ ~Active(w) /\ conn'[w] = jobs[1]
      BY <1>0, <2>1, <2>2 DEF Active, WorkerType
    <2>5. \A m, n \in 1 .. Len(jobs') : jobs'[m] = jobs'[n] => m = n
      <3> SUFFICES ASSUME NEW m \in 1 .. Len(jobs'), NEW n \in 1 .. Len(jobs'), jobs'[m] = jobs'[n]
                   PROVE  m = n
        OBVIOUS
      <3>1. m + 1 = n + 1
        BY <2>3 DEF OnePlace
      <3> QED
        BY <3>1
    <2>6. \A m \in 1 .. Len(listening), n \in 1 .. Len(jobs') : listening[m] # jobs'[n]
      BY <2>3 DEF OnePlace
    <2>7. ASSUME NEW x \in Workers, Active(x)'
          PROVE  /\ \A m \in 1 .. Len(listening) : listening[m] # conn'[x]
                 /\ \A n \in 1 .. Len(jobs') : jobs'[n] # conn'[x]
                 /\ \A y \in Workers : Active(y)' /\ conn'[y] = conn'[x] => y = x
      <3>1. CASE x = w
        <4>1. \A y \in Workers : Active(y) => conn[y] # jobs[1]
          BY <2>3 DEF OnePlace
        <4>2. \A n \in 1 .. Len(jobs') : jobs'[n] # jobs[1]
          <5> SUFFICES ASSUME NEW n \in 1 .. Len(jobs') PROVE jobs[n + 1] # jobs[1]
            BY <2>3
          <5> QED
            BY <2>3 DEF OnePlace
        <4>3. \A m \in 1 .. Len(listening) : listening[m] # jobs[1]
          BY <2>3 DEF OnePlace
        <4> QED
          BY <2>4, <3>1, <4>1, <4>2, <4>3
      <3>2. CASE x # w
        <4>1. Active(x) /\ conn'[x] = conn[x]
          BY <2>4, <2>7, <3>2
        <4>2. /\ \A m \in 1 .. Len(listening) : listening[m] # conn[x]
              /\ \A n \in 1 .. Len(jobs) : jobs[n] # conn[x]
              /\ \A y \in Workers : Active(y) /\ conn[y] = conn[x] => y = x
          BY <4>1 DEF OnePlace
        <4> QED
          BY <2>3, <2>4, <3>2, <4>1, <4>2
      <3> QED
        BY <3>1, <3>2
    <2>8. OnePlace'
      BY <2>1, <2>5, <2>6, <2>7 DEF OnePlace
    <2>9. NewIsNowhere'
      <3> SUFFICES ASSUME NEW c \in Clients, client[c] = "new"
                   PROVE  /\ \A m \in 1 .. Len(listening) : listening[m] # c
                          /\ \A n \in 1 .. Len(jobs') : jobs'[n] # c
                          /\ \A x \in Workers : Active(x)' => conn'[x] # c
        BY <2>1 DEF NewIsNowhere
      <3>1. /\ \A m \in 1 .. Len(listening) : listening[m] # c
            /\ \A n \in 1 .. Len(jobs) : jobs[n] # c
            /\ \A x \in Workers : Active(x) => conn[x] # c
        BY DEF NewIsNowhere
      <3> QED
        BY <2>3, <2>4, <3>1
    <2>10. NotYetTold'
      <3>1. \A n \in 1 .. Len(jobs') : Untold(jobs'[n])
        BY <2>3 DEF NotYetTold
      <3> QED
        BY <2>1, <3>1 DEF NotYetTold, Untold
    <2> QED
      BY <2>8, <2>9, <2>10
  <1>4. ASSUME NEW w \in Workers, Active(w), UNCHANGED <<client, listening, jobs, conn>>,
               \A x \in Workers \ {w} : pc'[x] = pc[x],
               \A c \in Clients \ {conn[w]} : told'[c] = told[c] /\ given'[c] = given[c]
        PROVE  OnePlace' /\ NewIsNowhere' /\ NotYetTold'
    <2>1. \A x \in Workers : Active(x)' => Active(x)
      BY <1>4 DEF Active
    <2>2. OnePlace'
      <3>1. \A x \in Workers : Active(x)' =>
               /\ \A m \in 1 .. Len(listening) : listening[m] # conn[x]
               /\ \A n \in 1 .. Len(jobs) : jobs[n] # conn[x]
               /\ \A y \in Workers : Active(y)' /\ conn[y] = conn[x] => y = x
        BY <2>1 DEF OnePlace
      <3> QED
        BY <1>4, <3>1 DEF OnePlace
    <2>3. NewIsNowhere'
      BY <1>4, <2>1 DEF NewIsNowhere
    <2>4. NotYetTold'
      <3>1. \A c \in Clients : client[c] = "new" => c # conn[w]
        BY <1>4 DEF NewIsNowhere
      <3>2. /\ \A m \in 1 .. Len(listening) : listening[m] # conn[w]
            /\ \A n \in 1 .. Len(jobs) : jobs[n] # conn[w]
        BY <1>4 DEF OnePlace
      <3> QED
        BY <1>4, <1>m, <3>1, <3>2 DEF NotYetTold, Untold
    <2> QED
      BY <2>2, <2>3, <2>4
  <1>5. ASSUME NEW w \in Workers,
               Peek(w) \/ Recv(w) \/ Scan(w) \/ Refuse(w) \/ Send(w) \/ Store(w) \/ CloseContext(w)
        PROVE  OnePlace' /\ NewIsNowhere' /\ NotYetTold'
    <2>1. Active(w) /\ UNCHANGED <<client, listening, jobs, conn>>
      BY <1>5 DEF Active, Peek, Recv, Scan, Refuse, Send, Store, CloseContext, clientVars, poolVars
    <2>2. pc' = pc \/ \E p \in {"idle", "handle", "send", "store", "recv"} : pc' = [pc EXCEPT ![w] = p]
      BY <1>5 DEF Peek, Recv, Scan, Refuse, Send, Store, CloseContext, Handle, Return, AfterEof
    <2>3. \A x \in Workers \ {w} : pc'[x] = pc[x]
      BY <1>0, <2>2 DEF WorkerType
    <2>4. /\ told' = told \/ told' = [told EXCEPT ![conn[w]] = Answer(w)]
          /\ given' = given \/ given' = [given EXCEPT ![conn[w]] = Append(@, ctx[w])]
      BY <1>5 DEF Peek, Recv, Scan, Refuse, Send, Store, CloseContext, toldVars
    <2>5. \A c \in Clients \ {conn[w]} : told'[c] = told[c] /\ given'[c] = given[c]
      BY <1>0, <2>4 DEF ClientType
    <2> QED
      BY <1>4, <2>1, <2>3, <2>5
  <1>6. ASSUME UNCHANGED <<listening, jobs, told, given, pc, conn>>,
               \A c \in Clients : client'[c] = "new" => client[c] = "new"
        PROVE  OnePlace' /\ NewIsNowhere' /\ NotYetTold'
    BY <1>6 DEF OnePlace, NewIsNowhere, NotYetTold, Untold, Active
  <1>7. ASSUME NEW c \in Clients, ClientStep(c) \/ SendClose(c) \/ Disconnect(c)
        PROVE  OnePlace' /\ NewIsNowhere' /\ NotYetTold'
    <2>1. /\ UNCHANGED <<listening, jobs, told, given, pc, conn>>
          /\ \/ client' = client
             \/ \E p \in {"waiting", "open", "failed", "gone"} : client' = [client EXCEPT ![c] = p]
      BY <1>7 DEF ClientStep, SendOpen, RecvReply, Fails, SendClose, Disconnect, toldVars, poolVars,
                  workerVars
    <2>2. \A d \in Clients : client'[d] = "new" => client[d] = "new"
      BY <1>0, <2>1 DEF ClientType
    <2> QED
      BY <1>6, <2>1, <2>2
  <1>8. CASE UNCHANGED vars
    <2>1. UNCHANGED <<listening, jobs, told, given, pc, conn, client>>
      BY <1>8 DEF vars, clientVars, toldVars, poolVars, workerVars
    <2> QED
      BY <1>6, <2>1
  <1>9. CASE Exit
    <2>1. /\ listening' = <<>> /\ jobs' = <<>> /\ UNCHANGED <<client, told>>
          /\ \A c \in Clients : given'[c] = <<>>
          /\ \A w \in Workers : ~Active(w)'
      BY <1>9 DEF Exit, clientVars, Empty, NoWork, Active
    <2>2. OnePlace' /\ NewIsNowhere'
      BY <2>1 DEF OnePlace, NewIsNowhere
    <2>3. NotYetTold'
      BY <2>1 DEF NotYetTold, Untold
    <2> QED
      BY <2>2, <2>3
  <1>10. CASE Accept \/ Sigint \/ ServerReturns
    BY <1>2, <1>9, <1>10 DEF Accept, Sigint, ServerReturns
  <1> QED
    BY <1>1, <1>3, <1>5, <1>7, <1>8, <1>10 DEF Next, WorkerStep
-----------------------------------------------------------------------------
LEMMA OwnInit == Init => StoringAlone /\ StoringToEmpty /\ AllOwn
  BY DEF Init, StoringAlone, StoringToEmpty, AllOwn, Owns, Storing, Active, NoWork

\* What the workers in start_task change: their own pc and i, and the slot they are at.
LEMMA StoringStep ==
  ASSUME CtxType, StoringAlone, StoringToEmpty, [Next]_vars
  PROVE  StoringAlone' /\ StoringToEmpty'
  <1>0. SlotType /\ WorkerType /\ ScanLimit \in Nat
    BY WordFacts DEF CtxType
  <1>s. \A w \in Workers : Storing(w) => i[w] \in Slots
    BY <1>0, WordFacts DEF Storing, WorkerType, Slots
  <1>1. ASSUME \A w \in Workers : Storing(w)' => Storing(w) /\ i'[w] = i[w],
               UNCHANGED <<slots, contested>>
        PROVE  StoringAlone' /\ StoringToEmpty'
    BY <1>1 DEF StoringAlone, StoringToEmpty
  <1>2. ASSUME NEW w \in Workers, Take(w) \/ Peek(w) \/ Recv(w) \/ Refuse(w) \/ CloseContext(w)
        PROVE  StoringAlone' /\ StoringToEmpty'
    <2>1. /\ UNCHANGED <<slots, contested>>
          /\ \E p \in {"idle", "peek", "handle", "recv"} : pc' = [pc EXCEPT ![w] = p]
          /\ i' = i \/ i' = [i EXCEPT ![w] = 0]
      BY <1>2 DEF Take, Peek, Recv, Refuse, CloseContext, Handle, Return, AfterEof, ctxVars
    <2>2. \A x \in Workers : Storing(x)' => Storing(x) /\ i'[x] = i[x]
      BY <1>0, <2>1 DEF Storing, WorkerType
    <2> QED
      BY <1>1, <2>1, <2>2
  <1>3. ASSUME NEW w \in Workers, Scan(w) PROVE StoringAlone' /\ StoringToEmpty'
    <2>1. pc[w] = "handle" /\ UNCHANGED slots
      BY <1>3 DEF Scan
    <2>2. CASE UNCHANGED <<pc, contested>> /\ i' = [i EXCEPT ![w] = @ + 1]
      <3>1. \A x \in Workers : Storing(x)' => Storing(x) /\ i'[x] = i[x]
        BY <1>0, <2>1, <2>2 DEF Storing, WorkerType
      <3> QED
        BY <1>1, <2>1, <2>2, <3>1
    <2>3. CASE /\ slots[i[w]] = NoContext /\ UNCHANGED i
               /\ pc' = [pc EXCEPT ![w] = "send"]
               /\ contested' = contested \cup ({i[w]} \cap {i[x] : x \in Pending(w)})
      <3>1. \A x \in Workers : x # w => (Storing(x)' <=> Storing(x))
        BY <1>0, <2>3 DEF Storing, WorkerType
      <3>2. \A x \in Workers : x # w /\ Storing(x) => x \in Pending(w)
        BY DEF Storing, Pending
      <3>3. \A x \in Workers : x # w /\ Storing(x) /\ i[x] = i[w] => i[w] \in contested'
        BY <2>3, <3>2
      <3>4. StoringAlone'
        <4> SUFFICES ASSUME NEW x \in Workers, NEW y \in Workers, x # y, Storing(x)', Storing(y)',
                            i[x] = i[y]
                     PROVE  i[x] \in contested'
          BY <2>3 DEF StoringAlone
        <4>1. CASE x = w \/ y = w
          BY <3>1, <3>3, <4>1
        <4>2. CASE x # w /\ y # w
          BY <2>3, <3>1, <4>2 DEF StoringAlone
        <4> QED
          BY <4>1, <4>2
      <3>5. StoringToEmpty'
        BY <2>1, <2>3, <3>1 DEF StoringToEmpty
      <3> QED
        BY <3>4, <3>5
    <2> QED
      BY <1>3, <2>2, <2>3 DEF Scan
  <1>4. ASSUME NEW w \in Workers, Send(w) \/ Store(w) PROVE StoringAlone' /\ StoringToEmpty'
    <2>1. /\ UNCHANGED <<i, contested>> /\ Storing(w)
          /\ \E p \in {"idle", "store", "recv"} : pc' = [pc EXCEPT ![w] = p]
      BY <1>4 DEF Send, Store, Storing, Return
    <2>2. \A x \in Workers : Storing(x)' => Storing(x)
      BY <1>0, <2>1 DEF Storing, WorkerType
    <2>3. StoringAlone'
      BY <2>1, <2>2 DEF StoringAlone
    <2>4. \/ UNCHANGED slots
          \/ slots' = [slots EXCEPT ![i[w]] = NoContext]
          \/ slots' = [slots EXCEPT ![i[w]] = ctx[w]] /\ ~Storing(w)'
      BY <1>0, <1>4 DEF Send, Store, Stored, Storing, WorkerType
    <2>5. StoringToEmpty'
      <3> SUFFICES ASSUME NEW x \in Workers, Storing(x)', i[x] \notin contested
                   PROVE  slots'[i[x]] = NoContext
        BY <2>1 DEF StoringToEmpty
      <3>1. Storing(x) /\ i[x] \in Slots /\ slots[i[x]] = NoContext
        BY <1>s, <2>2 DEF StoringToEmpty
      <3>2. x = w \/ i[x] # i[w]
        BY <2>1, <3>1 DEF StoringAlone
      <3> QED
        BY <1>0, <2>4, <3>1, <3>2 DEF SlotType
    <2> QED
      BY <2>3, <2>5
  <1>5. CASE Accept \/ (Sigint /\ ~Exit) \/ UNCHANGED vars
             \/ \E c \in Clients : Connect(c) \/ ClientStep(c) \/ SendClose(c) \/ Disconnect(c)
    <2>1. UNCHANGED <<slots, contested, pc, i>>
      BY <1>5 DEF Accept, Sigint, vars, Connect, ClientStep, SendOpen, RecvReply, SendClose, Disconnect,
                  ctxVars, workerVars
    <2> QED
      BY <1>1, <2>1 DEF Storing
  <1>6. CASE Exit
    <2>1. \A w \in Workers : ~Storing(w)'
      BY <1>6 DEF Exit, NoWork, Storing
    <2> QED
      BY <2>1 DEF StoringAlone, StoringToEmpty
  <1> QED
    BY <1>2, <1>3, <1>4, <1>5, <1>6 DEF Next, WorkerStep, ServerReturns

LEMMA OwnStep ==
  ASSUME CtxInv, [Next]_vars, NEW x \in Workers
  PROVE  Owns(x)'
  <1>0. ClientType /\ PoolType /\ SlotType /\ WorkerType /\ Owns(x)
    BY DEF CtxInv, CtxType, AllOwn
  <1>n. \A w \in Workers : Storing(w) => i[w] \in Slots
    BY <1>0, WordFacts DEF Storing, WorkerType, Slots
  <1>c. /\ conn[x] \in Clients
        /\ told[conn[x]] \in Seq(0 .. ScanLimit - 1)
        /\ given[conn[x]] \in Seq(Nat \ {NoContext})
    BY <1>0 DEF ClientType, WorkerType
  <1>k. Active(x) => \A k \in 1 .. Len(told[conn[x]]) :
            told[conn[x]][k] \in Slots /\ given[conn[x]][k] # NoContext
    <2> SUFFICES ASSUME Active(x), NEW k \in 1 .. Len(told[conn[x]])
                 PROVE  told[conn[x]][k] \in Slots /\ given[conn[x]][k] # NoContext
      OBVIOUS
    <2>1. k \in 1 .. Len(given[conn[x]])
      BY <1>0 DEF Owns
    <2>2. told[conn[x]][k] \in 0 .. ScanLimit - 1
      BY <1>c, ElementOfSeq
    <2>3. given[conn[x]][k] \in Nat \ {NoContext}
      BY <1>c, <2>1, ElementOfSeq
    <2> QED
      BY <2>2, <2>3, WordFacts
  \* A step that leaves the worker's answers alone and loses no context.
  <1>1. ASSUME Active(x)' => Active(x),
               conn'[x] = conn[x], i'[x] = i[x], ctx'[x] = ctx[x],
               pc[x] = "store" => pc'[x] = "store",
               Active(x) => told'[conn[x]] = told[conn[x]] /\ given'[conn[x]] = given[conn[x]],
               closed \subseteq closed', contested \subseteq contested',
               \A s \in Slots : slots[s] # NoContext => slots'[s] = slots[s] \/ s \in contested
        PROVE  Owns(x)'
    <2> SUFFICES ASSUME Active(x) PROVE Owns(x)'
      BY <1>1 DEF Owns
    <2>1. ASSUME NEW k \in 1 .. Len(told[conn[x]]), Kept(conn[x], k)
          PROVE  Kept(conn[x], k)'
      BY <1>1, <1>k, <2>1 DEF Kept
    <2> QED
      BY <1>0, <1>1, <2>1 DEF Owns
  <1>2. ASSUME NEW w \in Workers, Take(w) PROVE Owns(x)'
    <2>1. /\ jobs # <<>> /\ conn' = [conn EXCEPT ![w] = Head(jobs)] /\ pc' = [pc EXCEPT ![w] = "peek"]
          /\ pc[w] = "idle"
          /\ UNCHANGED <<told, given, slots, closed, contested, i, ctx>>
      BY <1>2 DEF Take, toldVars, ctxVars
    <2>2. CASE x = w
      <3>1. Head(jobs) = jobs[1] /\ 1 \in 1 .. Len(jobs)
        BY <1>0, <2>1, LenProperties, EmptySeq DEF PoolType
      <3>2. conn'[x] = jobs[1] /\ told[jobs[1]] = <<>> /\ given[jobs[1]] = <<>>
        BY <1>0, <2>1, <2>2, <3>1 DEF CtxInv, NotYetTold, Untold, WorkerType
      <3> QED
        BY <2>1, <3>2 DEF Owns
    <2>3. CASE x # w
      <3>1. pc'[x] = pc[x] /\ conn'[x] = conn[x]
        BY <1>0, <2>1, <2>3 DEF WorkerType
      <3> QED
        BY <1>1, <2>1, <3>1 DEF Active
    <2> QED
      BY <2>2, <2>3
  <1>3. ASSUME NEW w \in Workers,
               Peek(w) \/ Recv(w) \/ Scan(w) \/ Refuse(w) \/ CloseContext(w)
        PROVE  Owns(x)'
    <2>1. /\ UNCHANGED <<told, given, slots, conn>> /\ pc[w] \notin {"idle", "store"}
          /\ closed \subseteq closed' /\ contested \subseteq contested'
      BY <1>3 DEF Peek, Recv, Scan, Refuse, CloseContext, toldVars, ctxVars
    <2>2. CASE x = w
      <3>1. Active(x) /\ pc[x] # "store"
        BY <2>1, <2>2 DEF Active
      <3>2. \A k \in 1 .. Len(told[conn[x]]) : Kept(conn[x], k)
        BY <1>0, <3>1 DEF Owns
      <3>3. \A k \in 1 .. Len(told[conn[x]]) : Kept(conn[x], k)'
        BY <2>1, <3>2 DEF Kept
      <3> QED
        BY <1>0, <2>1, <3>1, <3>3 DEF Owns
    <2>3. CASE x # w
      <3>1. pc'[x] = pc[x] /\ i'[x] = i[x] /\ ctx'[x] = ctx[x]
        BY <1>0, <1>3, <2>3
           DEF Peek, Recv, Scan, Refuse, CloseContext, Handle, Return, AfterEof, WorkerType, SlotType
      <3> QED
        BY <1>1, <2>1, <3>1 DEF Active
    <2> QED
      BY <2>2, <2>3
  \* The slot a worker is at is empty or contested: writing it loses no other context.
  <1>e. ASSUME NEW w \in Workers, Storing(w), NEW v, slots' = [slots EXCEPT ![i[w]] = v]
        PROVE  \A s \in Slots : slots[s] # NoContext => slots'[s] = slots[s] \/ s \in contested
    BY <1>0, <1>e, <1>n DEF CtxInv, StoringToEmpty, SlotType
  <1>4. ASSUME NEW w \in Workers, Send(w) PROVE Owns(x)'
    <2>1. UNCHANGED <<conn, i, ctx, contested>> /\ pc[w] = "send" /\ Storing(w) /\ Active(w)
      BY <1>4 DEF Send, Storing, Active
    <2>a. x # w /\ Active(x) => conn[x] # conn[w]
      BY <2>1 DEF CtxInv, OnePlace
    <2>2. CASE /\ told' = [told EXCEPT ![conn[w]] = Answer(w)]
               /\ given' = [given EXCEPT ![conn[w]] = Append(@, ctx[w])]
               /\ pc' = [pc EXCEPT ![w] = "store"] /\ UNCHANGED <<slots, closed>>
      <3>1. CASE x = w
        <4> DEFINE t == told[conn[x]]
                   g == given[conn[x]]
        <4>1. t \in Seq(0 .. ScanLimit - 1) /\ g \in Seq(Nat \ {NoContext}) /\ Len(g) = Len(t)
              /\ i[x] \in 0 .. ScanLimit - 1 /\ ctx[x] \in Nat \ {NoContext} /\ Len(t) \in Nat
          BY <1>0, <1>c, <2>1, <3>1, LenProperties, WordFacts DEF Owns, WorkerType, SlotType
        <4>2. told'[conn[x]] = Append(t, i[x]) /\ given'[conn[x]] = Append(g, ctx[x]) /\ pc'[x] = "store"
          BY <1>0, <1>c, <2>2, <3>1 DEF Answer, ClientType, WorkerType
        <4>3. Len(told'[conn[x]]) = Len(t) + 1 /\ Len(given'[conn[x]]) = Len(t) + 1
          BY <4>1, <4>2, AppendProperties
        <4>4. \A k \in 1 .. Len(t) : told'[conn[x]][k] = t[k] /\ given'[conn[x]][k] = g[k]
          BY <4>1, <4>2, AppendProperties
        <4>5. told'[conn[x]][Len(t) + 1] = i[x] /\ given'[conn[x]][Len(t) + 1] = ctx[x]
          BY <4>1, <4>2, AppendProperties
        <4>6. \A k \in 1 .. Len(t) : Kept(conn[x], k)
          BY <1>0, <2>1, <3>1 DEF Owns
        <4>7. \A k \in 1 .. Len(t) : Kept(conn[x], k)'
          <5> SUFFICES ASSUME NEW k \in 1 .. Len(t) PROVE Kept(conn[x], k)'
            OBVIOUS
          <5>1. told'[conn'[x]][k] = t[k] /\ given'[conn'[x]][k] = g[k] /\ Kept(conn[x], k)
            BY <2>1, <4>4, <4>6
          <5>2. UNCHANGED <<slots, closed, contested>>
            BY <2>1, <2>2
          <5> HIDE DEF t, g
          <5>3. slots[t[k]] = g[k] \/ g[k] \in closed \/ t[k] \in contested
            BY <5>1 DEF Kept, t, g
          <5> QED
            BY <5>1, <5>2, <5>3 DEF Kept
        <4>8. \A k \in 1 .. Len(t) + 1 : k \in 1 .. Len(t) \/ k = Len(t) + 1
          BY <4>1
        <4> QED
          BY <2>1, <4>2, <4>3, <4>5, <4>7, <4>8 DEF Owns
      <3>2. CASE x # w
        <4>1. pc'[x] = pc[x]
          BY <1>0, <2>2, <3>2 DEF WorkerType
        <4>2. Active(x) => told'[conn[x]] = told[conn[x]] /\ given'[conn[x]] = given[conn[x]]
          BY <1>0, <1>c, <2>2, <2>a, <3>2 DEF ClientType
        <4> QED
          BY <1>1, <2>1, <2>2, <4>1, <4>2 DEF Active
      <3> QED
        BY <3>1, <3>2
    <2>3. CASE /\ Return(w) /\ UNCHANGED <<told, given>>
               /\ closed' = closed \cup {ctx[w]} /\ slots' = [slots EXCEPT ![i[w]] = NoContext]
      <3>1. CASE x = w
        <4>1. pc'[x] = "idle"
          BY <1>0, <2>3, <3>1 DEF Return, WorkerType
        <4> QED
          BY <4>1 DEF Owns, Active
      <3>2. CASE x # w
        <4>1. pc'[x] = pc[x]
          BY <1>0, <2>3, <3>2 DEF Return, WorkerType
        <4>2. \A s \in Slots : slots[s] # NoContext => slots'[s] = slots[s] \/ s \in contested
          BY <1>e, <2>1, <2>3
        <4> QED
          BY <1>1, <2>1, <2>3, <4>1, <4>2 DEF Active
      <3> QED
        BY <3>1, <3>2
    <2> QED
      BY <1>4, <2>2, <2>3 DEF Send, toldVars
  <1>5. ASSUME NEW w \in Workers, Store(w) PROVE Owns(x)'
    <2>1. /\ UNCHANGED <<told, given, conn, i, ctx, closed, contested>> /\ pc[w] = "store"
          /\ pc' = [pc EXCEPT ![w] = "recv"] /\ slots' = [slots EXCEPT ![i[w]] = ctx[w]]
          /\ Storing(w) /\ Active(w)
      BY <1>5 DEF Store, Stored, Storing, Active, toldVars
    <2>2. \A s \in Slots : slots[s] # NoContext => slots'[s] = slots[s] \/ s \in contested
      BY <1>e, <2>1
    <2>3. CASE x = w
      <3>1. \A k \in 1 .. Len(told[conn[x]]) : Kept(conn[x], k) => Kept(conn[x], k)'
        BY <1>k, <2>1, <2>2, <2>3 DEF Kept
      <3>2. slots'[i[x]] = ctx[x]
        BY <1>0, <1>n, <2>1, <2>3 DEF SlotType
      <3>3. \A k \in 1 .. Len(told[conn[x]]) : Kept(conn[x], k)'
        BY <1>0, <2>1, <2>3, <3>1, <3>2 DEF Owns, Kept
      <3> QED
        BY <1>0, <2>1, <2>3, <3>3 DEF Owns
    <2>4. CASE x # w
      <3>1. pc'[x] = pc[x]
        BY <1>0, <2>1, <2>4 DEF WorkerType
      <3> QED
        BY <1>1, <2>1, <2>2, <3>1 DEF Active
    <2> QED
      BY <2>3, <2>4
  <1>6. CASE Accept \/ (Sigint /\ ~Exit) \/ UNCHANGED vars
             \/ \E c \in Clients : Connect(c) \/ ClientStep(c) \/ SendClose(c) \/ Disconnect(c)
    <2>1. UNCHANGED <<told, given, slots, closed, contested, pc, conn, i, ctx>>
      BY <1>6 DEF Accept, Sigint, vars, Connect, ClientStep, SendOpen, RecvReply, SendClose, Disconnect,
                  toldVars, ctxVars, workerVars
    <2> QED
      BY <1>1, <2>1 DEF Active
  <1>7. CASE Exit
    BY <1>7 DEF Exit, NoWork, Owns, Active
  <1> QED
    BY <1>2, <1>3, <1>4, <1>5, <1>6, <1>7 DEF Next, WorkerStep, ServerReturns

LEMMA CtxInvariant == Spec => []CtxInv
  <1>1. Init => CtxInv
    BY CtxTypeInit, PlacesInit, OwnInit DEF CtxInv
  <1>2. CtxInv /\ [Next]_vars => CtxInv'
    <2> SUFFICES ASSUME CtxInv, [Next]_vars PROVE CtxInv'
      OBVIOUS
    <2>1. CtxType' /\ OnePlace' /\ NewIsNowhere' /\ NotYetTold'
      BY CtxTypeStep, PlacesStep DEF CtxInv
    <2>2. StoringAlone' /\ StoringToEmpty'
      BY StoringStep DEF CtxInv
    <2>3. \A w \in Workers : Owns(w)'
      BY OwnStep
    <2>4. AllOwn'
      BY <2>3 DEF AllOwn
    <2> QED
      BY <2>1, <2>2, <2>4 DEF CtxInv
  <1> QED
    BY <1>1, <1>2, PTL DEF Spec

(***************************************************************************)
(* Every slot a client was told of holds that client's own context while a *)
(* worker serves it, unless the context was closed or two workers found    *)
(* the slot empty at once, for any number of clients, workers and slots,   *)
(* however answers fail and clients go away.                               *)
(***************************************************************************)
THEOREM AnswersAreStored == Spec => []OwnContextInSlot
  <1>1. CtxInv => OwnContextInSlot
    BY DEF CtxInv, AllOwn, Owns, Kept, Active, OwnContextInSlot
  <1> QED
    BY <1>1, CtxInvariant, PTL
=============================================================================
