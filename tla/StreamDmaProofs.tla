-------------------------- MODULE StreamDmaProofs --------------------------
(***************************************************************************)
(* Proofs about StreamDma, for every number of buffers and every bound.    *)
(***************************************************************************)
EXTENDS StreamDma, TLAPS

USE DEF Buffers, NoBuffer, NoCookie, Statuses, Descriptors

(***************************************************************************)
(* What the local variables of a call are at each of its steps: the facts  *)
(* TypeOK needs to be inductive.                                           *)
(***************************************************************************)
Locals ==
    \A t \in Threads :
        /\ pc[t] \notin {"user", "sync"} => arg[t] \in Buffers
        /\ pc[t] = "woken" => res[t] \in {"ok"} \cup WithoutCompletion
        /\ pc[t] = "checked" => res[t] \in {"complete", "error"} \cup ({"timeout"} \cap Faults)

TypeInv == TypeOK /\ Locals

LEMMA TypeInit == Init => TypeInv
  <1> SUFFICES ASSUME Init PROVE TypeInv
    OBVIOUS
  <1> USE BufferCountAssumption DEF Init
  <1>1. AppType /\ DriverType
    BY DEF AppType, DriverType
  <1>2. EngineType
    BY DEF EngineType
  <1>3. PlType
    BY DEF PlType
  <1>4. ThreadType
    BY DEF ThreadType
  <1>5. Locals
    BY DEF Locals
  <1> QED
    BY <1>1, <1>2, <1>3, <1>4, <1>5 DEF TypeInv, TypeOK

\* Every step preserves the types and the facts about local variables.
LEMMA TypeStep == TypeInv /\ [Next]_vars => TypeInv'
  <1> SUFFICES ASSUME TypeInv, [Next]_vars PROVE TypeInv'
    OBVIOUS
  <1>0. AppType /\ DriverType /\ EngineType /\ PlType /\ ThreadType /\ Locals
    BY DEF TypeInv, TypeOK
  <1> USE <1>0, BufferCountAssumption DEF Goto
  <1>1. CASE Open
    <2> USE <1>1 DEF Open, LocalOpen
    <2>1. ThreadType' /\ Locals'
      BY DEF thread, ThreadType, Locals
    <2>2. AppType'
      BY DEF AppType
    <2>3. DriverType'
      BY DEF DriverType
    <2>4. EngineType'
      BY DEF EngineType
    <2>5. PlType'
      BY DEF PlType
    <2> QED
      BY <2>1, <2>2, <2>3, <2>4, <2>5 DEF TypeInv, TypeOK
  <1>2. CASE ForeignOpen
    <2> USE <1>2 DEF ForeignOpen, LocalOpen
    <2>1. PlType' /\ ThreadType' /\ Locals'
      BY DEF plside, thread, PlType, ThreadType, Locals
    <2>2. AppType'
      BY DEF AppType
    <2>3. DriverType'
      BY DEF DriverType
    <2>4. EngineType'
      BY DEF EngineType
    <2> QED
      BY <2>1, <2>2, <2>3, <2>4 DEF TypeInv, TypeOK
  <1>3. CASE Close
    <2> USE <1>3 DEF Close
    <2>1. DriverType' /\ EngineType' /\ PlType'
      BY DEF driver, engine, plside, DriverType, EngineType, PlType
    <2>2. AppType'
      BY DEF AppType
    <2>3. ThreadType'
      BY DEF ThreadType
    <2>4. Locals'
      BY DEF Locals, ThreadType, Idle
    <2> QED
      BY <2>1, <2>2, <2>3, <2>4 DEF TypeInv, TypeOK
  <1>4. CASE Release
    <2> USE <1>4 DEF Release, ClearStatuses
    <2>1. EngineType' /\ PlType'
      BY DEF engine, plside, EngineType, PlType
    <2>2. AppType'
      BY DEF AppType
    <2>3. DriverType'
      BY DEF DriverType
    <2>4. ThreadType'
      BY DEF ThreadType
    <2>5. Locals'
      BY DEF Locals, ThreadType, Idle
    <2> QED
      BY <2>1, <2>2, <2>3, <2>4, <2>5 DEF TypeInv, TypeOK
  <1>5. ASSUME NEW t \in Threads, GetBuffer(t) PROVE TypeInv'
    <2> USE <1>5 DEF GetBuffer
    <2>1. AppType' /\ EngineType' /\ PlType'
      BY DEF app, engine, plside, AppType, EngineType, PlType
    <2>2. DriverType'
      BY DEF DriverType, AppType
    <2>3. ThreadType'
      BY DEF ThreadType, AppType
    <2>4. Locals'
      BY DEF Locals, ThreadType, AppType
    <2> QED
      BY <2>1, <2>2, <2>3, <2>4 DEF TypeInv, TypeOK
  <1>6. ASSUME NEW t \in Threads, Submit(t) PROVE TypeInv'
    <2> USE <1>6 DEF Submit
    <2>1. AppType' /\ EngineType'
      BY DEF app, engine, AppType, EngineType
    <2>2. DriverType'
      BY DEF DriverType, ThreadType
    <2>3. PlType'
      <3>1. held[t] \in Buffers /\ Len(log) + 1 \in Nat
        BY DEF PlType, ThreadType
      <3>2. log' \in Seq(Nat) /\ data' \in [Buffers -> Nat]
        <4>1. log' \in Seq(Nat)
          <5>1. log' = log \/ log' = Append(log, Len(log) + 1)
            OBVIOUS
          <5>2. log \in Seq(Nat) /\ Append(log, Len(log) + 1) \in Seq(Nat)
            BY <3>1 DEF PlType
          <5> QED
            BY <5>1, <5>2, Zenon
        <4>2. data' \in [Buffers -> Nat]
          BY <3>1 DEF PlType
        <4> QED
          BY <4>1, <4>2
      <3>3. asked' \subseteq Buffers
        BY <3>1 DEF PlType
      <3> QED
        BY <3>2, <3>3 DEF PlType
    <2>4. ThreadType'
      BY DEF ThreadType
    <2>5. Locals'
      BY DEF Locals, ThreadType
    <2> QED
      BY <2>1, <2>2, <2>3, <2>4, <2>5 DEF TypeInv, TypeOK
  <1>7. ASSUME NEW t \in Threads, Sync(t) PROVE TypeInv'
    <2> USE <1>7 DEF Sync
    <2>1. AppType' /\ DriverType' /\ EngineType' /\ PlType'
      BY DEF app, driver, engine, plside, AppType, DriverType, EngineType, PlType
    <2>2. ThreadType'
      BY DEF ThreadType
    <2>3. Locals'
      BY DEF Locals, ThreadType
    <2> QED
      BY <2>1, <2>2, <2>3 DEF TypeInv, TypeOK
  <1>8. ASSUME NEW t \in Threads, GetReturn(t) PROVE TypeInv'
    <2> USE <1>8 DEF GetReturn, NextId
    <2>1. DriverType' /\ EngineType'
      BY DEF driver, engine, DriverType, EngineType
    <2>2. AppType'
      BY DEF AppType, ThreadType
    <2>3. PlType'
      <3>1. arg[t] \in Buffers
        BY DEF Locals
      <3>2. log' \in Seq(Nat)
        <4>1. log' = log \/ log' = Append(log, data[arg[t]])
          OBVIOUS
        <4>2. data[arg[t]] \in Nat
          BY <3>1 DEF PlType
        <4>3. log \in Seq(Nat) /\ Append(log, data[arg[t]]) \in Seq(Nat)
          BY <4>2 DEF PlType
        <4> QED
          BY <4>1, <4>3, Zenon
      <3>3. asked' \subseteq Buffers
        BY DEF PlType
      <3> QED
        BY <3>2, <3>3 DEF PlType
    <2>4. ThreadType'
      BY DEF ThreadType, Locals
    <2>5. Locals'
      BY DEF Locals, ThreadType
    <2> QED
      BY <2>1, <2>2, <2>3, <2>4, <2>5 DEF TypeInv, TypeOK
  <1>9. ASSUME NEW t \in Threads, SyncNext(t) PROVE TypeInv'
    <2> USE <1>9 DEF SyncNext
    <2>1. AppType' /\ EngineType' /\ PlType'
      BY DEF app, engine, plside, AppType, EngineType, PlType
    <2>2. DriverType'
      <3>1. bdindex' \in Buffers
        BY DEF DriverType, ThreadType, Locals
      <3> QED
        BY <3>1 DEF DriverType
    <2>3. ThreadType'
      <3>1. arg' \in [Threads -> 0 .. BufferCount]
        BY DEF ThreadType
      <3> QED
        BY <3>1 DEF ThreadType
    <2>4. Locals'
      BY DEF Locals, ThreadType
    <2> QED
      BY <2>1, <2>2, <2>3, <2>4 DEF TypeInv, TypeOK
  <1>10. ASSUME NEW t \in Threads, SyncReturn(t) PROVE TypeInv'
    <2> USE <1>10 DEF SyncReturn
    <2>1. AppType' /\ DriverType' /\ EngineType' /\ PlType'
      BY DEF app, driver, engine, plside, AppType, DriverType, EngineType, PlType
    <2>2. ThreadType'
      BY DEF ThreadType
    <2>3. Locals'
      BY DEF Locals, ThreadType
    <2> QED
      BY <2>1, <2>2, <2>3 DEF TypeInv, TypeOK
  <1>11. ASSUME NEW t \in Threads, StartTransfer(t) PROVE TypeInv'
    <2> USE <1>11 DEF StartTransfer, InitCompletion
    <2>1. AppType' /\ PlType'
      BY DEF app, plside, AppType, PlType
    <2>2. DriverType'
      BY DEF DriverType, EngineType
    <2>3. EngineType'
      BY DEF EngineType, DriverType
    <2>4. ThreadType'
      BY DEF ThreadType, DriverType, AppType
    <2>5. Locals'
      BY DEF Locals, ThreadType
    <2> QED
      BY <2>1, <2>2, <2>3, <2>4, <2>5 DEF TypeInv, TypeOK
  <1>12. ASSUME NEW t \in Threads, StartFails(t) PROVE TypeInv'
    <2> USE <1>12 DEF StartFails, InitCompletion, AfterStart
    <2>1. AppType' /\ EngineType' /\ PlType'
      BY DEF app, engine, AppType, EngineType, PlType
    <2>2. DriverType'
      <3>1. done' \in [Buffers -> Nat]
        <4>1. done' = done \/ done' = [done EXCEPT ![bdindex] = 0]
          OBVIOUS
        <4> HIDE <1>12 DEF StartFails
        <4> QED
          BY <4>1 DEF DriverType
      <3>2. cookie' \in [Buffers -> Nat]
        BY DEF DriverType
      <3> QED
        BY <3>1, <3>2 DEF DriverType
    <2>3. ThreadType'
      BY DEF ThreadType
    <2>4. Locals'
      BY DEF Locals, ThreadType
    <2> QED
      BY <2>1, <2>2, <2>3, <2>4 DEF TypeInv, TypeOK
  <1>13. ASSUME NEW t \in Threads, IssuePending(t) PROVE TypeInv'
    <2> USE <1>13 DEF IssuePending, IssueAll, AfterStart
    <2>1. AppType' /\ PlType'
      BY DEF app, plside, AppType, PlType
    <2>2. DriverType'
      BY DEF DriverType, ThreadType
    <2>3. EngineType'
      BY DEF EngineType, DriverType
    <2>4. ThreadType'
      BY DEF ThreadType
    <2>5. Locals'
      BY DEF Locals, ThreadType
    <2> QED
      BY <2>1, <2>2, <2>3, <2>4, <2>5 DEF TypeInv, TypeOK
  <1>14. ASSUME NEW t \in Threads, WaitBegin(t) PROVE TypeInv'
    <2> USE <1>14 DEF WaitBegin
    <2>1. AppType' /\ EngineType' /\ PlType'
      BY DEF app, engine, plside, AppType, EngineType, PlType
    <2>2. DriverType'
      BY DEF DriverType, ThreadType
    <2>3. ThreadType'
      BY DEF ThreadType, DriverType, AppType
    <2>4. Locals'
      BY DEF Locals, ThreadType
    <2> QED
      BY <2>1, <2>2, <2>3, <2>4 DEF TypeInv, TypeOK
  <1>15. ASSUME NEW t \in Threads, WaitReturn(t) PROVE TypeInv'
    <2> USE <1>15 DEF WaitReturn, WithoutCompletion
    <2>1. AppType' /\ EngineType' /\ PlType'
      BY DEF app, engine, plside, AppType, EngineType, PlType
    <2>2. DriverType'
      <3>1. done' \in [Buffers -> Nat]
        <4>1. CASE done[bd[t]] > 0 /\ done' = [done EXCEPT ![bd[t]] = @ - 1]
          BY <4>1 DEF DriverType, ThreadType
        <4>2. CASE UNCHANGED done
          BY <4>2 DEF DriverType
        <4> QED
          BY <4>1, <4>2
      <3> QED
        BY <3>1 DEF DriverType
    <2>3. ThreadType'
      BY DEF ThreadType
    <2>4. Locals'
      BY DEF Locals, ThreadType
    <2> QED
      BY <2>1, <2>2, <2>3, <2>4 DEF TypeInv, TypeOK
  <1>16. ASSUME NEW t \in Threads, WaitCheck(t) PROVE TypeInv'
    <2> USE <1>16 DEF WaitCheck, WithoutCompletion
    <2>1. AppType' /\ DriverType' /\ EngineType' /\ PlType'
      BY DEF app, driver, engine, plside, AppType, DriverType, EngineType, PlType
    <2>2. ThreadType'
      BY DEF ThreadType
    <2>3. Locals'
      BY DEF Locals, ThreadType
    <2> QED
      BY <2>1, <2>2, <2>3 DEF TypeInv, TypeOK
  <1>17. ASSUME NEW t \in Threads, WaitStore(t) PROVE TypeInv'
    <2> USE <1>17 DEF WaitStore, ProxyStatus, SpendCredit
    <2>1. AppType' /\ EngineType' /\ PlType'
      BY DEF app, engine, plside, AppType, EngineType, PlType
    <2>2. DriverType'
      <3>1. ProxyStatus(res[t]) \in Statuses
        BY DEF Locals, ThreadType
      <3>2. status' \in [Buffers -> Statuses]
        BY <3>1 DEF DriverType
      <3>3. waitCount' \in Nat
        BY DEF DriverType
      <3> QED
        BY <3>2, <3>3 DEF DriverType
    <2>3. ThreadType'
      <3>1. arg' \in [Threads -> 0 .. BufferCount]
        BY DEF ThreadType, Locals
      <3> QED
        BY <3>1 DEF ThreadType
    <2>4. Locals'
      <3>1. /\ pc'[t] \in {"return", "sync", "user"} /\ (pc'[t] = "return" => arg'[t] = arg[t])
            /\ \A s \in Threads : s # t => pc'[s] = pc[s] /\ arg'[s] = arg[s]
        BY DEF ThreadType
      <3> QED
        BY <3>1 DEF Locals
    <2> QED
      BY <2>1, <2>2, <2>3, <2>4 DEF TypeInv, TypeOK
  <1>18. CASE Complete
    <2> USE <1>18 DEF Complete
    <2>1. AppType' /\ DriverType' /\ ThreadType' /\ Locals'
      <3>1. UNCHANGED <<app, driver, thread>>
        OBVIOUS
      <3>2. AppType' /\ DriverType'
        BY <3>1 DEF app, driver, AppType, DriverType
      <3>3. ThreadType' /\ Locals'
        BY <3>1 DEF thread, ThreadType, Locals
      <3> QED
        BY <3>2, <3>3
    <2>2. EngineType'
      BY DEF EngineType
    <2>3. PlType'
      <3>1. PICK x \in queued : Complete!(x)
        BY DEF Complete
      <3>2. x.buf \in Buffers /\ data[x.buf] \in Nat /\ Len(wire) + 1 \in Nat
        BY DEF PlType, EngineType
      <3> QED
        <4>1. wire' \in Seq(Nat)
          <5>1. wire' = Append(wire, data[x.buf]) \/ wire' = Append(wire, Len(wire) + 1)
            BY <3>1
          <5>2. /\ Append(wire, data[x.buf]) \in Seq(Nat)
                /\ Append(wire, Len(wire) + 1) \in Seq(Nat)
            BY <3>2 DEF PlType
          <5> QED
            BY <5>1, <5>2
        <4>2. data' \in [Buffers -> Nat]
          BY <3>1, <3>2 DEF PlType
        <4>3. avail' \in Nat /\ UNCHANGED <<irqs, merged, log, asked, refused>>
          BY <3>1, DirAssumption DEF PlType
        <4> QED
          BY <4>1, <4>2, <4>3 DEF PlType
    <2> QED
      BY <2>1, <2>2, <2>3 DEF TypeInv, TypeOK
  <1>19. CASE Callback
    <2> USE <1>19 DEF Callback
    <2>1. AppType' /\ PlType' /\ ThreadType' /\ Locals'
      BY DEF app, plside, thread, AppType, PlType, ThreadType, Locals
    <2>2. DriverType'
      <3>1. PICK x \in finished : done' = [done EXCEPT ![x.buf] = @ + 1]
        OBVIOUS
      <3>2. x.buf \in Buffers
        BY DEF EngineType
      <3>3. done' \in [Buffers -> Nat]
        <4>1. done \in [Buffers -> Nat]
          BY DEF DriverType
        <4>2. done[x.buf] + 1 \in Nat
          BY <3>2, <4>1
        <4> QED
          BY <3>1, <3>2, <4>1, <4>2
      <3>4. UNCHANGED <<bdindex, status, cookie, waitCount, cleared>>
        OBVIOUS
      <3> QED
        BY <3>3, <3>4 DEF DriverType
    <2>3. EngineType'
      BY DEF EngineType
    <2> QED
      BY <2>1, <2>2, <2>3 DEF TypeInv, TypeOK
  <1>20. CASE Packet
    <2> USE <1>20 DEF Packet
    <2>1. AppType' /\ DriverType' /\ EngineType' /\ ThreadType' /\ Locals'
      BY DEF app, driver, engine, thread, AppType, DriverType, EngineType, ThreadType, Locals
    <2>2. PlType'
      BY DEF PlType
    <2> QED
      BY <2>1, <2>2 DEF TypeInv, TypeOK
  <1>21. CASE IrqHandler
    <2> USE <1>21 DEF IrqHandler
    <2>1. AppType' /\ EngineType' /\ ThreadType' /\ Locals'
      BY DEF app, engine, thread, AppType, EngineType, ThreadType, Locals
    <2>2. DriverType'
      BY DEF DriverType
    <2>3. PlType'
      BY DEF PlType
    <2> QED
      BY <2>1, <2>2, <2>3 DEF TypeInv, TypeOK
  <1>23. CASE ForeignClose
    <2> USE <1>23 DEF ForeignClose, ClearStatuses
    <2>1. EngineType' /\ PlType' /\ ThreadType' /\ Locals'
      BY DEF engine, plside, thread, EngineType, PlType, ThreadType, Locals
    <2>2. AppType'
      BY DEF AppType
    <2>3. DriverType'
      BY DEF DriverType
    <2> QED
      BY <2>1, <2>2, <2>3 DEF TypeInv, TypeOK
  <1>22. CASE UNCHANGED vars
    BY <1>22 DEF vars, TypeInv, TypeOK, app, driver, engine, plside, thread, AppType, DriverType, EngineType,
       PlType, ThreadType, Locals
  <1> QED
    BY <1>1, <1>2, <1>3, <1>4, <1>5, <1>6, <1>7, <1>8, <1>9, <1>10, <1>11, <1>12,
       <1>13, <1>14, <1>15, <1>16, <1>17, <1>18, <1>19, <1>20, <1>21, <1>22, <1>23
       DEF Next, ThreadStep

(***************************************************************************)
(* The channel, the ring and the threads keep their types, with any number *)
(* of threads and whatever the environment does.                           *)
(***************************************************************************)
THEOREM TypeCorrect == Spec => []TypeOK
  <1>1. Spec => []TypeInv
    BY TypeInit, TypeStep, PTL DEF Spec
  <1>2. TypeInv => TypeOK
    BY DEF TypeInv
  <1> QED
    BY <1>1, <1>2, PTL
-----------------------------------------------------------------------------
(***************************************************************************)
(* The status word.                                                        *)
(***************************************************************************)

\* The handle is used by one thread at a time, as the library needs it.
SingleThread == \A s, t \in Threads : s = t

\* A descriptor the engine still has is newer than everything it completed,
\* and no newer than the cookie recorded for its buffer.
CookieInv ==
    /\ completed <= last
    /\ \A x \in queued : /\ completed < x.cookie
                         /\ x.cookie <= last
                         /\ x.cookie <= cookie[x.buf]
    /\ \A x, y \in queued : x.cookie = y.cookie => x = y

\* Between the engine's answer and the store that acts on it, the answer holds.
CheckedFree ==
    \A t \in Threads : pc[t] = "checked" /\ res[t] = "complete" => ~InFlight(bd[t])

StatusInv == TypeInv /\ CookieInv /\ CheckedFree /\ StatusTruth

LEMMA StatusInit == Init => StatusInv
  <1> SUFFICES ASSUME Init PROVE StatusInv
    OBVIOUS
  <1>1. CookieInv /\ CheckedFree /\ StatusTruth
    BY DEF Init, CookieInv, CheckedFree, StatusTruth, InFlight
  <1> QED
    BY <1>1, TypeInit DEF StatusInv

\* Every step preserves it, if the engine refuses no descriptor.
LEMMA StatusStep ==
  ASSUME SingleThread, "submiterror" \notin Faults, StatusInv, [Next]_vars
  PROVE  StatusInv'
  <1>0. /\ TypeInv' /\ CookieInv /\ CheckedFree /\ StatusTruth
        /\ DriverType /\ EngineType /\ ThreadType /\ Locals
    BY TypeStep DEF StatusInv, TypeInv, TypeOK
  <1> USE <1>0 DEF Goto
  <1>1. CASE Open
    <2> USE <1>1 DEF Open, LocalOpen, thread
    <2>1. CookieInv'
      BY DEF CookieInv, DriverType, EngineType
    <2>2. CheckedFree'
      BY DEF CheckedFree, InFlight, ThreadType
    <2>3. StatusTruth'
      BY DEF StatusTruth, InFlight, Submitting, Free, DriverType, ThreadType
    <2> QED
      BY <2>1, <2>2, <2>3 DEF StatusInv
  <1>2. CASE ForeignOpen
    <2> USE <1>2 DEF ForeignOpen, LocalOpen, thread
    <2>1. CookieInv'
      BY DEF CookieInv, DriverType, EngineType
    <2>2. CheckedFree'
      BY DEF CheckedFree, InFlight, ThreadType
    <2>3. StatusTruth'
      BY DEF StatusTruth, InFlight, Submitting, Free, DriverType, ThreadType
    <2> QED
      BY <2>1, <2>2, <2>3 DEF StatusInv
  <1>3. CASE Close
    <2> USE <1>3 DEF Close, driver, engine
    <2>1. CookieInv'
      BY DEF CookieInv, DriverType, EngineType
    <2>2. CheckedFree'
      BY DEF CheckedFree, InFlight, ThreadType
    <2>3. StatusTruth'
      BY DEF StatusTruth, InFlight, Submitting, Free, DriverType, ThreadType
    <2> QED
      BY <2>1, <2>2, <2>3 DEF StatusInv
  <1>4. CASE Release
    <2> USE <1>4 DEF Release, ClearStatuses, engine
    <2>1. CookieInv'
      BY DEF CookieInv, DriverType, EngineType
    <2>2. CheckedFree'
      BY DEF CheckedFree, InFlight, ThreadType
    <2>3. StatusTruth'
      BY DEF StatusTruth, InFlight, Submitting, Free, DriverType, ThreadType
    <2> QED
      BY <2>1, <2>2, <2>3 DEF StatusInv
  <1>5. ASSUME NEW t \in Threads, GetBuffer(t) PROVE StatusInv'
    <2> USE <1>5 DEF GetBuffer, app, engine
    <2>1. CookieInv'
      BY DEF CookieInv, DriverType, EngineType
    <2>2. CheckedFree'
      BY DEF CheckedFree, InFlight, ThreadType
    <2>3. StatusTruth'
      <3>1. pc'[t] \in {"finish", "return"} /\ \A s \in Threads : s # t => pc'[s] = pc[s]
        BY DEF ThreadType
      <3>2. \A b : Submitting(b) => Submitting(b)'
        BY <3>1 DEF Submitting
      <3> QED
        BY <3>2 DEF StatusTruth, InFlight, Free
    <2> QED
      BY <2>1, <2>2, <2>3 DEF StatusInv
  <1>6. ASSUME NEW t \in Threads, Submit(t) PROVE StatusInv'
    <2> USE <1>6 DEF Submit, app, engine
    <2>1. CookieInv'
      BY DEF CookieInv, DriverType, EngineType
    <2>2. CheckedFree'
      BY DEF CheckedFree, InFlight, ThreadType
    <2>3. StatusTruth'
      BY DEF StatusTruth, InFlight, Submitting, Free, DriverType, ThreadType
    <2> QED
      BY <2>1, <2>2, <2>3 DEF StatusInv
  <1>7. ASSUME NEW t \in Threads, Sync(t) PROVE StatusInv'
    <2> USE <1>7 DEF Sync, app, driver, engine
    <2>1. CookieInv'
      BY DEF CookieInv, DriverType, EngineType
    <2>2. CheckedFree'
      BY DEF CheckedFree, InFlight, ThreadType
    <2>3. StatusTruth'
      BY DEF StatusTruth, InFlight, Submitting, Free, DriverType, ThreadType
    <2> QED
      BY <2>1, <2>2, <2>3 DEF StatusInv
  <1>8. ASSUME NEW t \in Threads, GetReturn(t) PROVE StatusInv'
    <2> USE <1>8 DEF GetReturn, driver, engine
    <2>1. CookieInv'
      BY DEF CookieInv, DriverType, EngineType
    <2>2. CheckedFree'
      BY DEF CheckedFree, InFlight, ThreadType
    <2>3. StatusTruth'
      BY DEF StatusTruth, InFlight, Submitting, Free, DriverType, ThreadType
    <2> QED
      BY <2>1, <2>2, <2>3 DEF StatusInv
  <1>9. ASSUME NEW t \in Threads, SyncNext(t) PROVE StatusInv'
    <2> USE <1>9 DEF SyncNext, app, engine
    <2>1. CookieInv'
      BY DEF CookieInv, DriverType, EngineType
    <2>2. CheckedFree'
      BY DEF CheckedFree, InFlight, ThreadType
    <2>3. StatusTruth'
      <3>1. pc'[t] \in {"finish", "sync"} /\ \A s \in Threads : s # t => pc'[s] = pc[s]
        BY DEF ThreadType
      <3>2. \A b : Submitting(b) => Submitting(b)'
        BY <3>1 DEF Submitting
      <3> QED
        BY <3>2 DEF StatusTruth, InFlight, Free
    <2> QED
      BY <2>1, <2>2, <2>3 DEF StatusInv
  <1>10. ASSUME NEW t \in Threads, SyncReturn(t) PROVE StatusInv'
    <2> USE <1>10 DEF SyncReturn, app, driver, engine
    <2>1. CookieInv'
      BY DEF CookieInv, DriverType, EngineType
    <2>2. CheckedFree'
      BY DEF CheckedFree, InFlight, ThreadType
    <2>3. StatusTruth'
      BY DEF StatusTruth, InFlight, Submitting, Free, DriverType, ThreadType
    <2> QED
      BY <2>1, <2>2, <2>3 DEF StatusInv
  <1>11. ASSUME NEW t \in Threads, StartTransfer(t) PROVE StatusInv'
    <2> USE <1>11 DEF StartTransfer, app
    <2>1. CookieInv'
      BY DEF CookieInv, DriverType, EngineType
    <2>2. CheckedFree'
      BY DEF CheckedFree, InFlight, ThreadType, SingleThread
    <2>3. StatusTruth'
      <3>1. Submitting(bdindex)'
        BY DEF Submitting, ThreadType
      <3>2. ASSUME NEW b \in Buffers, b # bdindex
            PROVE  (InFlight(b)' => InFlight(b)) /\ (Submitting(b) => Submitting(b)')
        BY <3>2 DEF InFlight, Submitting, ThreadType
      <3> QED
        BY <3>1, <3>2 DEF StatusTruth, Free
    <2> QED
      BY <2>1, <2>2, <2>3 DEF StatusInv
  <1>12. ASSUME NEW t \in Threads, StartFails(t) PROVE StatusInv'
    BY <1>12 DEF StartFails
  <1>13. ASSUME NEW t \in Threads, IssuePending(t) PROVE StatusInv'
    <2> USE <1>13 DEF IssuePending, app, AfterStart
    <2>1. CookieInv'
      BY DEF CookieInv, DriverType, EngineType
    <2>2. CheckedFree'
      BY DEF CheckedFree, InFlight, ThreadType
    <2>3. StatusTruth'
      BY DEF StatusTruth, InFlight, Submitting, Free, DriverType, ThreadType
    <2> QED
      BY <2>1, <2>2, <2>3 DEF StatusInv
  <1>14. ASSUME NEW t \in Threads, WaitBegin(t) PROVE StatusInv'
    <2> USE <1>14 DEF WaitBegin, app, engine
    <2>1. CookieInv'
      BY DEF CookieInv, DriverType, EngineType
    <2>2. CheckedFree'
      BY DEF CheckedFree, InFlight, ThreadType
    <2>3. StatusTruth'
      BY DEF StatusTruth, InFlight, Submitting, Free, DriverType, ThreadType
    <2> QED
      BY <2>1, <2>2, <2>3 DEF StatusInv
  <1>15. ASSUME NEW t \in Threads, WaitReturn(t) PROVE StatusInv'
    <2> USE <1>15 DEF WaitReturn, app, engine
    <2>1. CookieInv'
      BY DEF CookieInv, DriverType, EngineType
    <2>2. CheckedFree'
      BY DEF CheckedFree, InFlight, ThreadType
    <2>3. StatusTruth'
      BY DEF StatusTruth, InFlight, Submitting, Free, DriverType, ThreadType
    <2> QED
      BY <2>1, <2>2, <2>3 DEF StatusInv
  <1>16. ASSUME NEW t \in Threads, WaitCheck(t) PROVE StatusInv'
    <2> USE <1>16 DEF WaitCheck, app, driver, engine
    <2>1. CookieInv'
      BY DEF CookieInv, DriverType, EngineType
    <2>2. CheckedFree'
      <3>1. res'[t] = "complete" => ~InFlight(bd[t])
        <4>1. res'[t] = "complete" => cookie[bd[t]] <= completed
          BY DEF ThreadType
        <4>2. ASSUME NEW x \in queued, x.buf = bd[t] PROVE ~(cookie[bd[t]] <= completed)
          <5>1. /\ x.cookie \in Nat /\ completed \in Nat /\ cookie[x.buf] \in Nat
                /\ completed < x.cookie /\ x.cookie <= cookie[x.buf]
            BY DEF CookieInv, DriverType, EngineType
          <5> QED
            BY <4>2, <5>1
        <4> QED
          BY <4>1, <4>2 DEF InFlight
      <3> QED
        BY <3>1 DEF CheckedFree, InFlight, ThreadType
    <2>3. StatusTruth'
      BY DEF StatusTruth, InFlight, Submitting, Free, DriverType, ThreadType
    <2> QED
      BY <2>1, <2>2, <2>3 DEF StatusInv
  <1>17. ASSUME NEW t \in Threads, WaitStore(t) PROVE StatusInv'
    <2> USE <1>17 DEF WaitStore, app, engine, ProxyStatus
    <2>1. CookieInv'
      BY DEF CookieInv, DriverType, EngineType
    <2>2. CheckedFree'
      BY DEF CheckedFree, InFlight, ThreadType
    <2>3. StatusTruth'
      <3>1. ASSUME NEW b \in Buffers, handle = "open", status'[b] = "no_error", b # bd[t]
            PROVE  ~InFlight(b)' \/ Submitting(b)' \/ b \in cleared'
        <4>1. status[b] = "no_error" /\ queued' = queued /\ (b \in cleared => b \in cleared')
          BY <3>1 DEF DriverType, ThreadType
        <4>2. Submitting(b) => Submitting(b)'
          BY DEF Submitting, ThreadType
        <4> QED
          BY <3>1, <4>1, <4>2 DEF StatusTruth, Free, InFlight
      <3>2. status'[bd[t]] = "no_error" => ~InFlight(bd[t])'
        BY DEF DriverType, ThreadType, CheckedFree, Locals, InFlight
      <3> QED
        BY <3>1, <3>2 DEF StatusTruth, Free
    <2> QED
      BY <2>1, <2>2, <2>3 DEF StatusInv
  <1>18. CASE Complete
    <2> USE <1>18 DEF Complete, app, driver, thread
    <2>1. CookieInv'
      <3>1. PICK x \in queued : Complete!(x)
        OBVIOUS
      <3>2. \A y \in queued : y.cookie \in Nat
        BY DEF EngineType
      <3>3. \A y \in queued' : y \in queued /\ completed' < y.cookie
        BY <3>1, <3>2 DEF CookieInv
      <3>4. completed' <= last'
        BY <3>1 DEF CookieInv
      <3> QED
        BY <3>3, <3>4 DEF CookieInv
    <2>2. CheckedFree'
      BY DEF CheckedFree, InFlight, ThreadType
    <2>3. StatusTruth'
      <3>1. \A b : (InFlight(b)' => InFlight(b)) /\ (Submitting(b)' <=> Submitting(b))
        BY DEF InFlight, Submitting
      <3> QED
        BY <3>1 DEF StatusTruth, Free
    <2> QED
      BY <2>1, <2>2, <2>3 DEF StatusInv
  <1>19. CASE Callback
    <2> USE <1>19 DEF Callback, app, thread
    <2>1. CookieInv'
      BY DEF CookieInv, DriverType, EngineType
    <2>2. CheckedFree'
      BY DEF CheckedFree, InFlight, ThreadType
    <2>3. StatusTruth'
      BY DEF StatusTruth, InFlight, Submitting, Free, DriverType, ThreadType
    <2> QED
      BY <2>1, <2>2, <2>3 DEF StatusInv
  <1>20. CASE Packet
    <2> USE <1>20 DEF Packet, app, driver, engine, thread
    <2>1. CookieInv'
      BY DEF CookieInv, DriverType, EngineType
    <2>2. CheckedFree'
      BY DEF CheckedFree, InFlight, ThreadType
    <2>3. StatusTruth'
      BY DEF StatusTruth, InFlight, Submitting, Free, DriverType, ThreadType
    <2> QED
      BY <2>1, <2>2, <2>3 DEF StatusInv
  <1>21. CASE IrqHandler
    <2> USE <1>21 DEF IrqHandler, app, engine, thread
    <2>1. CookieInv'
      BY DEF CookieInv, DriverType, EngineType
    <2>2. CheckedFree'
      BY DEF CheckedFree, InFlight, ThreadType
    <2>3. StatusTruth'
      BY DEF StatusTruth, InFlight, Submitting, Free, DriverType, ThreadType
    <2> QED
      BY <2>1, <2>2, <2>3 DEF StatusInv
  <1>23. CASE ForeignClose
    <2> USE <1>23 DEF ForeignClose, ClearStatuses, engine, thread
    <2>1. CookieInv'
      BY DEF CookieInv, DriverType, EngineType
    <2>2. CheckedFree'
      BY DEF CheckedFree, InFlight, ThreadType
    <2>3. StatusTruth'
      <3>1. \A b : InFlight(b)' <=> InFlight(b)
        BY DEF InFlight
      <3> QED
        BY <3>1 DEF StatusTruth
    <2> QED
      BY <2>1, <2>2, <2>3 DEF StatusInv
  <1>22. CASE UNCHANGED vars
    BY <1>22 DEF vars, app, driver, engine, thread, StatusInv, CookieInv, CheckedFree, StatusTruth,
       InFlight, Submitting, Free
  <1> QED
    BY <1>1, <1>2, <1>3, <1>4, <1>5, <1>6, <1>7, <1>8, <1>9, <1>10, <1>11, <1>12,
       <1>13, <1>14, <1>15, <1>16, <1>17, <1>18, <1>19, <1>20, <1>21, <1>22, <1>23
       DEF Next, ThreadStep

(***************************************************************************)
(* While the device is open, a buffer marked PROXY_NO_ERROR is in flight   *)
(* only if the release of another program's file cleared its status since  *)
(* the driver last stored it: for every ring size, with expired and        *)
(* interrupted waits, callbacks that outlive device_terminate_all and      *)
(* other programs opening and closing the file.                            *)
(***************************************************************************)
THEOREM StatusTruthful ==
  ASSUME SingleThread, "submiterror" \notin Faults
  PROVE  Spec => []StatusTruth
  <1>1. StatusInv /\ [Next]_vars => StatusInv'
    BY StatusStep
  <1>2. StatusInv => StatusTruth
    BY DEF StatusInv
  <1> QED
    BY <1>1, <1>2, StatusInit, PTL DEF Spec

-----------------------------------------------------------------------------
(***************************************************************************)
(* Who owns a buffer of StreamDma: proofs that the application and the     *)
(* engine never use one at the same time, that no wait reports a spurious  *)
(* error and that a sync is complete.                                      *)
(***************************************************************************)

\* The engine has a descriptor for b, or its callback is still to come.
Busy(b) == \E x \in queued \cup finished : x.buf = b

\* A buffer has at most one such descriptor, the one its cookie records.
EngineInv ==
    /\ completed <= last
    /\ \A x \in queued : completed < x.cookie /\ x.cookie <= last
    /\ \A x \in finished : x.cookie <= completed
    /\ \A x \in queued \cup finished : cookie[x.buf] = x.cookie
    /\ \A x, y \in queued : x.cookie = y.cookie => x = y

\* A completion that waits to be consumed is that of the recorded cookie.
DoneInv ==
    \A b \in Buffers : done[b] > 0 => ~Busy(b) /\ cookie[b] <= completed

FreeInv ==
    handle = "open" => \A b \in Buffers : Free(b) /\ ~Submitting(b) => ~Busy(b)

\* The channel's bdindex is still the argument of the call under way.
ArgInv ==
    \A t \in Threads :
        /\ pc[t] # "user" => handle = "open"
        /\ pc[t] = "sync" => call[t] = "sync"
        /\ pc[t] = "finish" /\ call[t] \in {"get", "sync"} => bdindex = arg[t]
        /\ pc[t] \in {"waiting", "woken", "checked"} /\ call[t] \in {"get", "sync"}
              => bd[t] = arg[t]

\* From the wake-up to the return, the buffer stays out of the engine's hands.
HandInv ==
    \A t \in Threads :
        /\ held[t] # NoBuffer => ~Busy(held[t])
        /\ pc[t] = "start" => ~Busy(bdindex) /\ held[t] = NoBuffer
        /\ pc[t] = "woken" /\ res[t] = "ok" => ~Busy(bd[t]) /\ cookie[bd[t]] <= completed
        /\ pc[t] = "checked" => res[t] # "error" /\ (res[t] = "complete" => ~Busy(bd[t]))
        /\ pc[t] = "return" => status[arg[t]] = "timeout" \/ ~Busy(arg[t])

\* What the loop of io_finish_stream_local has passed stays free.
SyncInv ==
    "timeout" \notin Faults =>
        \A t \in Threads :
            \/ pc[t] = "sync"
            \/ pc[t] \in {"finish", "waiting", "woken", "checked"} /\ call[t] = "sync"
            => \A b \in Buffers : b < arg[t] => Free(b)

OwnerInv ==
    /\ TypeInv /\ EngineInv /\ DoneInv /\ FreeInv /\ ArgInv /\ HandInv /\ SyncInv
    /\ NoSpuriousError

LEMMA OwnerInit == Init => OwnerInv
  <1> SUFFICES ASSUME Init PROVE OwnerInv
    OBVIOUS
  <1>1. EngineInv /\ DoneInv /\ FreeInv
    BY DEF Init, EngineInv, DoneInv, FreeInv, Busy
  <1>2. ArgInv /\ HandInv /\ SyncInv /\ NoSpuriousError
    BY DEF Init, ArgInv, HandInv, SyncInv, NoSpuriousError
  <1> QED
    BY <1>1, <1>2, TypeInit DEF OwnerInv

\* Every step preserves it, while nobody interrupts a wait, opens the device
\* meanwhile or leaves a callback behind.
LEMMA OwnerStep ==
  ASSUME SingleThread, Faults \cap {"signal", "latecallback", "foreignopen"} = {},
         OwnerInv, [Next]_vars
  PROVE  OwnerInv'
  <1>0. /\ TypeInv' /\ EngineInv /\ DoneInv /\ FreeInv /\ ArgInv /\ HandInv /\ SyncInv
        /\ NoSpuriousError /\ AppType /\ DriverType /\ EngineType /\ ThreadType /\ Locals
    BY TypeStep DEF OwnerInv, TypeInv, TypeOK
  <1> USE <1>0 DEF Goto
  <1>1. CASE Open
    <2> USE <1>1 DEF Open, LocalOpen, thread
    <2>1. EngineInv'
      BY DEF EngineInv, EngineType, DriverType
    <2>2. DoneInv'
      BY DEF DoneInv, Busy, DriverType
    <2>3. FreeInv'
      BY DEF FreeInv, Busy, Free, Submitting, DriverType, ThreadType
    <2>4. ArgInv'
      BY DEF ArgInv, ThreadType
    <2>5. HandInv'
      BY DEF HandInv, Busy, ThreadType, DriverType
    <2>6. SyncInv'
      BY DEF SyncInv, ArgInv, Free, ThreadType, DriverType
    <2>7. NoSpuriousError'
      BY DEF NoSpuriousError, DriverType
    <2> QED
      BY <2>1, <2>2, <2>3, <2>4, <2>5, <2>6, <2>7 DEF OwnerInv
  <1>2. CASE ForeignOpen
    BY <1>2 DEF ForeignOpen
  <1>23. CASE ForeignClose
    BY <1>23 DEF ForeignClose
  <1>3. CASE Close
    <2> USE <1>3 DEF Close, driver, engine, Idle
    <2>1. EngineInv'
      BY DEF EngineInv, EngineType, DriverType
    <2>2. DoneInv'
      BY DEF DoneInv, Busy, DriverType
    <2>3. FreeInv'
      BY DEF FreeInv, Busy, Free, Submitting, DriverType, ThreadType
    <2>4. ArgInv'
      BY DEF ArgInv, ThreadType
    <2>5. HandInv'
      BY DEF HandInv, Busy, ThreadType, DriverType
    <2>6. SyncInv'
      BY DEF SyncInv, ArgInv, Free, ThreadType, DriverType
    <2>7. NoSpuriousError'
      BY DEF NoSpuriousError, DriverType
    <2> QED
      BY <2>1, <2>2, <2>3, <2>4, <2>5, <2>6, <2>7 DEF OwnerInv
  <1>4. CASE Release
    <2> USE <1>4 DEF Release, ClearStatuses, engine, Idle
    <2>1. EngineInv'
      BY DEF EngineInv, EngineType, DriverType
    <2>2. DoneInv'
      BY DEF DoneInv, Busy, DriverType
    <2>3. FreeInv'
      BY DEF FreeInv, Busy, Free, Submitting, DriverType, ThreadType
    <2>4. ArgInv'
      BY DEF ArgInv, ThreadType
    <2>5. HandInv'
      BY DEF HandInv, Busy, ThreadType, DriverType
    <2>6. SyncInv'
      BY DEF SyncInv, ArgInv, Free, ThreadType, DriverType
    <2>7. NoSpuriousError'
      BY DEF NoSpuriousError, DriverType
    <2> QED
      BY <2>1, <2>2, <2>3, <2>4, <2>5, <2>6, <2>7 DEF OwnerInv
  <1>5. ASSUME NEW t \in Threads, GetBuffer(t) PROVE OwnerInv'
    <2> USE <1>5 DEF GetBuffer, app, engine
    <2>1. EngineInv'
      BY DEF EngineInv, EngineType, DriverType
    <2>2. DoneInv'
      BY DEF DoneInv, Busy, DriverType
    <2>3. FreeInv'
      <3>1. \A b : Submitting(b) => Submitting(b)'
        BY DEF Submitting, ThreadType
      <3> QED
        BY <3>1 DEF FreeInv, Busy, Free
    <2>4. ArgInv'
      BY DEF ArgInv, ThreadType, SingleThread
    <2>5. HandInv'
      <3>1. \A s \in Threads : s = t
        BY DEF SingleThread
      <3>2. pc'[t] = "return" => ~Busy(cur)
        BY <3>1 DEF FreeInv, Submitting, AppType, ThreadType
      <3>3. arg'[t] = cur /\ held'[t] = NoBuffer /\ pc'[t] \in {"return", "finish"}
        BY DEF ThreadType
      <3> QED
        BY <3>1, <3>2, <3>3 DEF HandInv, Busy
    <2>6. SyncInv'
      BY DEF SyncInv, ArgInv, Free, ThreadType, DriverType
    <2>7. NoSpuriousError'
      BY DEF NoSpuriousError, DriverType
    <2> QED
      BY <2>1, <2>2, <2>3, <2>4, <2>5, <2>6, <2>7 DEF OwnerInv
  <1>6. ASSUME NEW t \in Threads, Submit(t) PROVE OwnerInv'
    <2> USE <1>6 DEF Submit, app, engine
    <2>1. EngineInv'
      BY DEF EngineInv, EngineType, DriverType
    <2>2. DoneInv'
      BY DEF DoneInv, Busy, DriverType
    <2>3. FreeInv'
      BY DEF FreeInv, Busy, Free, Submitting, DriverType, ThreadType
    <2>4. ArgInv'
      BY DEF ArgInv, ThreadType, SingleThread
    <2>5. HandInv'
      BY DEF HandInv, Busy, ThreadType, DriverType, SingleThread
    <2>6. SyncInv'
      BY DEF SyncInv, ArgInv, Free, ThreadType, DriverType
    <2>7. NoSpuriousError'
      BY DEF NoSpuriousError, DriverType
    <2> QED
      BY <2>1, <2>2, <2>3, <2>4, <2>5, <2>6, <2>7 DEF OwnerInv
  <1>7. ASSUME NEW t \in Threads, Sync(t) PROVE OwnerInv'
    <2> USE <1>7 DEF Sync, app, driver, engine
    <2>1. EngineInv'
      BY DEF EngineInv, EngineType, DriverType
    <2>2. DoneInv'
      BY DEF DoneInv, Busy, DriverType
    <2>3. FreeInv'
      BY DEF FreeInv, Busy, Free, Submitting, DriverType, ThreadType
    <2>4. ArgInv'
      BY DEF ArgInv, ThreadType
    <2>5. HandInv'
      BY DEF HandInv, Busy, ThreadType, DriverType
    <2>6. SyncInv'
      BY DEF SyncInv, ArgInv, Free, ThreadType, DriverType
    <2>7. NoSpuriousError'
      BY DEF NoSpuriousError, DriverType
    <2> QED
      BY <2>1, <2>2, <2>3, <2>4, <2>5, <2>6, <2>7 DEF OwnerInv
  <1>8. ASSUME NEW t \in Threads, GetReturn(t) PROVE OwnerInv'
    <2> USE <1>8 DEF GetReturn, driver, engine
    <2>1. EngineInv'
      BY DEF EngineInv, EngineType, DriverType
    <2>2. DoneInv'
      BY DEF DoneInv, Busy, DriverType
    <2>3. FreeInv'
      BY DEF FreeInv, Busy, Free, Submitting, DriverType, ThreadType
    <2>4. ArgInv'
      BY DEF ArgInv, ThreadType
    <2>5. HandInv'
      <3>1. \A s \in Threads : s = t
        BY DEF SingleThread
      <3>2. pc'[t] = "user" /\ (held'[t] = held[t] \/ (held'[t] = arg[t] /\ status[arg[t]] # "timeout"))
        <4>1. \/ held' = held
              \/ held' = [held EXCEPT ![t] = arg[t]] /\ status[arg[t]] # "timeout"
          OBVIOUS
        <4>2. pc'[t] = "user"
          BY DEF ThreadType
        <4>3. held'[t] = held[t] \/ (held'[t] = arg[t] /\ status[arg[t]] # "timeout")
          BY <4>1 DEF ThreadType
        <4> QED
          BY <4>2, <4>3
      <3>3. \A b : Busy(b)' <=> Busy(b)
        BY DEF Busy
      <3> QED
        BY <3>1, <3>2, <3>3 DEF HandInv
    <2>6. SyncInv'
      BY DEF SyncInv, ArgInv, Free, ThreadType, DriverType
    <2>7. NoSpuriousError'
      BY DEF NoSpuriousError, DriverType
    <2> QED
      BY <2>1, <2>2, <2>3, <2>4, <2>5, <2>6, <2>7 DEF OwnerInv
  <1>9. ASSUME NEW t \in Threads, SyncNext(t) PROVE OwnerInv'
    <2> USE <1>9 DEF SyncNext, app, engine
    <2>1. EngineInv'
      BY DEF EngineInv, EngineType, DriverType
    <2>2. DoneInv'
      BY DEF DoneInv, Busy, DriverType
    <2>3. FreeInv'
      <3>1. \A b : Submitting(b) => Submitting(b)'
        BY DEF Submitting, ThreadType
      <3> QED
        BY <3>1 DEF FreeInv, Busy, Free
    <2>4. ArgInv'
      BY DEF ArgInv, ThreadType, SingleThread
    <2>5. HandInv'
      BY DEF HandInv, Busy, ThreadType, DriverType, SingleThread
    <2>6. SyncInv'
      <3>1. \A s \in Threads : s = t
        BY DEF SingleThread
      <3>2. /\ pc[t] = "sync" /\ arg[t] \in Nat
            /\ arg'[t] = arg[t] \/ (Free(arg[t]) /\ arg'[t] = arg[t] + 1)
        <4>1. arg[t] \in Nat
          BY DEF ThreadType
        <4>2. arg' = arg \/ (Free(arg[t]) /\ arg' = [arg EXCEPT ![t] = arg[t] + 1])
          OBVIOUS
        <4> QED
          BY <4>1, <4>2 DEF ThreadType
      <3>3. ASSUME "timeout" \notin Faults, NEW b \in Buffers, b < arg'[t] PROVE Free(b)
        <4>1. b < arg[t] => Free(b)
          BY <3>2, <3>3 DEF SyncInv
        <4> QED
          BY <3>2, <3>3, <4>1
      <3>4. \A b : Free(b)' <=> Free(b)
        BY DEF Free
      <3> QED
        BY <3>1, <3>3, <3>4 DEF SyncInv
    <2>7. NoSpuriousError'
      BY DEF NoSpuriousError, DriverType
    <2> QED
      BY <2>1, <2>2, <2>3, <2>4, <2>5, <2>6, <2>7 DEF OwnerInv
  <1>10. ASSUME NEW t \in Threads, SyncReturn(t) PROVE OwnerInv'
    <2> USE <1>10 DEF SyncReturn, app, driver, engine
    <2>1. EngineInv'
      BY DEF EngineInv, EngineType, DriverType
    <2>2. DoneInv'
      BY DEF DoneInv, Busy, DriverType
    <2>3. FreeInv'
      BY DEF FreeInv, Busy, Free, Submitting, DriverType, ThreadType
    <2>4. ArgInv'
      BY DEF ArgInv, ThreadType
    <2>5. HandInv'
      BY DEF HandInv, Busy, ThreadType, DriverType
    <2>6. SyncInv'
      BY DEF SyncInv, ArgInv, Free, ThreadType, DriverType
    <2>7. NoSpuriousError'
      BY DEF NoSpuriousError, DriverType
    <2> QED
      BY <2>1, <2>2, <2>3, <2>4, <2>5, <2>6, <2>7 DEF OwnerInv
  <1>11. ASSUME NEW t \in Threads, StartTransfer(t) PROVE OwnerInv'
    <2> USE <1>11 DEF StartTransfer, app, InitCompletion
    <2>1. EngineInv'
      BY DEF EngineInv, EngineType, DriverType, HandInv, Busy
    <2>2. DoneInv'
      BY DEF DoneInv, Busy, DriverType
    <2>3. FreeInv'
      <3>1. Submitting(bdindex)'
        BY DEF Submitting, ThreadType
      <3>2. ASSUME NEW b \in Buffers, b # bdindex
            PROVE  (Busy(b)' => Busy(b)) /\ (Submitting(b) => Submitting(b)')
        BY <3>2 DEF Busy, Submitting, ThreadType
      <3> QED
        BY <3>1, <3>2 DEF FreeInv, Free
    <2>4. ArgInv'
      BY DEF ArgInv, ThreadType, SingleThread
    <2>5. HandInv'
      <3>1. \A s \in Threads : s = t
        BY DEF SingleThread
      <3>2. pc'[t] = "submitted" /\ held'[t] = NoBuffer
        BY DEF HandInv, ThreadType
      <3> QED
        BY <3>1, <3>2 DEF HandInv
    <2>6. SyncInv'
      BY DEF SyncInv, ArgInv, Free, ThreadType, DriverType
    <2>7. NoSpuriousError'
      BY DEF NoSpuriousError, DriverType
    <2> QED
      BY <2>1, <2>2, <2>3, <2>4, <2>5, <2>6, <2>7 DEF OwnerInv
  <1>12. ASSUME NEW t \in Threads, StartFails(t) PROVE OwnerInv'
    <2> USE <1>12 DEF StartFails, app, engine, AfterStart, InitCompletion
    <2>1. EngineInv'
      BY DEF EngineInv, EngineType, DriverType, HandInv, Busy
    <2>2. DoneInv'
      <3>1. CASE UNCHANGED <<done, cookie>>
        BY <3>1 DEF DoneInv, Busy
      <3>2. CASE done' = [done EXCEPT ![bdindex] = 0] /\ cookie' = [cookie EXCEPT ![bdindex] = 0]
        BY <3>2 DEF DoneInv, Busy, DriverType
      <3> QED
        BY <3>1, <3>2
    <2>3. FreeInv'
      BY DEF FreeInv, Busy, Free, Submitting, DriverType, ThreadType
    <2>4. ArgInv'
      BY DEF ArgInv, ThreadType
    <2>5. HandInv'
      <3>1. \A s \in Threads : s = t
        BY DEF SingleThread
      <3>2. pc'[t] \in {"finish", "user"} /\ held'[t] = NoBuffer
        BY DEF HandInv, ThreadType
      <3> QED
        BY <3>1, <3>2 DEF HandInv
    <2>6. SyncInv'
      BY DEF SyncInv, ArgInv, Free, ThreadType, DriverType
    <2>7. NoSpuriousError'
      BY DEF NoSpuriousError, DriverType
    <2> QED
      BY <2>1, <2>2, <2>3, <2>4, <2>5, <2>6, <2>7 DEF OwnerInv
  <1>13. ASSUME NEW t \in Threads, IssuePending(t) PROVE OwnerInv'
    <2> USE <1>13 DEF IssuePending, app, AfterStart
    <2>1. EngineInv'
      BY DEF EngineInv, EngineType, DriverType
    <2>2. DoneInv'
      BY DEF DoneInv, Busy, DriverType
    <2>3. FreeInv'
      BY DEF FreeInv, Busy, Free, Submitting, DriverType, ThreadType
    <2>4. ArgInv'
      BY DEF ArgInv, ThreadType
    <2>5. HandInv'
      <3>1. \A s \in Threads : s = t
        BY DEF SingleThread
      <3>2. pc'[t] \in {"finish", "user"} /\ held'[t] = held[t]
        BY DEF ThreadType
      <3> QED
        BY <3>1, <3>2 DEF HandInv, Busy
    <2>6. SyncInv'
      BY DEF SyncInv, ArgInv, Free, ThreadType, DriverType, SingleThread
    <2>7. NoSpuriousError'
      BY DEF NoSpuriousError, DriverType
    <2> QED
      BY <2>1, <2>2, <2>3, <2>4, <2>5, <2>6, <2>7 DEF OwnerInv
  <1>14. ASSUME NEW t \in Threads, WaitBegin(t) PROVE OwnerInv'
    <2> USE <1>14 DEF WaitBegin, app, engine
    <2>1. EngineInv'
      BY DEF EngineInv, EngineType, DriverType
    <2>2. DoneInv'
      BY DEF DoneInv, Busy, DriverType
    <2>3. FreeInv'
      BY DEF FreeInv, Busy, Free, Submitting, DriverType, ThreadType
    <2>4. ArgInv'
      BY DEF ArgInv, ThreadType
    <2>5. HandInv'
      <3>1. \A s \in Threads : s = t
        BY DEF SingleThread
      <3>2. pc'[t] = "waiting" /\ held'[t] = held[t]
        BY DEF ThreadType
      <3> QED
        BY <3>1, <3>2 DEF HandInv, Busy
    <2>6. SyncInv'
      BY DEF SyncInv, ArgInv, Free, ThreadType, DriverType, SingleThread
    <2>7. NoSpuriousError'
      BY DEF NoSpuriousError, DriverType
    <2> QED
      BY <2>1, <2>2, <2>3, <2>4, <2>5, <2>6, <2>7 DEF OwnerInv
  <1>15. ASSUME NEW t \in Threads, WaitReturn(t) PROVE OwnerInv'
    <2> USE <1>15 DEF WaitReturn, app, engine, WithoutCompletion
    <2>1. EngineInv'
      BY DEF EngineInv, EngineType, DriverType
    <2>2. DoneInv'
      BY DEF DoneInv, Busy, DriverType
    <2>3. FreeInv'
      BY DEF FreeInv, Busy, Free, Submitting, DriverType, ThreadType
    <2>4. ArgInv'
      BY DEF ArgInv, ThreadType
    <2>5. HandInv'
      BY DEF HandInv, Busy, ThreadType, DriverType, DoneInv
    <2>6. SyncInv'
      BY DEF SyncInv, ArgInv, Free, ThreadType, DriverType, Locals
    <2>7. NoSpuriousError'
      BY DEF NoSpuriousError, DriverType
    <2> QED
      BY <2>1, <2>2, <2>3, <2>4, <2>5, <2>6, <2>7 DEF OwnerInv
  <1>16. ASSUME NEW t \in Threads, WaitCheck(t) PROVE OwnerInv'
    <2> USE <1>16 DEF WaitCheck, app, driver, engine
    <2>1. EngineInv'
      BY DEF EngineInv, EngineType, DriverType
    <2>2. DoneInv'
      BY DEF DoneInv, Busy, DriverType
    <2>3. FreeInv'
      BY DEF FreeInv, Busy, Free, Submitting, DriverType, ThreadType
    <2>4. ArgInv'
      BY DEF ArgInv, ThreadType
    <2>5. HandInv'
      <3>1. \A s \in Threads : s = t
        BY DEF SingleThread
      <3>2. pc'[t] = "checked" /\ pc[t] = "woken" /\ held'[t] = held[t]
        BY DEF ThreadType
      <3>3. res[t] = "ok" \/ res[t] = "timeout"
        BY DEF Locals, WithoutCompletion
      <3>4. \A b : Busy(b)' <=> Busy(b)
        BY DEF Busy
      <3>5. res'[t] # "error" /\ (res'[t] = "complete" => ~Busy(bd[t]))
        BY <3>3 DEF HandInv, ThreadType
      <3> QED
        BY <3>1, <3>2, <3>4, <3>5 DEF HandInv
    <2>6. SyncInv'
      BY DEF SyncInv, ArgInv, Free, ThreadType, DriverType
    <2>7. NoSpuriousError'
      BY DEF NoSpuriousError, DriverType
    <2> QED
      BY <2>1, <2>2, <2>3, <2>4, <2>5, <2>6, <2>7 DEF OwnerInv
  <1>17. ASSUME NEW t \in Threads, WaitStore(t) PROVE OwnerInv'
    <2> USE <1>17 DEF WaitStore, app, engine, ProxyStatus
    <2>1. EngineInv'
      BY DEF EngineInv, EngineType, DriverType
    <2>2. DoneInv'
      BY DEF DoneInv, Busy, DriverType
    <2>3. FreeInv'
      <3>1. status'[bd[t]] = "no_error" => ~Busy(bd[t])
        BY DEF DriverType, ThreadType, HandInv, Locals
      <3>2. \A b \in Buffers : b # bd[t] => status'[b] = status[b]
        BY DEF DriverType
      <3>3. \A b : Submitting(b) => Submitting(b)'
        BY DEF Submitting, ThreadType
      <3>4. \A b : Busy(b)' <=> Busy(b)
        BY DEF Busy
      <3> QED
        BY <3>1, <3>2, <3>3, <3>4 DEF FreeInv, Free
    <2>4. ArgInv'
      BY DEF ArgInv, ThreadType
    <2>5. HandInv'
      BY DEF HandInv, Busy, ThreadType, DriverType, ArgInv, Locals, NoSpuriousError
    <2>6. SyncInv'
      <3> SUFFICES ASSUME "timeout" \notin Faults, NEW s \in Threads, pc'[s] = "sync",
                          NEW b \in Buffers, b < arg'[s]
                   PROVE  Free(b)'
        BY DEF SyncInv, ThreadType, SingleThread
      <3>1. s = t /\ call[t] = "sync" /\ bd[t] = arg[t]
        BY DEF SingleThread, ThreadType, ArgInv
      <3>2. arg[t] \in Nat /\ arg'[t] = arg[t] + 1
        BY <3>1 DEF ThreadType
      <3>3. CASE b = arg[t]
        <4>1. res[t] = "complete"
          BY DEF HandInv, Locals
        <4> QED
          BY <3>1, <3>3, <4>1 DEF Free, DriverType
      <3>4. CASE b < arg[t]
        <4>1. Free(b)
          BY <3>1, <3>4 DEF SyncInv
        <4> QED
          BY <3>1, <3>4, <4>1 DEF Free, DriverType
      <3> QED
        BY <3>1, <3>2, <3>3, <3>4
    <2>7. NoSpuriousError'
      BY DEF NoSpuriousError, DriverType, HandInv, ThreadType, Locals
    <2> QED
      BY <2>1, <2>2, <2>3, <2>4, <2>5, <2>6, <2>7 DEF OwnerInv
  <1>18. CASE Complete
    <2> USE DEF app, driver, thread
    <2>8. PICK x \in queued : Complete!(x)
      BY <1>18 DEF Complete
    <2>9. \A y \in queued \cup finished : y.buf \in Buffers /\ y.cookie \in Nat
      BY DEF EngineType
    <2>10. /\ completed \in Nat /\ completed' \in Nat
           /\ completed < completed' /\ completed' = x.cookie
      BY <2>8, <2>9 DEF EngineInv, EngineType
    <2>11. \A b : Busy(b)' <=> Busy(b)
      BY <2>8 DEF Busy
    <2>12. UNCHANGED <<handle, cur, bdindex, status, done, cookie, waitCount, last,
                       pc, call, arg, bd, res, held>>
      BY <2>8
    <2>1. EngineInv'
      <3>1. \A y \in queued' : y \in queued /\ completed' < y.cookie
        BY <2>8, <2>9 DEF EngineInv
      <3>2. \A y \in finished' : y.cookie <= completed'
        BY <2>8, <2>9, <2>10 DEF EngineInv
      <3>3. queued' \cup finished' = queued \cup finished
        BY <2>8
      <3>4. completed' <= last'
        BY <2>8, <2>10 DEF EngineInv
      <3> QED
        BY <2>12, <3>1, <3>2, <3>3, <3>4 DEF EngineInv
    <2>2. DoneInv'
      <3>1. ASSUME NEW b \in Buffers, cookie[b] <= completed PROVE cookie[b] <= completed'
        BY <2>10, <3>1 DEF DriverType
      <3> QED
        BY <2>12, <2>11, <3>1 DEF DoneInv
    <2>3. FreeInv'
      BY <2>12, <2>11 DEF FreeInv, Free, Submitting
    <2>4. ArgInv'
      BY <2>12 DEF ArgInv
    <2>5. HandInv'
      <3>1. ASSUME NEW t \in Threads, cookie[bd[t]] <= completed PROVE cookie[bd[t]] <= completed'
        <4>1. cookie[bd[t]] \in Nat
          BY DEF ThreadType, DriverType
        <4> QED
          BY <2>10, <3>1, <4>1
      <3> QED
        BY <2>12, <2>11, <3>1 DEF HandInv
    <2>6. SyncInv'
      BY <2>12 DEF SyncInv, ArgInv, Free, ThreadType, DriverType
    <2>7. NoSpuriousError'
      BY <2>12 DEF NoSpuriousError, DriverType
    <2> QED
      BY <2>1, <2>2, <2>3, <2>4, <2>5, <2>6, <2>7 DEF OwnerInv
  <1>19. CASE Callback
    <2> USE <1>19 DEF Callback, app, thread
    <2>1. EngineInv'
      BY DEF EngineInv, EngineType, DriverType
    <2>2. DoneInv'
      BY DEF DoneInv, Busy, DriverType, EngineInv, EngineType
    <2>3. FreeInv'
      BY DEF FreeInv, Busy, Free, Submitting, DriverType, ThreadType
    <2>4. ArgInv'
      BY DEF ArgInv, ThreadType
    <2>5. HandInv'
      BY DEF HandInv, Busy, ThreadType, DriverType
    <2>6. SyncInv'
      BY DEF SyncInv, ArgInv, Free, ThreadType, DriverType
    <2>7. NoSpuriousError'
      BY DEF NoSpuriousError, DriverType
    <2> QED
      BY <2>1, <2>2, <2>3, <2>4, <2>5, <2>6, <2>7 DEF OwnerInv
  <1>20. CASE Packet
    <2> USE <1>20 DEF Packet, app, driver, engine, thread
    <2>1. EngineInv'
      BY DEF EngineInv, EngineType, DriverType
    <2>2. DoneInv'
      BY DEF DoneInv, Busy, DriverType
    <2>3. FreeInv'
      BY DEF FreeInv, Busy, Free, Submitting, DriverType, ThreadType
    <2>4. ArgInv'
      BY DEF ArgInv, ThreadType
    <2>5. HandInv'
      BY DEF HandInv, Busy, ThreadType, DriverType
    <2>6. SyncInv'
      BY DEF SyncInv, ArgInv, Free, ThreadType, DriverType
    <2>7. NoSpuriousError'
      BY DEF NoSpuriousError, DriverType
    <2> QED
      BY <2>1, <2>2, <2>3, <2>4, <2>5, <2>6, <2>7 DEF OwnerInv
  <1>21. CASE IrqHandler
    <2> USE <1>21 DEF IrqHandler, app, engine, thread
    <2>1. EngineInv'
      BY DEF EngineInv, EngineType, DriverType
    <2>2. DoneInv'
      BY DEF DoneInv, Busy, DriverType
    <2>3. FreeInv'
      BY DEF FreeInv, Busy, Free, Submitting, DriverType, ThreadType
    <2>4. ArgInv'
      BY DEF ArgInv, ThreadType
    <2>5. HandInv'
      BY DEF HandInv, Busy, ThreadType, DriverType
    <2>6. SyncInv'
      BY DEF SyncInv, ArgInv, Free, ThreadType, DriverType
    <2>7. NoSpuriousError'
      BY DEF NoSpuriousError, DriverType
    <2> QED
      BY <2>1, <2>2, <2>3, <2>4, <2>5, <2>6, <2>7 DEF OwnerInv
  <1>22. CASE UNCHANGED vars
    <2> USE <1>22 DEF vars, app, driver, engine, thread
    <2>1. EngineInv' /\ DoneInv' /\ FreeInv'
      BY DEF EngineInv, DoneInv, FreeInv, Busy, Free, Submitting
    <2>2. ArgInv' /\ HandInv' /\ SyncInv' /\ NoSpuriousError'
      BY DEF ArgInv, HandInv, SyncInv, Busy, Free, NoSpuriousError
    <2> QED
      BY <2>1, <2>2 DEF OwnerInv
  <1> QED
    BY <1>1, <1>2, <1>3, <1>4, <1>5, <1>6, <1>7, <1>8, <1>9, <1>10, <1>11, <1>12,
       <1>13, <1>14, <1>15, <1>16, <1>17, <1>18, <1>19, <1>20, <1>21, <1>22, <1>23
       DEF Next, ThreadStep

LEMMA OwnerInvariant ==
  ASSUME SingleThread, Faults \cap {"signal", "latecallback", "foreignopen"} = {}
  PROVE  Spec => []OwnerInv
  <1>1. OwnerInv /\ [Next]_vars => OwnerInv'
    BY OwnerStep
  <1> QED
    BY <1>1, OwnerInit, PTL DEF Spec

(***************************************************************************)
(* Zero copy is safe for every ring size: what io_stream_get_buffer hands  *)
(* out is not in flight, even after waits that expired while the transfer  *)
(* was under way and after descriptors the engine refused.                 *)
(***************************************************************************)
THEOREM OwnershipHolds ==
  ASSUME SingleThread, Faults \cap {"signal", "latecallback", "foreignopen"} = {}
  PROVE  Spec => []Ownership
  <1>1. OwnerInv => Ownership
    BY DEF OwnerInv, HandInv, Ownership, Busy, InFlight
  <1> QED
    BY <1>1, OwnerInvariant, PTL

(***************************************************************************)
(* Under the same conditions wait_for_transfer never stores PROXY_ERROR.   *)
(***************************************************************************)
THEOREM NoSpuriousErrorHolds ==
  ASSUME SingleThread, Faults \cap {"signal", "latecallback", "foreignopen"} = {}
  PROVE  Spec => []NoSpuriousError
  <1>1. OwnerInv => NoSpuriousError
    BY DEF OwnerInv
  <1> QED
    BY <1>1, OwnerInvariant, PTL

(***************************************************************************)
(* io_sync_stream_device returns with every buffer free and an idle engine *)
(* if, besides, no wait expires.                                           *)
(***************************************************************************)
THEOREM SyncCompleteHolds ==
  ASSUME SingleThread,
         Faults \cap {"timeout", "signal", "latecallback", "foreignopen"} = {}
  PROVE  Spec => []SyncComplete
  <1>0. Faults \cap {"signal", "latecallback", "foreignopen"} = {}
    OBVIOUS
  <1>1. OwnerInv => SyncComplete
    <2> SUFFICES ASSUME OwnerInv, NEW t \in Threads, pc[t] = "sync", arg[t] = BufferCount
                 PROVE  queued = {} /\ \A b \in Buffers : Free(b)
      BY DEF SyncComplete
    <2>1. \A b \in Buffers : Free(b)
      BY BufferCountAssumption DEF OwnerInv, SyncInv
    <2>2. handle = "open" /\ \A b \in Buffers : ~Submitting(b)
      BY DEF OwnerInv, ArgInv, Submitting, SingleThread
    <2>3. \A b \in Buffers : ~Busy(b)
      BY <2>1, <2>2 DEF OwnerInv, FreeInv
    <2>4. \A x \in queued : x.buf \in Buffers
      BY DEF OwnerInv, TypeInv, TypeOK, EngineType
    <2> QED
      BY <2>1, <2>3, <2>4 DEF Busy
  <1>2. Spec => []OwnerInv
    BY <1>0, OwnerInvariant
  <1> QED
    BY <1>1, <1>2, PTL
=============================================================================
