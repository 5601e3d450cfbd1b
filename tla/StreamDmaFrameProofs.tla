------------------------ MODULE StreamDmaFrameProofs ------------------------
(***************************************************************************)
(* What crosses a channel of StreamDma: proofs that only merged interrupts *)
(* leave a packet without a credit, and that the channel implements        *)
(* FrameStream.                                                            *)
(***************************************************************************)
EXTENDS StreamDmaProofs, FiniteSetTheorems

USE DEF Buffers, NoBuffer, NoCookie, Statuses, Descriptors

(***************************************************************************)
(* Credits.  wait_for_transfer spends a credit after it has consumed a     *)
(* completion, so a packet that crossed the stream stays owed a credit     *)
(* until the wait for its buffer has stored its status.                    *)
(***************************************************************************)

\* The thread has consumed a completion and not yet stored the status.
HasWoken(t) ==
    \/ pc[t] = "woken" /\ res[t] = "ok"
    \/ pc[t] = "checked" /\ res[t] = "complete"

\* The buffers with a completion that will spend, but has not spent, a credit.
Owed == {b \in Buffers : \/ done[b] > 0
                         \/ \E x \in finished : x.buf = b
                         \/ \E t \in Threads : bd[t] = b /\ HasWoken(t)}

\* One completion at a time: it waits in the table or its thread has it.
OnceInv ==
    /\ \A b \in Buffers : done[b] <= 1
    /\ \A t \in Threads : HasWoken(t) => done[bd[t]] = 0

Covered ==
    IF Dir = "rx" THEN avail + Cardinality(Owed) <= waitCount + irqs + merged
    ELSE avail = 0

CreditInv == OwnerInv /\ OnceInv /\ Covered

LEMMA OwedFinite == IsFiniteSet(Owed) /\ Cardinality(Owed) \in Nat
  <1>1. IsFiniteSet(Buffers)
    BY FS_Interval, BufferCountAssumption
  <1>2. Owed \in SUBSET Buffers
    BY DEF Owed
  <1>3. IsFiniteSet(Owed)
    BY <1>1, <1>2, FS_Subset
  <1> QED
    BY <1>3, FS_CardinalityType

\* A step that moves no packet and spends nothing may only settle what is owed.
LEMMA CoveredKept ==
  ASSUME PlType, DriverType, Covered, UNCHANGED <<waitCount, avail, irqs, merged>>,
         Owed' \subseteq Owed
  PROVE  Covered'
  <1>1. Cardinality(Owed') <= Cardinality(Owed)
    BY OwedFinite, FS_Subset
  <1>2. Owed' \in SUBSET Owed
    OBVIOUS
  <1>3. IsFiniteSet(Owed') /\ Cardinality(Owed') \in Nat
    BY <1>2, OwedFinite, FS_Subset, FS_CardinalityType
  <1>4. Dir = "rx" => avail + Cardinality(Owed') <= waitCount + irqs + merged
    BY <1>1, <1>3, OwedFinite DEF Covered, PlType, DriverType
  <1>5. CASE Dir = "rx"
    BY <1>4, <1>5 DEF Covered
  <1>6. CASE Dir # "rx"
    BY <1>6 DEF Covered
  <1> QED
    BY <1>5, <1>6

LEMMA CreditStep ==
  ASSUME SingleThread, Faults \cap {"signal", "latecallback", "foreignopen"} = {},
         CreditInv, [Next]_vars
  PROVE  OnceInv' /\ Covered'
  <1>0. /\ DriverType /\ EngineType /\ PlType /\ ThreadType /\ Locals
        /\ EngineInv /\ DoneInv /\ HandInv /\ OnceInv /\ Covered
    BY DEF CreditInv, OwnerInv, TypeInv, TypeOK
  <1>00. \A s, t \in Threads : s = t
    BY DEF SingleThread
  <1> USE <1>0 DEF Goto
  <1>a. ASSUME UNCHANGED <<done, finished, bd, waitCount, avail, irqs, merged>>,
               \A t \in Threads : HasWoken(t)' => HasWoken(t)
        PROVE  OnceInv' /\ Covered'
    <2>1. Owed' \subseteq Owed
      BY <1>a DEF Owed
    <2>2. OnceInv'
      BY <1>a DEF OnceInv
    <2> QED
      BY <1>a, <2>1, <2>2, CoveredKept
  <1>1. CASE Open
    BY <1>1, <1>a DEF Open, LocalOpen, thread, HasWoken
  <1>2. CASE ForeignOpen
    BY <1>2 DEF ForeignOpen
  <1>23. CASE ForeignClose
    BY <1>23 DEF ForeignClose
  <1>3. CASE Close
    BY <1>3, <1>a DEF Close, driver, engine, plside, HasWoken
  <1>4. CASE Release
    BY <1>4, <1>a DEF Release, engine, plside, HasWoken
  <1>5. ASSUME NEW t \in Threads, GetBuffer(t) PROVE OnceInv' /\ Covered'
    <2>1. pc'[t] \in {"finish", "return"}
      BY <1>5 DEF GetBuffer, ThreadType
    <2> QED
      BY <1>00, <1>5, <1>a, <2>1 DEF GetBuffer, engine, plside, HasWoken
  <1>6. ASSUME NEW t \in Threads, Submit(t) PROVE OnceInv' /\ Covered'
    <2>1. pc'[t] = "start"
      BY <1>6 DEF Submit, ThreadType
    <2> QED
      BY <1>00, <1>6, <1>a, <2>1 DEF Submit, engine, HasWoken
  <1>7. ASSUME NEW t \in Threads, Sync(t) PROVE OnceInv' /\ Covered'
    <2>1. pc'[t] = "sync"
      BY <1>7 DEF Sync, ThreadType
    <2> QED
      BY <1>00, <1>7, <1>a, <2>1 DEF Sync, driver, engine, plside, HasWoken
  <1>8. ASSUME NEW t \in Threads, GetReturn(t) PROVE OnceInv' /\ Covered'
    <2>1. pc'[t] = "user"
      BY <1>8 DEF GetReturn, ThreadType
    <2> QED
      BY <1>00, <1>8, <1>a, <2>1 DEF GetReturn, driver, engine, HasWoken
  <1>9. ASSUME NEW t \in Threads, SyncNext(t) PROVE OnceInv' /\ Covered'
    <2>1. pc'[t] \in {"finish", "sync"}
      BY <1>9 DEF SyncNext, ThreadType
    <2> QED
      BY <1>00, <1>9, <1>a, <2>1 DEF SyncNext, engine, plside, HasWoken
  <1>10. ASSUME NEW t \in Threads, SyncReturn(t) PROVE OnceInv' /\ Covered'
    <2>1. pc'[t] = "user"
      BY <1>10 DEF SyncReturn, ThreadType
    <2> QED
      BY <1>00, <1>10, <1>a, <2>1 DEF SyncReturn, driver, engine, plside, HasWoken
  <1>11. ASSUME NEW t \in Threads, StartTransfer(t) PROVE OnceInv' /\ Covered'
    <2> USE <1>11 DEF StartTransfer, InitCompletion
    <2>1. pc'[t] = "submitted"
      BY DEF ThreadType
    <2>2. \A s \in Threads : ~HasWoken(s)'
      BY <1>00, <2>1 DEF HasWoken
    <2>3. \A b \in Buffers : done'[b] \in {done[b], 0}
      BY DEF DriverType
    <2>4. OnceInv'
      BY <2>2, <2>3 DEF OnceInv
    <2>5. Owed' \subseteq Owed
      BY <2>2, <2>3 DEF Owed
    <2> QED
      BY <2>4, <2>5, CoveredKept DEF plside
  <1>12. ASSUME NEW t \in Threads, StartFails(t) PROVE OnceInv' /\ Covered'
    <2> USE <1>12 DEF StartFails, InitCompletion, AfterStart
    <2>1. pc'[t] \in {"finish", "user"}
      BY DEF ThreadType
    <2>2. \A s \in Threads : ~HasWoken(s)'
      BY <1>00, <2>1 DEF HasWoken
    <2>3. \A b \in Buffers : done'[b] \in {done[b], 0}
      BY DEF DriverType
    <2>4. OnceInv'
      BY <2>2, <2>3 DEF OnceInv
    <2>5. Owed' \subseteq Owed
      BY <2>2, <2>3 DEF Owed, engine
    <2> QED
      BY <2>4, <2>5, CoveredKept
  <1>13. ASSUME NEW t \in Threads, IssuePending(t) PROVE OnceInv' /\ Covered'
    <2>1. pc'[t] \in {"finish", "user"}
      BY <1>13 DEF IssuePending, AfterStart, ThreadType
    <2> QED
      BY <1>00, <1>13, <1>a, <2>1 DEF IssuePending, plside, HasWoken
  <1>14. ASSUME NEW t \in Threads, WaitBegin(t) PROVE OnceInv' /\ Covered'
    <2> USE <1>14 DEF WaitBegin
    <2>1. pc'[t] = "waiting"
      BY DEF ThreadType
    <2>2. \A s \in Threads : ~HasWoken(s)'
      BY <1>00, <2>1 DEF HasWoken
    <2>3. OnceInv'
      BY <2>2 DEF OnceInv
    <2>4. Owed' \subseteq Owed
      BY <2>2 DEF Owed, engine
    <2> QED
      BY <2>3, <2>4, CoveredKept DEF plside
  <1>15. ASSUME NEW t \in Threads, WaitReturn(t) PROVE OnceInv' /\ Covered'
    <2> USE <1>15 DEF WaitReturn
    <2>1. bd[t] \in Buffers /\ done[bd[t]] \in Nat /\ done[bd[t]] <= 1 /\ pc'[t] = "woken"
      BY DEF ThreadType, DriverType, OnceInv
    <2>2. CASE done[bd[t]] > 0
      <3>1. /\ res'[t] = "ok"
            /\ done' = [done EXCEPT ![bd[t]] = 0]
        BY <2>1, <2>2 DEF ThreadType
      <3>2. OnceInv'
        BY <1>00, <3>1, <2>1 DEF OnceInv, DriverType
      <3>3. Owed' \subseteq Owed
        BY <1>00, <3>1, <2>1, <2>2 DEF Owed, engine, DriverType
      <3> QED
        BY <3>2, <3>3, CoveredKept DEF plside
    <2>3. CASE ~(done[bd[t]] > 0)
      <3>1. done' = done /\ res'[t] # "ok"
        BY <2>3 DEF ThreadType, WithoutCompletion
      <3>2. \A s \in Threads : ~HasWoken(s)'
        BY <1>00, <2>1, <3>1 DEF HasWoken
      <3> QED
        BY <1>a, <3>1, <3>2 DEF engine, plside
    <2> QED
      BY <2>2, <2>3
  <1>16. ASSUME NEW t \in Threads, WaitCheck(t) PROVE OnceInv' /\ Covered'
    <2>1. pc[t] = "woken" /\ pc'[t] = "checked" /\ (res'[t] = "complete" => res[t] # "timeout")
      BY <1>16 DEF WaitCheck, ThreadType
    <2>2. res[t] \in {"ok", "timeout"}
      BY <2>1 DEF Locals, WithoutCompletion
    <2>3. HasWoken(t)' => HasWoken(t)
      BY <2>1, <2>2 DEF HasWoken
    <2> QED
      BY <1>00, <1>16, <1>a, <2>3 DEF WaitCheck, driver, engine, plside
  <1>17. ASSUME NEW t \in Threads, WaitStore(t) PROVE OnceInv' /\ Covered'
    <2> USE <1>17 DEF WaitStore
    <2>1. pc[t] = "checked" /\ pc'[t] \in {"return", "sync", "user"} /\ bd[t] \in Buffers
      BY DEF ThreadType
    <2>2. \A s \in Threads : ~HasWoken(s)'
      BY <1>00, <2>1 DEF HasWoken
    <2>3. OnceInv'
      BY <2>2 DEF OnceInv
    <2>4. Owed' \subseteq Owed
      BY <2>2 DEF Owed, engine
    <2>5. CASE res[t] # "complete"
      <3>1. waitCount' = waitCount
        BY <2>5 DEF SpendCredit
      <3> QED
        BY <2>3, <2>4, <3>1, CoveredKept DEF plside
    <2>6. CASE res[t] = "complete"
      <3>1. HasWoken(t) /\ bd[t] \in Owed
        BY <2>1, <2>6 DEF HasWoken, Owed
      <3>2. bd[t] \notin Owed'
        BY <2>1, <2>2, <2>6, <3>1 DEF Owed, OnceInv, HandInv, Busy, engine
      <3>3. Owed' \in SUBSET (Owed \ {bd[t]})
        BY <2>4, <3>2
      <3>4. /\ IsFiniteSet(Owed \ {bd[t]})
            /\ Cardinality(Owed \ {bd[t]}) = Cardinality(Owed) - 1
        BY <3>1, OwedFinite, FS_RemoveElement
      <3>5. Cardinality(Owed') <= Cardinality(Owed) - 1
        BY <3>3, <3>4, FS_Subset
      <3>6. Cardinality(Owed') \in Nat
        BY <3>3, <3>4, FS_Subset, FS_CardinalityType
      <3>7. /\ waitCount' \in Nat /\ waitCount' >= waitCount - 1
            /\ UNCHANGED <<avail, irqs, merged>>
        BY DEF SpendCredit, plside, DriverType
      <3>8. /\ waitCount \in Nat /\ avail \in Nat /\ irqs \in Nat /\ merged \in Nat
            /\ Dir = "rx" => avail + Cardinality(Owed) <= waitCount + irqs + merged
        BY DEF Covered, DriverType, PlType
      <3>9. Dir = "rx" => avail + Cardinality(Owed') <= waitCount' + irqs + merged
        BY <3>5, <3>6, <3>7, <3>8, OwedFinite
      <3> QED
        BY <2>3, <3>7, <3>8, <3>9 DEF Covered
    <2> QED
      BY <2>5, <2>6
  <1>18. CASE Complete
    <2>1. PICK x \in queued : Complete!(x)
      BY <1>18 DEF Complete
    <2>2. UNCHANGED <<done, bd, waitCount, irqs, merged>> /\ \A s : HasWoken(s)' <=> HasWoken(s)
      BY <2>1 DEF driver, thread, HasWoken
    <2>3. OnceInv'
      BY <2>2 DEF OnceInv
    <2>4. Owed' \in SUBSET (Owed \cup {x.buf})
      BY <2>1, <2>2 DEF Owed
    <2>5. /\ IsFiniteSet(Owed \cup {x.buf})
          /\ Cardinality(Owed \cup {x.buf}) <= Cardinality(Owed) + 1
          /\ Cardinality(Owed \cup {x.buf}) \in Nat
      <3>1. /\ IsFiniteSet(Owed \cup {x.buf})
            /\ Cardinality(Owed \cup {x.buf})
                  = IF x.buf \in Owed THEN Cardinality(Owed) ELSE Cardinality(Owed) + 1
        BY OwedFinite, FS_AddElement
      <3> QED
        BY <3>1, OwedFinite
    <2>6. /\ Cardinality(Owed') <= Cardinality(Owed \cup {x.buf})
          /\ Cardinality(Owed') \in Nat
      BY <2>4, <2>5, FS_Subset, FS_CardinalityType
    <2>7. CASE Dir = "rx"
      <3>1. avail' = avail - 1
        BY <2>1, <2>7
      <3>2. avail' + Cardinality(Owed') <= waitCount' + irqs' + merged'
        BY <2>2, <2>5, <2>6, <2>7, <3>1, OwedFinite DEF Covered, DriverType, PlType
      <3> QED
        BY <2>3, <2>7, <3>2 DEF Covered
    <2>8. CASE Dir # "rx"
      BY <2>1, <2>3, <2>8 DEF Covered
    <2> QED
      BY <2>7, <2>8
  <1>19. CASE Callback
    <2>1. PICK x \in finished : Callback!(x)
      BY <1>19 DEF Callback
    <2>2. x.buf \in Buffers /\ Busy(x.buf)
      BY DEF EngineType, Busy
    <2>3. done[x.buf] = 0
      BY <2>2 DEF DoneInv, DriverType
    <2>4. done' = [done EXCEPT ![x.buf] = 1]
      BY <2>1, <2>2, <2>3
    <2>5. UNCHANGED <<bd, waitCount, avail, irqs, merged>> /\ \A s : HasWoken(s)' <=> HasWoken(s)
      BY <2>1 DEF thread, plside, HasWoken
    <2>6. \A s \in Threads : HasWoken(s) => bd[s] # x.buf
      BY <2>2 DEF HasWoken, HandInv
    <2>7. \A s \in Threads : bd[s] \in Buffers
      BY DEF ThreadType
    <2>8. OnceInv'
      BY <2>4, <2>5, <2>6, <2>7 DEF OnceInv, DriverType
    <2>9. Owed' \subseteq Owed
      BY <2>1, <2>2, <2>4, <2>5 DEF Owed, DriverType
    <2> QED
      BY <2>5, <2>8, <2>9, CoveredKept
  <1>20. CASE Packet
    <2>1. UNCHANGED <<done, finished, bd, waitCount>> /\ \A s : HasWoken(s)' <=> HasWoken(s)
      BY <1>20 DEF Packet, driver, engine, thread, HasWoken
    <2>2. OnceInv' /\ Owed' = Owed
      BY <2>1 DEF OnceInv, Owed
    <2>3. avail' + Cardinality(Owed) <= waitCount' + irqs' + merged'
      BY <1>20, <2>1, OwedFinite DEF Packet, Covered, PlType, DriverType
    <2> QED
      BY <1>20, <2>2, <2>3 DEF Packet, Covered
  <1>21. CASE IrqHandler
    <2>1. UNCHANGED <<done, finished, bd, avail>> /\ \A s : HasWoken(s)' <=> HasWoken(s)
      BY <1>21 DEF IrqHandler, engine, thread, HasWoken
    <2>2. OnceInv' /\ Owed' = Owed
      BY <2>1 DEF OnceInv, Owed
    <2>3. Dir = "rx" => avail' + Cardinality(Owed) <= waitCount' + irqs' + merged'
      BY <1>21, <2>1, OwedFinite DEF IrqHandler, Covered, PlType, DriverType
    <2> QED
      BY <2>1, <2>2, <2>3 DEF Covered
  <1>22. CASE UNCHANGED vars
    BY <1>22, <1>a DEF vars, driver, engine, plside, thread, HasWoken
  <1> QED
    BY <1>1, <1>2, <1>3, <1>4, <1>5, <1>6, <1>7, <1>8, <1>9, <1>10, <1>11, <1>12,
       <1>13, <1>14, <1>15, <1>16, <1>17, <1>18, <1>19, <1>20, <1>21, <1>22, <1>23
       DEF Next, ThreadStep

(***************************************************************************)
(* Every packet that waits in the PL, or sits in a buffer that has not     *)
(* been finished, has a credit or a pending interrupt, but for one packet  *)
(* per merged edge: for every ring size and however many sessions left     *)
(* credits behind.  A credit is spent by wait_for_transfer only for a      *)
(* packet that crossed the stream.                                         *)
(***************************************************************************)
THEOREM CreditsSuffice ==
  ASSUME SingleThread, Faults \cap {"signal", "latecallback", "foreignopen"} = {}
  PROVE  Spec => []CreditsCoverPackets
  <1>1. Init => CreditInv
    <2> SUFFICES ASSUME Init PROVE OnceInv /\ Covered
      BY OwnerInit DEF CreditInv
    <2>1. OnceInv /\ Owed = {}
      BY DEF Init, OnceInv, Owed, HasWoken
    <2> QED
      BY <2>1, FS_EmptySet DEF Init, Covered
  <1>2. CreditInv /\ [Next]_vars => CreditInv'
    BY OwnerStep, CreditStep DEF CreditInv
  <1>3. CreditInv => CreditsCoverPackets
    <2> SUFFICES ASSUME CreditInv PROVE CreditsCoverPackets
      OBVIOUS
    <2>1. avail \in Nat /\ irqs \in Nat /\ waitCount \in Nat /\ merged \in Nat
      BY DEF CreditInv, OwnerInv, TypeInv, TypeOK, PlType, DriverType
    <2>2. Unfinished \in SUBSET Owed
      BY DEF Unfinished, Owed
    <2>3. Cardinality(Unfinished) <= Cardinality(Owed) /\ Cardinality(Unfinished) \in Nat
      BY <2>2, OwedFinite, FS_Subset, FS_CardinalityType
    <2> QED
      BY <2>1, <2>3, OwedFinite DEF CreditInv, Covered, CreditsCoverPackets
  <1> QED
    BY <1>1, <1>2, <1>3, PTL DEF Spec

-----------------------------------------------------------------------------
(***************************************************************************)
(* The refinement of FrameStream.  The frames on their way are those of a  *)
(* window of the session's numbers; each sits in a buffer of its own, and  *)
(* the order of the ring is the order of the numbers.                      *)
(***************************************************************************)

\* The ring read from current_buffer_id on: a comes before b.
Before(a, b) == IF (cur <= a) = (cur <= b) THEN a < b ELSE cur <= a

\* The buffer handed out, and the one being submitted, is the latest taken.
PosInv ==
    /\ \A t \in Threads :
          /\ held[t] # NoBuffer => handle = "open" /\ cur = NextId(held[t])
          /\ pc[t] = "start" => cur = NextId(bdindex)
          /\ pc[t] \in {"finish", "waiting", "woken", "checked", "return"} /\ call[t] = "get"
                => arg[t] = cur
          /\ pc[t] = "return" => call[t] = "get"

\* A frame is identified by its position, at both ends.
Numbered ==
    /\ \A k \in 1 .. Len(log) : log[k] = k
    /\ \A k \in 1 .. Len(wire) : wire[k] = k

\* The frames written that start_transfer has been given already.
Starting == \E t \in Threads : pc[t] = "start"
Sent == IF Starting THEN Len(log) - 1 ELSE Len(log)

\* A writer's frames that have not crossed are queued, in the order of cookies.
TxInv ==
    /\ Len(wire) <= Sent
    /\ \A x \in queued : /\ Len(wire) < data[x.buf] /\ data[x.buf] <= Sent
                         /\ data[x.buf] - x.cookie = Sent - last
    /\ \A n \in Len(wire) + 1 .. Sent : \E x \in queued : data[x.buf] = n
    /\ Starting => data[bdindex] = Len(log)
    /\ asked = {}

\* The buffer holds a frame the reader has not taken yet.
Fresh(b) == Len(log) < data[b]

\* A reader's frames that are not consumed are in buffers, in ring order ...
RxFrames ==
    /\ Len(log) <= Len(wire)
    /\ \A b \in Buffers : data[b] <= Len(wire)
    /\ \A n \in Len(log) + 1 .. Len(wire) : \E b \in Buffers : data[b] = n
    /\ \A a, b \in Buffers : Fresh(a) /\ Fresh(b) /\ a # b =>
           data[a] # data[b] /\ (data[a] < data[b] => Before(a, b))

\* ... and the buffers the engine will fill hold old frames and follow them.
RxEmpty ==
    /\ \A x \in queued : ~Fresh(x.buf)
    /\ \A a \in Buffers, x \in queued : Fresh(a) => Before(a, x.buf)
    /\ \A x, y \in queued : x.cookie < y.cookie => Before(x.buf, y.buf)
    /\ \A t \in Threads : held[t] # NoBuffer => ~Fresh(held[t])
    /\ Starting => ~Fresh(bdindex)

\* What the reader asked for is on its way, or in the buffer.
RxAsked ==
    \A b \in Buffers :
        b \in asked <=> InFlight(b) \/ Fresh(b) \/ (Starting /\ bdindex = b)

\* All this while no descriptor has been refused.
StreamInv ==
    /\ OwnerInv /\ PosInv
    /\ refused = 0 => /\ Numbered
                      /\ Dir = "tx" => TxInv
                      /\ Dir = "rx" => RxFrames /\ RxEmpty /\ RxAsked

-----------------------------------------------------------------------------
LEMMA RingNext ==
  ASSUME NEW b \in Buffers
  PROVE  NextId(b) = IF b + 1 = BufferCount THEN 0 ELSE b + 1
  BY BufferCountAssumption DEF NextId

\* The buffer taken last is the last of the ring.
LEMMA LatestIsLast ==
  ASSUME NEW b \in Buffers, cur = NextId(b), NEW a \in Buffers, a # b
  PROVE  Before(a, b)
  BY RingNext, BufferCountAssumption DEF Before

\* Taking the current buffer keeps the order of the others.
LEMMA AdvanceKeepsOrder ==
  ASSUME cur \in Buffers, cur' = NextId(cur),
         NEW a \in Buffers, NEW b \in Buffers, a # cur, b # cur, Before(a, b)
  PROVE  Before(a, b)'
  <1>1. cur' = IF cur + 1 = BufferCount THEN 0 ELSE cur + 1
    BY RingNext
  <1> QED
    BY <1>1, BufferCountAssumption DEF Before

\* Nothing comes before the current buffer.
LEMMA CurrentIsFirst ==
  ASSUME cur \in Buffers, NEW a \in Buffers
  PROVE  ~Before(a, cur)
  BY BufferCountAssumption DEF Before

\* A window of frames fits into the buffers other than one that holds none.
LEMMA WindowFits ==
  ASSUME NEW lo \in Nat, NEW hi \in Nat, NEW e \in Buffers,
         \A n \in lo + 1 .. hi : \E b \in Buffers \ {e} : data[b] = n
  PROVE  hi - lo < BufferCount
  <1> DEFINE f == [n \in lo + 1 .. hi |-> CHOOSE b \in Buffers \ {e} : data[b] = n]
  <1>1. \A n \in lo + 1 .. hi : f[n] \in Buffers \ {e} /\ data[f[n]] = n
    OBVIOUS
  <1> HIDE DEF f
  <1>2. f \in [lo + 1 .. hi -> Buffers \ {e}]
    BY <1>1 DEF f
  <1>3. f \in Injection(lo + 1 .. hi, Buffers \ {e})
    BY <1>1, <1>2 DEF Injection, IsInjective
  <1>4. IsFiniteSet(Buffers) /\ Cardinality(Buffers) = BufferCount
    BY FS_Interval, BufferCountAssumption
  <1>5. IsFiniteSet(Buffers \ {e}) /\ Cardinality(Buffers \ {e}) = BufferCount - 1
    BY <1>4, FS_RemoveElement
  <1>6. Cardinality(lo + 1 .. hi) <= BufferCount - 1
    BY <1>3, <1>5, FS_Injection
  <1>7. Cardinality(lo + 1 .. hi) = IF lo + 1 > hi THEN 0 ELSE hi - lo
    BY FS_Interval
  <1> QED
    BY <1>6, <1>7, BufferCountAssumption

-----------------------------------------------------------------------------
\* What every step but six leaves alone.
Quiet ==
    /\ UNCHANGED <<cur, log, wire, data, queued, last, asked, refused>>
    /\ \A t \in Threads : held'[t] \in {held[t], NoBuffer}
    /\ Starting' <=> Starting
    /\ Starting => bdindex' = bdindex

LEMMA QuietSteps ==
  ASSUME SingleThread, Faults \cap {"signal", "latecallback", "foreignopen"} = {},
         TypeInv, [Next]_vars
  PROVE  \/ Open \/ Complete
         \/ \E t \in Threads : Submit(t) \/ StartTransfer(t) \/ StartFails(t) \/ GetReturn(t)
         \/ Quiet
  <1>0. ThreadType /\ \A s, t \in Threads : s = t
    BY DEF TypeInv, TypeOK, SingleThread
  <1> USE <1>0 DEF Goto, Quiet, Starting
  <1>1. CASE ForeignOpen
    BY <1>1 DEF ForeignOpen
  <1>2. CASE Close
    BY <1>2 DEF Close, driver, engine, plside, Idle, ThreadType
  <1>3. CASE Release
    BY <1>3 DEF Release, engine, plside, Idle, ThreadType
  <1>4. ASSUME NEW t \in Threads, GetBuffer(t) PROVE Quiet
    <2>1. pc[t] = "user" /\ pc'[t] \in {"finish", "return"} /\ held'[t] = NoBuffer
      BY <1>4 DEF GetBuffer, ThreadType
    <2> QED
      BY <1>4, <2>1 DEF GetBuffer, app, engine, plside
  <1>5. ASSUME NEW t \in Threads, Sync(t) PROVE Quiet
    <2>1. pc[t] = "user" /\ pc'[t] = "sync"
      BY <1>5 DEF Sync, ThreadType
    <2> QED
      BY <1>5, <2>1 DEF Sync, app, engine, plside
  <1>6. ASSUME NEW t \in Threads, SyncNext(t) PROVE Quiet
    <2>1. pc[t] = "sync" /\ pc'[t] \in {"finish", "sync"}
      BY <1>6 DEF SyncNext, ThreadType
    <2> QED
      BY <1>6, <2>1 DEF SyncNext, app, engine, plside
  <1>7. ASSUME NEW t \in Threads, SyncReturn(t) PROVE Quiet
    <2>1. pc[t] = "sync" /\ pc'[t] = "user"
      BY <1>7 DEF SyncReturn, ThreadType
    <2> QED
      BY <1>7, <2>1 DEF SyncReturn, app, engine, plside
  <1>8. CASE ForeignClose
    BY <1>8 DEF ForeignClose
  <1>9. ASSUME NEW t \in Threads, IssuePending(t) PROVE Quiet
    <2>1. pc[t] = "submitted" /\ pc'[t] \in {"finish", "user"}
      BY <1>9 DEF IssuePending, AfterStart, ThreadType
    <2> QED
      BY <1>9, <2>1 DEF IssuePending, app, plside
  <1>10. ASSUME NEW t \in Threads, WaitBegin(t) PROVE Quiet
    <2>1. pc[t] = "finish" /\ pc'[t] = "waiting"
      BY <1>10 DEF WaitBegin, ThreadType
    <2> QED
      BY <1>10, <2>1 DEF WaitBegin, app, engine, plside
  <1>11. ASSUME NEW t \in Threads, WaitReturn(t) PROVE Quiet
    <2>1. pc[t] = "waiting" /\ pc'[t] = "woken"
      BY <1>11 DEF WaitReturn, ThreadType
    <2> QED
      BY <1>11, <2>1 DEF WaitReturn, app, engine, plside
  <1>12. ASSUME NEW t \in Threads, WaitCheck(t) PROVE Quiet
    <2>1. pc[t] = "woken" /\ pc'[t] = "checked"
      BY <1>12 DEF WaitCheck, ThreadType
    <2> QED
      BY <1>12, <2>1 DEF WaitCheck, app, engine, plside
  <1>13. ASSUME NEW t \in Threads, WaitStore(t) PROVE Quiet
    <2>1. pc[t] = "checked" /\ pc'[t] \in {"return", "sync", "user"}
      BY <1>13 DEF WaitStore, ThreadType
    <2> QED
      BY <1>13, <2>1 DEF WaitStore, app, engine, plside
  <1>14. CASE Callback
    BY <1>14 DEF Callback, app, plside, thread
  <1>15. CASE Packet
    BY <1>15 DEF Packet, app, driver, engine, thread
  <1>16. CASE IrqHandler
    BY <1>16 DEF IrqHandler, app, engine, thread
  <1>17. CASE UNCHANGED vars
    BY <1>17 DEF vars, app, driver, engine, plside, thread
  <1> HIDE DEF Quiet, Starting
  <1> QED
    BY <1>1, <1>2, <1>3, <1>4, <1>5, <1>6, <1>7, <1>8, <1>9, <1>10, <1>11, <1>12,
       <1>13, <1>14, <1>15, <1>16, <1>17 DEF Next, ThreadStep

-----------------------------------------------------------------------------
\* The ring's position is that of the latest buffer taken.
LEMMA PosStep ==
  ASSUME SingleThread, Faults \cap {"signal", "latecallback", "foreignopen"} = {},
         OwnerInv, PosInv, [Next]_vars
  PROVE  PosInv'
  <1>0. AppType /\ DriverType /\ ThreadType /\ ArgInv /\ Locals
    BY DEF OwnerInv, TypeInv, TypeOK
  <1>00. \A s, t \in Threads : s = t
    BY DEF SingleThread
  <1> USE <1>0, <1>00 DEF PosInv, Goto
  <1>1. CASE Open
    <2>1. \A t \in Threads : pc'[t] = "user" /\ held'[t] = held[t] /\ held[t] = NoBuffer
      BY <1>1 DEF Open, Idle, thread
    <2> QED
      BY <2>1
  <1>2. CASE ForeignOpen
    BY <1>2 DEF ForeignOpen
  <1>26. CASE ForeignClose
    BY <1>26 DEF ForeignClose
  <1>3. CASE Close
    <2>1. \A t \in Threads : pc'[t] = "user" /\ held'[t] = NoBuffer
      BY <1>3 DEF Close, Idle
    <2> QED
      BY <2>1
  <1>4. CASE Release
    <2>1. \A t \in Threads : pc'[t] = "user" /\ held'[t] = NoBuffer
      BY <1>4 DEF Release, Idle
    <2> QED
      BY <2>1
  <1>5. ASSUME NEW t \in Threads, GetBuffer(t) PROVE PosInv'
    <2>1. /\ pc'[t] \in {"finish", "return"} /\ call'[t] = "get" /\ arg'[t] = cur
          /\ held'[t] = NoBuffer /\ cur' = cur
      BY <1>5 DEF GetBuffer, app, ThreadType
    <2> QED
      BY <2>1
  <1>6. ASSUME NEW t \in Threads, Submit(t) PROVE PosInv'
    <2>1. /\ pc'[t] = "start" /\ held'[t] = NoBuffer /\ bdindex' = held[t]
          /\ held[t] # NoBuffer /\ cur' = cur
      BY <1>6 DEF Submit, app, ThreadType
    <2>2. NextId(bdindex)' = NextId(held[t])
      BY <2>1 DEF NextId
    <2> QED
      BY <2>1, <2>2
  <1>7. ASSUME NEW t \in Threads, Sync(t) PROVE PosInv'
    <2>1. pc'[t] = "sync" /\ UNCHANGED <<handle, cur, held>>
      BY <1>7 DEF Sync, app, ThreadType
    <2> QED
      BY <2>1 DEF NextId
  <1>8. ASSUME NEW t \in Threads, GetReturn(t) PROVE PosInv'
    <2>1. pc'[t] = "user" /\ handle' = "open"
      BY <1>8 DEF GetReturn, ThreadType, ArgInv
    <2>2. CASE status[arg[t]] = "timeout"
      BY <1>8, <2>1, <2>2 DEF GetReturn, NextId
    <2>3. CASE status[arg[t]] # "timeout"
      <3>1. held'[t] = arg[t] /\ cur' = NextId(arg[t])
        BY <1>8, <2>3 DEF GetReturn, ThreadType
      <3> QED
        BY <2>1, <3>1 DEF NextId
    <2> QED
      BY <2>2, <2>3
  <1>9. ASSUME NEW t \in Threads, SyncNext(t) PROVE PosInv'
    <2>1. pc'[t] \in {"finish", "sync"} /\ call'[t] = "sync" /\ UNCHANGED <<handle, cur, held>>
      BY <1>9 DEF SyncNext, app, ThreadType, ArgInv
    <2> QED
      BY <2>1 DEF NextId
  <1>10. ASSUME NEW t \in Threads, SyncReturn(t) PROVE PosInv'
    <2>1. pc'[t] = "user" /\ UNCHANGED <<handle, cur, held>>
      BY <1>10 DEF SyncReturn, app, ThreadType
    <2> QED
      BY <2>1 DEF NextId
  <1>11. ASSUME NEW t \in Threads, StartTransfer(t) PROVE PosInv'
    <2>1. pc'[t] = "submitted" /\ UNCHANGED <<handle, cur, held>>
      BY <1>11 DEF StartTransfer, app, ThreadType
    <2> QED
      BY <2>1 DEF NextId
  <1>12. ASSUME NEW t \in Threads, pc[t] \in {"start", "submitted"}, AfterStart(t),
                UNCHANGED <<handle, cur, held, call, arg>>
         PROVE  PosInv'
    <2>1. pc'[t] = "user" \/ (pc'[t] = "finish" /\ call'[t] = "xfer")
      BY <1>12 DEF AfterStart, ThreadType
    <2> QED
      BY <1>12, <2>1 DEF NextId
  <1>13. ASSUME NEW t \in Threads, StartFails(t) PROVE PosInv'
    BY <1>12, <1>13 DEF StartFails, app
  <1>14. ASSUME NEW t \in Threads, IssuePending(t) PROVE PosInv'
    BY <1>12, <1>14 DEF IssuePending, app
  <1>15. ASSUME NEW t \in Threads, pc[t] \in {"finish", "waiting", "woken", "checked"},
                UNCHANGED <<handle, cur, held, call>>,
                \/ pc'[t] \in {"waiting", "woken", "checked"} /\ arg' = arg
                \/ pc'[t] = "return" /\ call[t] = "get" /\ arg' = arg
                \/ pc'[t] \in {"sync", "user"}
         PROVE  PosInv'
    BY <1>15 DEF NextId
  <1>16. ASSUME NEW t \in Threads, WaitBegin(t) PROVE PosInv'
    BY <1>15, <1>16 DEF WaitBegin, app, ThreadType
  <1>17. ASSUME NEW t \in Threads, WaitReturn(t) PROVE PosInv'
    BY <1>15, <1>17 DEF WaitReturn, app, ThreadType
  <1>18. ASSUME NEW t \in Threads, WaitCheck(t) PROVE PosInv'
    BY <1>15, <1>18 DEF WaitCheck, app, ThreadType
  <1>19. ASSUME NEW t \in Threads, WaitStore(t) PROVE PosInv'
    BY <1>15, <1>19 DEF WaitStore, app, ThreadType
  <1>20. ASSUME UNCHANGED <<handle, cur, bdindex, pc, call, arg, held>> PROVE PosInv'
    BY <1>20 DEF NextId
  <1>21. CASE Complete
    BY <1>20, <1>21 DEF Complete, app, driver, thread
  <1>22. CASE Callback
    BY <1>20, <1>22 DEF Callback, app, thread
  <1>23. CASE Packet
    BY <1>20, <1>23 DEF Packet, app, driver, thread
  <1>24. CASE IrqHandler
    BY <1>20, <1>24 DEF IrqHandler, app, thread
  <1>25. CASE UNCHANGED vars
    BY <1>20, <1>25 DEF vars, app, driver, thread
  <1> HIDE DEF PosInv
  <1> QED
    BY <1>1, <1>2, <1>3, <1>4, <1>5, <1>6, <1>7, <1>8, <1>9, <1>10, <1>11, <1>13,
       <1>14, <1>16, <1>17, <1>18, <1>19, <1>21, <1>22, <1>23, <1>24, <1>25, <1>26
       DEF Next, ThreadStep

-----------------------------------------------------------------------------
\* A new session starts a new stream.
LEMMA OpenStep ==
  ASSUME PosInv, Open
  PROVE  /\ TxInv' /\ RxFrames' /\ RxEmpty' /\ RxAsked' /\ Numbered'
         /\ Frames!Next
  <1>1. /\ log' = <<>> /\ wire' = <<>> /\ queued' = {} /\ asked' = {}
        /\ data' = [b \in Buffers |-> 0]
        /\ \A t \in Threads : held'[t] = NoBuffer
    BY DEF Open, LocalOpen, thread, PosInv
  <1>2. ~Starting'
    BY DEF Open, Starting, Idle, thread
  <1>3. TxInv' /\ Numbered'
    BY <1>1, <1>2 DEF TxInv, Numbered, Sent
  <1>4. \A b \in Buffers : ~Fresh(b)' /\ data'[b] = 0
    BY <1>1 DEF Fresh
  <1>5. RxFrames' /\ RxEmpty'
    BY <1>1, <1>2, <1>4 DEF RxFrames, RxEmpty
  <1>6. RxAsked'
    BY <1>1, <1>2, <1>4 DEF RxAsked, InFlight
  <1>7. Frames!Next
    BY <1>1 DEF Frames!Next, Frames!Restart
  <1> QED
    BY <1>3, <1>5, <1>6, <1>7

-----------------------------------------------------------------------------
(***************************************************************************)
(* A writer: Submit is the step Offer, Complete is Deliver.                *)
(***************************************************************************)
LEMMA TxStep ==
  ASSUME SingleThread, Faults \cap {"signal", "latecallback", "foreignopen"} = {},
         Dir = "tx", OwnerInv, PosInv, TxInv, Numbered, [Next]_vars
  PROVE  /\ \/ TxInv' /\ Numbered'
            \/ \E t \in Threads : StartFails(t)
         /\ Frames!Next \/ UNCHANGED <<log, wire>>
  <1>0. /\ DriverType /\ EngineType /\ PlType /\ ThreadType /\ EngineInv /\ HandInv
        /\ \A s, t \in Threads : s = t
    BY DEF OwnerInv, TypeInv, TypeOK, SingleThread
  <1>00. /\ Len(log) \in Nat /\ Len(wire) \in Nat /\ last \in Nat
         /\ \A b \in Buffers : data[b] \in Nat
         /\ \A x \in queued : x.buf \in Buffers /\ x.cookie \in Nat
    <2>1. log \in Seq(Nat) /\ wire \in Seq(Nat) /\ data \in [Buffers -> Nat]
      BY <1>0 DEF PlType
    <2>2. Len(log) \in Nat /\ Len(wire) \in Nat /\ \A b \in Buffers : data[b] \in Nat
      BY <2>1
    <2>3. last \in Nat /\ \A x \in queued : x.buf \in Buffers /\ x.cookie \in Nat
      BY <1>0 DEF EngineType
    <2> QED
      BY <2>2, <2>3
  <1>1. CASE Open
    BY <1>1, OpenStep
  <1>2. CASE Complete
    <2>1. PICK x \in queued : Complete!(x)
      BY <1>2 DEF Complete
    <2>2. UNCHANGED <<log, data, last, bdindex, pc, asked>> /\ wire' = Append(wire, data[x.buf])
      BY <2>1 DEF driver, thread
    <2>3. UNCHANGED <<Starting, Sent>> /\ Sent \in Int /\ Sent <= Len(log)
      BY <1>00, <2>2 DEF Starting, Sent
    <2>4. data[x.buf] = Len(wire) + 1 /\ Len(wire) + 1 <= Sent
      <3>1. Len(wire) + 1 <= data[x.buf] /\ data[x.buf] <= Sent
        BY <1>00 DEF TxInv
      <3>2. PICK y \in queued : data[y.buf] = Len(wire) + 1
        BY <1>00, <2>3, <3>1 DEF TxInv
      <3>3. x.cookie <= y.cookie
        BY <2>1
      <3>4. /\ data[x.buf] - x.cookie = Sent - last
            /\ data[y.buf] - y.cookie = Sent - last
        BY DEF TxInv
      <3>5. data[x.buf] <= Len(wire) + 1
        <4>1. /\ data[x.buf] \in Int /\ data[y.buf] \in Int
              /\ x.cookie \in Int /\ y.cookie \in Int /\ last \in Int
          BY <1>00
        <4>2. data[x.buf] <= data[y.buf]
          BY <2>3, <3>3, <3>4, <4>1
        <4> QED
          BY <3>2, <4>2
      <3> QED
        BY <1>00, <2>3, <3>1, <3>5
    <2>5. Len(wire') = Len(wire) + 1 /\ \A k \in 1 .. Len(wire') : wire'[k] = k
      BY <1>0, <1>00, <2>2, <2>4 DEF Numbered, PlType
    <2>6. \A y \in queued' : y \in queued /\ data[y.buf] # data[x.buf]
      <3> TAKE y \in queued'
      <3>1. y \in queued /\ y # x
        BY <2>1
      <3>2. y.cookie # x.cookie
        BY <1>0, <3>1 DEF EngineInv
      <3>3. data[y.buf] - y.cookie = data[x.buf] - x.cookie
        BY <3>1 DEF TxInv
      <3> QED
        BY <1>00, <3>1, <3>2, <3>3
    <2>7. ASSUME NEW y \in queued'
          PROVE  /\ Len(wire') < data'[y.buf] /\ data'[y.buf] <= Sent'
                 /\ data'[y.buf] - y.cookie = Sent' - last'
      <3>1. /\ Len(wire) < data[y.buf] /\ data[y.buf] <= Sent
            /\ data[y.buf] - y.cookie = Sent - last
        BY <2>6 DEF TxInv
      <3> QED
        BY <1>00, <2>2, <2>3, <2>4, <2>5, <2>6, <3>1
    <2>8. ASSUME NEW n \in Len(wire') + 1 .. Sent' PROVE \E y \in queued' : data'[y.buf] = n
      <3>1. n \in Len(wire) + 1 .. Sent /\ n # data[x.buf]
        BY <1>00, <2>3, <2>4, <2>5
      <3>2. PICK y \in queued : data[y.buf] = n
        BY <3>1 DEF TxInv
      <3>3. y \in queued'
        BY <2>1, <3>1, <3>2
      <3> QED
        BY <2>2, <3>2, <3>3
    <2>9. TxInv'
      BY <2>2, <2>3, <2>4, <2>5, <2>7, <2>8 DEF TxInv
    <2>10. Numbered'
      BY <2>2, <2>5 DEF Numbered
    <2>11. Frames!Deliver
      <3>1. Len(wire) < Len(log) /\ log[Len(wire) + 1] = Len(wire) + 1
        BY <1>00, <2>3, <2>4 DEF Numbered
      <3> QED
        BY <2>2, <2>4, <3>1 DEF Frames!Deliver
    <2> QED
      BY <2>9, <2>10, <2>11 DEF Frames!Next
  <1>3. ASSUME NEW t \in Threads, Submit(t)
        PROVE  TxInv' /\ Numbered' /\ Frames!Next
    <2> USE <1>3 DEF Submit
    <2>1. /\ held[t] \in Buffers /\ ~Busy(held[t]) /\ pc[t] = "user"
          /\ pc'[t] = "start" /\ bdindex' = held[t]
      BY <1>0 DEF ThreadType, HandInv, Goto
    <2>2. /\ UNCHANGED <<wire, queued, last, asked>>
          /\ log' = Append(log, Len(log) + 1)
          /\ data' = [data EXCEPT ![held[t]] = Len(log) + 1]
      BY DEF engine
    <2>3. ~Starting /\ Starting'
      BY <1>0, <2>1 DEF Starting
    <2>4. Len(log') = Len(log) + 1 /\ Numbered'
      BY <1>0, <1>00, <2>2 DEF Numbered, PlType
    <2>5. Sent = Len(log) /\ Sent' = Len(log)
      BY <1>00, <2>3, <2>4 DEF Sent
    <2>6. \A x \in queued : data'[x.buf] = data[x.buf]
      BY <1>0, <1>00, <2>1, <2>2 DEF Busy, PlType
    <2>7. data'[bdindex'] = Len(log')
      BY <1>0, <2>1, <2>2, <2>4 DEF PlType
    <2>8. TxInv'
      BY <2>2, <2>5, <2>6, <2>7 DEF TxInv
    <2>9. \A n \in Len(wire) + 1 .. Len(log) : \E b \in Buffers \ {held[t]} : data[b] = n
      <3> TAKE n \in Len(wire) + 1 .. Len(log)
      <3>1. PICK x \in queued : data[x.buf] = n
        BY <2>5 DEF TxInv
      <3>2. x.buf \in Buffers /\ x.buf # held[t]
        BY <1>00, <2>1 DEF Busy
      <3> QED
        BY <3>1, <3>2
    <2>10. Len(log) - Len(wire) < BufferCount
      BY <1>00, <2>1, <2>9, WindowFits
    <2>11. Frames!Offer
      BY <2>2, <2>10 DEF Frames!Offer
    <2> QED
      BY <2>4, <2>8, <2>11 DEF Frames!Next
  <1>4. ASSUME NEW t \in Threads, StartTransfer(t)
        PROVE  TxInv' /\ Numbered' /\ UNCHANGED <<log, wire>>
    <2> USE <1>4 DEF StartTransfer
    <2>1. /\ bdindex \in Buffers /\ pc[t] = "start" /\ pc'[t] = "submitted"
          /\ UNCHANGED <<log, wire, data, asked>> /\ last' = last + 1
          /\ queued' = queued \cup {[cookie |-> last + 1, buf |-> bdindex]}
      BY <1>0 DEF ThreadType, DriverType, Goto, plside
    <2>2. Starting /\ ~Starting'
      BY <1>0, <2>1 DEF Starting
    <2>3. Sent = Len(log) - 1 /\ Sent' = Len(log) /\ data[bdindex] = Len(log)
      BY <2>1, <2>2 DEF Sent, TxInv
    <2>4. ASSUME NEW y \in queued'
          PROVE  /\ Len(wire) < data[y.buf] /\ data[y.buf] <= Len(log)
                 /\ data[y.buf] - y.cookie = Len(log) - (last + 1)
      <3>1. CASE y \in queued
        <4>1. /\ Len(wire) < data[y.buf] /\ data[y.buf] <= Len(log) - 1
              /\ data[y.buf] - y.cookie = (Len(log) - 1) - last
          BY <2>3, <3>1 DEF TxInv
        <4> QED
          BY <1>00, <3>1, <4>1
      <3>2. CASE y = [cookie |-> last + 1, buf |-> bdindex]
        <4>1. y.buf = bdindex /\ y.cookie = last + 1
          BY <3>2
        <4>2. Len(wire) <= Len(log) - 1
          BY <2>3 DEF TxInv
        <4> QED
          BY <1>00, <2>3, <4>1, <4>2
      <3> QED
        BY <2>1, <3>1, <3>2
    <2>5. ASSUME NEW n \in Len(wire) + 1 .. Len(log) PROVE \E y \in queued' : data[y.buf] = n
      <3>1. CASE n = Len(log)
        <4>1. [cookie |-> last + 1, buf |-> bdindex] \in queued'
          BY <2>1
        <4> QED
          BY <2>3, <3>1, <4>1
      <3>2. CASE n # Len(log)
        <4>1. n \in Len(wire) + 1 .. Len(log) - 1
          BY <1>00, <3>2
        <4>2. PICK y \in queued : data[y.buf] = n
          BY <2>3, <4>1 DEF TxInv
        <4> QED
          BY <2>1, <4>2
      <3> QED
        BY <3>1, <3>2
    <2>6. Len(wire) <= Len(log)
      BY <1>00, <2>3 DEF TxInv
    <2>7. TxInv'
      BY <2>1, <2>2, <2>3, <2>4, <2>5, <2>6 DEF TxInv
    <2> QED
      BY <2>1, <2>7 DEF Numbered
  <1>5. ASSUME NEW t \in Threads, GetReturn(t)
        PROVE  TxInv' /\ Numbered' /\ UNCHANGED <<log, wire>>
    <2>1. UNCHANGED <<log, wire, data, queued, last, bdindex, asked>>
      BY <1>5 DEF GetReturn, driver, engine, TxInv
    <2>2. pc[t] = "return" /\ pc'[t] = "user"
      BY <1>0, <1>5 DEF GetReturn, Goto, ThreadType
    <2>3. ~Starting /\ ~Starting'
      BY <1>0, <2>2 DEF Starting
    <2> QED
      BY <2>1, <2>3 DEF TxInv, Numbered, Sent
  <1>6. CASE Quiet
    <2>1. UNCHANGED <<log, wire, data, queued, last, asked>> /\ (Starting' <=> Starting)
      BY <1>6 DEF Quiet
    <2>2. Starting => bdindex' = bdindex
      BY <1>6, <2>1 DEF Quiet
    <2> QED
      BY <2>1, <2>2 DEF TxInv, Numbered, Sent
  <1>7. TypeInv
    BY DEF OwnerInv
  <1>8. ASSUME NEW t \in Threads, StartFails(t) PROVE UNCHANGED <<log, wire>>
    BY <1>8 DEF StartFails
  <1> QED
    BY <1>1, <1>2, <1>3, <1>4, <1>5, <1>6, <1>7, <1>8, QuietSteps

-----------------------------------------------------------------------------
(***************************************************************************)
(* A reader: Complete is the step Offer, the return of                     *)
(* io_stream_zc_buffer_local with a frame is Deliver.                      *)
(***************************************************************************)
LEMMA RxStep ==
  ASSUME SingleThread, Faults \cap {"signal", "latecallback", "foreignopen"} = {},
         Dir = "rx", OwnerInv, PosInv, RxFrames, RxEmpty, RxAsked, Numbered, [Next]_vars
  PROVE  /\ \/ RxFrames' /\ RxEmpty' /\ RxAsked' /\ Numbered'
            \/ \E t \in Threads : StartFails(t)
         /\ Frames!Next \/ UNCHANGED <<log, wire>>
  <1>0. /\ AppType /\ DriverType /\ EngineType /\ ThreadType /\ EngineInv /\ HandInv
        /\ log \in Seq(Nat) /\ wire \in Seq(Nat) /\ data \in [Buffers -> Nat]
        /\ \A s, t \in Threads : s = t
    BY DEF OwnerInv, TypeInv, TypeOK, PlType, SingleThread
  <1>00. /\ Len(log) \in Nat /\ Len(wire) \in Nat
         /\ \A b \in Buffers : data[b] \in Nat
         /\ \A x \in queued : x.buf \in Buffers /\ x.cookie \in Nat
         /\ cur \in Buffers
    <2>1. Len(log) \in Nat /\ Len(wire) \in Nat /\ \A b \in Buffers : data[b] \in Nat
      BY <1>0
    <2>2. \A x \in queued : x.buf \in Buffers /\ x.cookie \in Nat
      BY <1>0 DEF EngineType
    <2> QED
      BY <1>0, <2>1, <2>2 DEF AppType
  <1>1. CASE Open
    BY <1>1, OpenStep
  <1>2. CASE Complete
    <2>1. PICK x \in queued : Complete!(x)
      BY <1>2 DEF Complete
    <2>2. /\ UNCHANGED <<log, cur, held, bdindex, pc, asked>>
          /\ wire' = Append(wire, Len(wire) + 1)
          /\ data' = [data EXCEPT ![x.buf] = Len(wire) + 1]
          /\ queued' = queued \ {x}
      BY <2>1 DEF app, driver, thread
    <2>3. /\ x.buf \in Buffers /\ ~Fresh(x.buf) /\ Busy(x.buf)
      BY <1>00 DEF RxEmpty, Busy
    <2>4. Len(wire') = Len(wire) + 1 /\ Numbered'
      <3>1. Len(wire') = Len(wire) + 1 /\ \A k \in 1 .. Len(wire') : wire'[k] = k
        BY <1>0, <1>00, <2>2 DEF Numbered
      <3> QED
        BY <2>2, <3>1 DEF Numbered
    <2>5. /\ data'[x.buf] = Len(wire) + 1 /\ Fresh(x.buf)'
          /\ \A b \in Buffers : b # x.buf => data'[b] = data[b] /\ (Fresh(b)' <=> Fresh(b))
      <3>1. data'[x.buf] = Len(wire) + 1 /\ \A b \in Buffers : b # x.buf => data'[b] = data[b]
        BY <1>0, <2>2, <2>3
      <3> QED
        BY <1>00, <2>2, <3>1 DEF RxFrames, Fresh
    <2>6. \A a, b : Before(a, b)' <=> Before(a, b)
      BY <2>2 DEF Before
    <2>7. \A y \in queued' : y \in queued /\ y.buf # x.buf /\ x.cookie < y.cookie
      <3> TAKE y \in queued'
      <3>1. y \in queued /\ y # x /\ x.cookie <= y.cookie
        BY <2>1, <2>2
      <3>2. y.cookie # x.cookie
        BY <1>0, <3>1 DEF EngineInv
      <3>3. y.buf # x.buf
        BY <1>0, <3>1, <3>2 DEF EngineInv
      <3> QED
        BY <1>00, <3>1, <3>2, <3>3
    <2>8. RxFrames'
      <3>1. Len(log') <= Len(wire')
        BY <1>00, <2>2, <2>4 DEF RxFrames
      <3>2. ASSUME NEW b \in Buffers PROVE data'[b] <= Len(wire')
        <4>1. CASE b = x.buf
          BY <1>00, <2>4, <2>5, <4>1
        <4>2. CASE b # x.buf
          BY <1>00, <2>4, <2>5, <4>2 DEF RxFrames
        <4> QED
          BY <4>1, <4>2
      <3>3. ASSUME NEW n \in Len(log') + 1 .. Len(wire') PROVE \E b \in Buffers : data'[b] = n
        <4>1. CASE n = Len(wire) + 1
          BY <2>3, <2>5, <4>1
        <4>2. CASE n # Len(wire) + 1
          <5>1. n \in Len(log) + 1 .. Len(wire)
            BY <1>00, <2>2, <2>4, <4>2
          <5>2. PICK b \in Buffers : data[b] = n
            BY <5>1 DEF RxFrames
          <5>3. b # x.buf
            BY <1>00, <2>3, <5>1, <5>2 DEF Fresh
          <5> QED
            BY <2>5, <5>2, <5>3
        <4> QED
          BY <4>1, <4>2
      <3>4. ASSUME NEW a \in Buffers, NEW b \in Buffers, Fresh(a)', Fresh(b)', a # b
            PROVE  data'[a] # data'[b] /\ (data'[a] < data'[b] => Before(a, b))
        <4>1. CASE a = x.buf
          <5>1. data'[b] = data[b] /\ data[b] <= Len(wire)
            BY <2>5, <3>4, <4>1 DEF RxFrames
          <5> QED
            BY <1>00, <2>5, <4>1, <5>1
        <4>2. CASE b = x.buf
          <5>1. data'[a] = data[a] /\ data[a] <= Len(wire) /\ Before(a, b)
            BY <2>5, <3>4, <4>2 DEF RxFrames, RxEmpty
          <5> QED
            BY <1>00, <2>5, <4>2, <5>1
        <4>3. CASE a # x.buf /\ b # x.buf
          BY <2>5, <3>4, <4>3 DEF RxFrames
        <4> QED
          BY <4>1, <4>2, <4>3
      <3> QED
        BY <2>6, <3>1, <3>2, <3>3, <3>4 DEF RxFrames
    <2>9. RxEmpty'
      <3>1. \A y \in queued' : ~Fresh(y.buf)'
        BY <1>00, <2>5, <2>7 DEF RxEmpty
      <3>2. ASSUME NEW a \in Buffers, NEW y \in queued', Fresh(a)' PROVE Before(a, y.buf)
        <4>1. CASE a = x.buf
          BY <2>7, <4>1 DEF RxEmpty
        <4>2. CASE a # x.buf
          BY <2>5, <2>7, <3>2, <4>2 DEF RxEmpty
        <4> QED
          BY <4>1, <4>2
      <3>3. \A y, z \in queued' : y.cookie < z.cookie => Before(y.buf, z.buf)
        BY <2>7 DEF RxEmpty
      <3>4. ASSUME NEW t \in Threads, held'[t] # NoBuffer PROVE ~Fresh(held[t])'
        <4>1. held[t] \in Buffers /\ held[t] # x.buf /\ ~Fresh(held[t])
          BY <1>0, <2>2, <2>3, <3>4 DEF HandInv, ThreadType, RxEmpty
        <4> QED
          BY <2>2, <2>5, <4>1 DEF Fresh
      <3>5. ASSUME Starting' PROVE ~Fresh(bdindex)'
        <4>1. Starting /\ bdindex \in Buffers /\ bdindex # x.buf
          BY <1>0, <2>2, <2>3, <3>5 DEF Starting, HandInv, DriverType
        <4> QED
          BY <2>2, <2>5, <4>1 DEF RxEmpty, Fresh
      <3> QED
        BY <2>6, <3>1, <3>2, <3>3, <3>4, <3>5 DEF RxEmpty
    <2>a. RxAsked'
      <3>1. Starting' <=> Starting
        BY <2>2 DEF Starting
      <3>2. ASSUME NEW b \in Buffers, b # x.buf
            PROVE  b \in asked' <=> InFlight(b)' \/ Fresh(b)' \/ (Starting' /\ bdindex' = b)
        <4>1. InFlight(b)' <=> InFlight(b)
          BY <2>2, <3>2 DEF InFlight
        <4> QED
          BY <2>2, <2>5, <3>1, <3>2, <4>1 DEF RxAsked
      <3>3. x.buf \in asked'
        BY <2>2, <2>3 DEF RxAsked, InFlight
      <3> QED
        BY <2>5, <3>2, <3>3 DEF RxAsked
    <2>10. \A n \in Len(log) + 1 .. Len(wire) : \E b \in Buffers \ {x.buf} : data[b] = n
      <3> TAKE n \in Len(log) + 1 .. Len(wire)
      <3>1. PICK b \in Buffers : data[b] = n
        BY DEF RxFrames
      <3>2. b # x.buf
        BY <1>00, <2>3, <3>1 DEF Fresh
      <3> QED
        BY <3>1, <3>2
    <2>11. Len(wire) - Len(log) < BufferCount
      BY <1>00, <2>3, <2>10, WindowFits
    <2>12. Frames!Offer
      BY <2>2, <2>11 DEF Frames!Offer
    <2> QED
      BY <2>4, <2>8, <2>9, <2>a, <2>12 DEF Frames!Next
  <1>3. ASSUME NEW t \in Threads, Submit(t)
        PROVE  RxFrames' /\ RxEmpty' /\ RxAsked' /\ Numbered' /\ UNCHANGED <<log, wire>>
    <2>1. /\ UNCHANGED <<log, wire, data, queued, cur>> /\ held[t] # NoBuffer
          /\ bdindex' = held[t] /\ held'[t] = NoBuffer /\ asked' = asked \cup {held[t]}
          /\ pc[t] = "user" /\ pc'[t] = "start" /\ held[t] \in Buffers
      BY <1>0, <1>3 DEF Submit, app, engine, ThreadType, Goto
    <2>2. RxFrames' /\ Numbered'
      BY <2>1 DEF RxFrames, Numbered, Before, Fresh
    <2>3. RxEmpty'
      BY <1>0, <2>1 DEF RxEmpty, Before, Fresh
    <2>4. ~Starting /\ Starting'
      BY <1>0, <2>1 DEF Starting
    <2>5. \A b : (InFlight(b)' <=> InFlight(b)) /\ (Fresh(b)' <=> Fresh(b))
      BY <2>1 DEF InFlight, Fresh
    <2>6. RxAsked'
      BY <2>1, <2>4, <2>5 DEF RxAsked
    <2> QED
      BY <2>1, <2>2, <2>3, <2>6
  <1>4. ASSUME NEW t \in Threads, StartTransfer(t)
        PROVE  RxFrames' /\ RxEmpty' /\ RxAsked' /\ Numbered' /\ UNCHANGED <<log, wire>>
    <2> DEFINE new == [cookie |-> last + 1, buf |-> bdindex]
    <2>1. /\ bdindex \in Buffers /\ pc[t] = "start" /\ pc'[t] = "submitted" /\ held'[t] = NoBuffer
          /\ UNCHANGED <<log, wire, data, cur, asked>>
          /\ queued' = queued \cup {new}
      BY <1>0, <1>4 DEF StartTransfer, ThreadType, DriverType, Goto, app, plside, HandInv
    <2>a. \A b : Fresh(b)' <=> Fresh(b)
      BY <2>1 DEF Fresh
    <2>2. RxFrames' /\ Numbered'
      BY <2>1, <2>a DEF RxFrames, Numbered, Before
    <2>3. ~Fresh(bdindex) /\ cur = NextId(bdindex) /\ ~Busy(bdindex)
      BY <1>0, <2>1 DEF RxEmpty, Starting, PosInv, HandInv
    <2>4. new.buf = bdindex /\ new.cookie = last + 1
      OBVIOUS
    <2> HIDE DEF new
    <2>5. \A a \in Buffers : a # bdindex => Before(a, bdindex)
      BY <2>1, <2>3, LatestIsLast
    <2>6. \A x \in queued : x.buf # bdindex /\ x.cookie <= last
      BY <1>0, <2>3 DEF Busy, EngineInv
    <2>7. \A x \in queued' : ~Fresh(x.buf)
      BY <2>1, <2>3, <2>4 DEF RxEmpty
    <2>8. \A a \in Buffers, x \in queued' : Fresh(a) => Before(a, x.buf)
      BY <2>1, <2>3, <2>4, <2>5 DEF RxEmpty
    <2>9. ASSUME NEW x \in queued', NEW y \in queued', x.cookie < y.cookie
          PROVE  Before(x.buf, y.buf)
      <3>1. last \in Nat
        BY <1>0 DEF EngineType
      <3>2. x \in queued
        <4>1. y.cookie \in Nat /\ y.cookie <= last + 1
          BY <1>00, <2>1, <2>4, <2>6, <3>1
        <4> QED
          BY <2>1, <2>4, <2>9, <3>1, <4>1
      <3>3. CASE y \in queued
        BY <2>9, <3>2, <3>3 DEF RxEmpty
      <3>4. CASE y = new
        BY <1>00, <2>4, <2>5, <2>6, <3>2, <3>4
      <3> QED
        BY <2>1, <3>3, <3>4
    <2>10. Starting /\ ~Starting' /\ \A s \in Threads : held'[s] = NoBuffer
      BY <1>0, <2>1 DEF Starting
    <2>11. RxEmpty'
      BY <2>1, <2>a, <2>7, <2>8, <2>9, <2>10 DEF RxEmpty, Before
    <2>12. \A b : InFlight(b)' <=> InFlight(b) \/ b = bdindex
      BY <2>1, <2>4 DEF InFlight
    <2>13. RxAsked'
      BY <2>1, <2>a, <2>10, <2>12 DEF RxAsked
    <2> QED
      BY <2>1, <2>2, <2>11, <2>13
  <1>5. ASSUME NEW t \in Threads, GetReturn(t)
        PROVE  /\ RxFrames' /\ RxEmpty' /\ RxAsked' /\ Numbered'
               /\ Frames!Next \/ UNCHANGED <<log, wire>>
    <2>1. /\ pc[t] = "return" /\ pc'[t] = "user" /\ arg[t] = cur
          /\ UNCHANGED <<wire, data, queued, bdindex>>
      BY <1>0, <1>5 DEF GetReturn, Goto, ThreadType, PosInv, engine, driver
    <2>2. ~Starting /\ ~Starting' /\ \A b : InFlight(b)' <=> InFlight(b)
      BY <1>0, <2>1 DEF Starting, InFlight
    <2>3. CASE status[arg[t]] = "timeout"
      <3>1. UNCHANGED <<cur, held, log, asked>>
        BY <1>5, <2>1, <2>3 DEF GetReturn
      <3>2. \A b : Fresh(b)' <=> Fresh(b)
        BY <2>1, <3>1 DEF Fresh
      <3>3. RxFrames' /\ Numbered'
        BY <2>1, <3>1, <3>2 DEF RxFrames, Numbered, Before
      <3>4. RxEmpty'
        BY <2>1, <2>2, <3>1, <3>2 DEF RxEmpty, Before, Fresh
      <3>5. RxAsked'
        BY <2>2, <3>1, <3>2 DEF RxAsked
      <3> QED
        BY <2>1, <3>1, <3>3, <3>4, <3>5
    <2>4. CASE status[arg[t]] # "timeout"
      <3>1. /\ cur' = NextId(cur) /\ held'[t] = cur /\ ~Busy(cur) /\ asked' = asked \ {cur}
            /\ log' = IF cur \in asked THEN Append(log, data[cur]) ELSE log
        BY <1>0, <1>5, <2>1, <2>4 DEF GetReturn, HandInv, ThreadType
      <3>2. cur \in asked <=> Fresh(cur)
        BY <1>00, <2>2, <3>1 DEF RxAsked, Busy, InFlight
      <3>4. \A a, b \in Buffers : a # cur /\ b # cur /\ Before(a, b) => Before(a, b)'
        BY <1>00, <3>1, AdvanceKeepsOrder
      <3>5. \A x \in queued : x.buf \in Buffers /\ x.buf # cur
        BY <1>00, <3>1 DEF Busy
      <3>6. ASSUME \A b \in Buffers : Len(log') < data[b] <=> Fresh(b) /\ b # cur
            PROVE  RxEmpty' /\ RxAsked'
        <4>0. \A b \in Buffers : Fresh(b)' <=> Fresh(b) /\ b # cur
          BY <2>1, <3>6 DEF Fresh
        <4>1. \A x \in queued : ~Fresh(x.buf)'
          BY <4>0, <3>5 DEF RxEmpty
        <4>2. \A a \in Buffers, x \in queued : Fresh(a)' => Before(a, x.buf)'
          BY <4>0, <3>4, <3>5 DEF RxEmpty
        <4>3. \A x, y \in queued : x.cookie < y.cookie => Before(x.buf, y.buf)'
          BY <3>4, <3>5 DEF RxEmpty
        <4>4. \A s \in Threads : held'[s] = cur
          BY <1>0, <3>1
        <4>5. \A s \in Threads : ~Fresh(held[s])'
          BY <1>00, <2>1, <3>6, <4>4 DEF Fresh
        <4>6. RxEmpty'
          BY <2>1, <2>2, <4>1, <4>2, <4>3, <4>5 DEF RxEmpty
        <4>7. \A b \in Buffers : InFlight(b) => b # cur
          BY <3>5 DEF InFlight
        <4>8. RxAsked'
          BY <2>2, <3>1, <4>0, <4>7 DEF RxAsked
        <4> QED
          BY <4>6, <4>8
      <3>7. CASE ~Fresh(cur)
        <4>1. log' = log
          BY <3>1, <3>2, <3>7
        <4>2. \A b \in Buffers : Fresh(b)' <=> Fresh(b)
          BY <2>1, <4>1 DEF Fresh
        <4>3. \A a, b \in Buffers : Fresh(a)' /\ Fresh(b)' /\ a # b =>
                  data[a] # data[b] /\ (data[a] < data[b] => Before(a, b)')
          BY <3>4, <3>7, <4>2 DEF RxFrames
        <4>4. RxFrames' /\ Numbered'
          BY <2>1, <4>1, <4>3 DEF RxFrames, Numbered
        <4>5. RxEmpty' /\ RxAsked'
          BY <3>6, <3>7, <4>1 DEF Fresh
        <4> QED
          BY <2>1, <4>1, <4>4, <4>5
      <3>8. CASE Fresh(cur)
        <4>1. log' = Append(log, data[cur])
          BY <3>1, <3>2, <3>8
        <4>2. Len(log) < data[cur] /\ data[cur] <= Len(wire)
          BY <1>00, <3>8 DEF RxFrames, Fresh
        <4>3. data[cur] = Len(log) + 1
          <5>1. PICK b \in Buffers : data[b] = Len(log) + 1
            BY <1>00, <4>2 DEF RxFrames
          <5>2. ASSUME b # cur PROVE FALSE
            <6>1. data[b] # data[cur] /\ (data[b] < data[cur] => Before(b, cur))
              BY <1>00, <3>8, <5>1, <5>2 DEF RxFrames, Fresh
            <6>2. data[b] < data[cur]
              BY <1>00, <4>2, <5>1, <6>1
            <6> QED
              BY <1>00, <6>1, <6>2, CurrentIsFirst
          <5> QED
            BY <5>1, <5>2
        <4>4. Len(log') = Len(log) + 1 /\ Numbered'
          BY <1>0, <1>00, <2>1, <4>1, <4>3 DEF Numbered
        <4>5. \A b \in Buffers : Len(log') < data[b] <=> Fresh(b) /\ b # cur
          <5> TAKE b \in Buffers
          <5>1. b # cur /\ Fresh(b) => data[b] # data[cur]
            BY <1>00, <3>8 DEF RxFrames
          <5> QED
            BY <1>00, <4>3, <4>4, <5>1 DEF Fresh
        <4>6. RxEmpty' /\ RxAsked'
          BY <3>6, <4>5
        <4>7. \A a, b \in Buffers : Fresh(a)' /\ Fresh(b)' /\ a # b =>
                  data[a] # data[b] /\ (data[a] < data[b] => Before(a, b)')
          <5>1. \A b \in Buffers : Fresh(b)' <=> Fresh(b) /\ b # cur
            BY <2>1, <4>5 DEF Fresh
          <5> QED
            BY <3>4, <5>1 DEF RxFrames
        <4>8. ASSUME NEW n \in Len(log') + 1 .. Len(wire') PROVE \E b \in Buffers : data[b] = n
          <5>1. n \in Len(log) + 1 .. Len(wire)
            BY <1>00, <2>1, <4>4
          <5> QED
            BY <5>1 DEF RxFrames
        <4>9. Len(log') <= Len(wire')
          BY <1>00, <2>1, <4>2, <4>4
        <4>10. RxFrames'
          BY <2>1, <4>7, <4>8, <4>9 DEF RxFrames
        <4>11. Frames!Deliver
          <5>1. wire[Len(log) + 1] = Len(log) + 1
            BY <1>00, <4>2 DEF Numbered
          <5>2. Len(log) < Len(wire)
            BY <1>00, <4>2
          <5> QED
            BY <2>1, <4>1, <4>3, <5>1, <5>2 DEF Frames!Deliver
        <4> QED
          BY <4>4, <4>6, <4>10, <4>11 DEF Frames!Next
      <3> QED
        BY <3>7, <3>8
    <2> QED
      BY <2>3, <2>4
  <1>6. CASE Quiet
    <2>1. UNCHANGED <<log, wire, data, queued, cur, asked>> /\ (Starting' <=> Starting)
      BY <1>6 DEF Quiet
    <2>a. \A b : (Fresh(b)' <=> Fresh(b)) /\ (InFlight(b)' <=> InFlight(b))
      BY <2>1 DEF Fresh, InFlight
    <2>2. RxFrames' /\ Numbered'
      BY <2>1, <2>a DEF RxFrames, Numbered, Before
    <2>3. \A s \in Threads : held'[s] # NoBuffer => ~Fresh(held[s])'
      BY <1>6, <2>1 DEF Quiet, RxEmpty, Fresh
    <2>4. Starting' => bdindex' = bdindex /\ ~Fresh(bdindex)'
      BY <1>6, <2>1 DEF Quiet, RxEmpty, Fresh
    <2>5. RxEmpty'
      BY <2>1, <2>a, <2>3, <2>4 DEF RxEmpty, Before
    <2>6. RxAsked'
      BY <2>1, <2>a, <2>4 DEF RxAsked
    <2> QED
      BY <2>1, <2>2, <2>5, <2>6
  <1>7. TypeInv
    BY DEF OwnerInv
  <1>8. ASSUME NEW t \in Threads, StartFails(t) PROVE UNCHANGED <<log, wire>>
    BY <1>8 DEF StartFails
  <1> QED
    BY <1>1, <1>2, <1>3, <1>4, <1>5, <1>6, <1>7, <1>8, QuietSteps

-----------------------------------------------------------------------------
LEMMA StreamInit == Init => StreamInv /\ Frames!Init /\ refused = 0
  <1> SUFFICES ASSUME Init PROVE StreamInv /\ Frames!Init /\ refused = 0
    OBVIOUS
  <1>1. /\ ~Starting /\ log = <<>> /\ wire = <<>> /\ queued = {} /\ asked = {} /\ refused = 0
        /\ data = [b \in Buffers |-> 0] /\ \A t \in Threads : held[t] = NoBuffer
    BY DEF Init, Starting
  <1>2. PosInv /\ Numbered
    BY DEF Init, PosInv, Numbered
  <1>3. TxInv
    BY <1>1 DEF TxInv, Sent
  <1>4. \A b \in Buffers : ~Fresh(b) /\ data[b] = 0
    BY <1>1 DEF Fresh
  <1>5. RxFrames /\ RxEmpty
    BY <1>1, <1>4 DEF RxFrames, RxEmpty
  <1>6. RxAsked
    BY <1>1, <1>4 DEF RxAsked, InFlight
  <1> QED
    BY <1>1, <1>2, <1>3, <1>5, <1>6, OwnerInit DEF StreamInv, Frames!Init

\* A refusal is remembered until the next open.
LEMMA RefusedStep ==
  ASSUME SingleThread, Faults \cap {"signal", "latecallback", "foreignopen"} = {},
         TypeInv, [Next]_vars
  PROVE  /\ refused # 0 => refused' # 0 \/ Open
         /\ \A t \in Threads : StartFails(t) => refused' # 0 /\ "submiterror" \in Faults
         /\ "submiterror" \notin Faults /\ refused = 0 => refused' = 0
  <1>1. refused \in Nat
    BY DEF TypeInv, TypeOK, PlType
  <1>2. \A t \in Threads : StartFails(t) => refused' = refused + 1 /\ "submiterror" \in Faults
    BY DEF StartFails
  <1>3. Complete => refused' = refused
    BY DEF Complete
  <1>4. \A t \in Threads : Submit(t) \/ StartTransfer(t) \/ GetReturn(t) => refused' = refused
    BY DEF Submit, StartTransfer, GetReturn, plside
  <1>5. Quiet => refused' = refused
    BY DEF Quiet
  <1>6. Open => refused' = 0
    BY DEF Open
  <1> QED
    BY <1>1, <1>2, <1>3, <1>4, <1>5, <1>6, QuietSteps

LEMMA StreamStep ==
  ASSUME SingleThread, Faults \cap {"signal", "latecallback", "foreignopen"} = {},
         StreamInv, [Next]_vars
  PROVE  /\ StreamInv'
         /\ refused # 0 \/ Frames!Next \/ UNCHANGED <<log, wire>>
  <1>1. OwnerInv' /\ PosInv' /\ TypeInv /\ refused \in Nat
    BY OwnerStep, PosStep DEF StreamInv, OwnerInv, TypeInv, TypeOK, PlType
  <1>2. CASE refused # 0
    <2>1. refused' # 0 \/ Open
      BY <1>1, <1>2, RefusedStep
    <2> QED
      BY <1>1, <1>2, <2>1, OpenStep DEF StreamInv
  <1>3. CASE refused = 0 /\ Dir = "tx"
    BY <1>1, <1>3, TxStep, RefusedStep DEF StreamInv
  <1>4. CASE refused = 0 /\ Dir = "rx"
    BY <1>1, <1>4, RxStep, RefusedStep DEF StreamInv
  <1> QED
    BY <1>2, <1>3, <1>4, DirAssumption

(***************************************************************************)
(* A channel of any ring size implements the stream of frames: nothing is  *)
(* lost, repeated, replaced or reordered between io_write_stream_local and *)
(* the AXI stream, or between the AXI stream and io_stream_zc_buffer_local,*)
(* however waits expire on the way, if the engine refuses no descriptor.   *)
(***************************************************************************)
THEOREM ChannelIsFrameStream ==
  ASSUME SingleThread,
         Faults \cap {"signal", "latecallback", "foreignopen", "submiterror"} = {}
  PROVE  Spec => IsFrameStream
  <1>0. /\ Faults \cap {"signal", "latecallback", "foreignopen"} = {}
        /\ "submiterror" \notin Faults
    OBVIOUS
  <1> DEFINE Inv == StreamInv /\ refused = 0
  <1>1. Init => Inv /\ Frames!Init
    BY StreamInit
  <1>2. ASSUME Inv, [Next]_vars
        PROVE  Inv' /\ (Frames!Next \/ UNCHANGED <<log, wire>>)
    <2>1. TypeInv
      BY <1>2 DEF StreamInv, OwnerInv
    <2> QED
      BY <1>0, <1>2, <2>1, StreamStep, RefusedStep
  <1>3. Inv /\ [Next]_vars
          => Inv' /\ [Frames!Next]_<<IF Dir = "tx" THEN log ELSE wire,
                                     IF Dir = "tx" THEN wire ELSE log>>
    BY <1>2
  <1> QED
    BY <1>1, <1>3, PTL DEF Spec, IsFrameStream, Frames!Spec

(***************************************************************************)
(* With an engine that refuses descriptors, the channel is that stream     *)
(* from every open to the first refusal.                                   *)
(***************************************************************************)
THEOREM StreamUntilFirstRefusal ==
  ASSUME SingleThread, Faults \cap {"signal", "latecallback", "foreignopen"} = {}
  PROVE  Spec => StreamUntilRefused
  <1>1. Init => StreamInv /\ Frames!Init
    BY StreamInit
  <1>2. StreamInv => refused \in Nat
    BY DEF StreamInv, OwnerInv, TypeInv, TypeOK, PlType
  <1>3. StreamInv /\ [Next]_vars
          => StreamInv' /\ [refused > 0 \/ Frames!Next]_<<log, wire>>
    BY <1>2, StreamStep
  <1> QED
    BY <1>1, <1>3, PTL DEF Spec, StreamUntilRefused
=============================================================================
