--------------------------- MODULE ContextServer ---------------------------
(***************************************************************************)
(* The context server of io_backend (userspace/io_backend/src/io_backend.c:*)
(* server_main, start_task, handle_context) and the clients that ask it    *)
(* for a context (lib/bbio/src/bbio_net_core.c: io_create_net_context).    *)
(*                                                                         *)
(* A connection is a job of the thread pool; a worker stays with it until  *)
(* start_task returns.  opened_ctx_list is shared by the workers and has   *)
(* no lock, so each access to it is a step of its own.  What travels on a  *)
(* socket is a sequence of 32-bit words: a frame_top is <<Hs, op>>, a      *)
(* frame_ctx_top is <<Hs, op, ctx_id>>.  recv takes what is there, up to   *)
(* the size of its buffer, and leaves the rest of the buffer uninitialised.*)
(***************************************************************************)
EXTENDS Naturals, Sequences, FiniteSets

CONSTANTS
    Clients,      \* processes that call io_create_net_context, once each
    Workers,      \* the threads of the pool
    SlotCount,    \* MAX_CONTEXT_COUNT, the length of opened_ctx_list
    ScanLimit,    \* how many of them handle_context looks at for an open
    Faults,       \* what may happen, a subset of FaultKinds
    MaxCloses     \* bound: close frames a client sends

(***************************************************************************)
(* disconnect  a client may go away                                        *)
(* senderror   send and recv on the socket of a client that went away may  *)
(*             fail instead of reporting the end of the stream             *)
(* sigint      the server may be interrupted                               *)
(***************************************************************************)
FaultKinds == {"disconnect", "senderror", "sigint"}

ASSUME ClientsAssumption == Clients # {}
ASSUME SlotsAssumption ==
    SlotCount \in Nat \ {0, 1, 2} /\ ScanLimit \in 1 .. SlotCount
ASSUME CtxFaultsAssumption == Faults \subseteq FaultKinds
ASSUME MaxClosesAssumption == MaxCloses \in Nat

Slots == 0 .. SlotCount - 1
NoContext == 0               \* NULL; contexts are numbered from 1

Open == 0                    \* FRAME_OP_OPEN | FRAME_DEV_CTX
Clos == 1                    \* FRAME_OP_CLOS | FRAME_DEV_CTX
Hs == SlotCount              \* HANDSHAKE_HEADER: no operation and no context
Words == 0 .. SlotCount      \* also what an uninitialised word may hold

VARIABLES
    \* clients
    client,       \* where a client is
    id,           \* the ctx_id io_create_net_context read
    closes,       \* close frames it sent
    inbox,        \* words on their way to the server
    told,         \* ctx_ids the server sent it ...
    given,        \* ... and the contexts made for them
    \* server
    server,       \* "up", "stopping" once stop ends the loop, or "down" after exit
    listening,    \* connections to accept, oldest first
    jobs,         \* accepted connections no worker has taken
    slots,        \* opened_ctx_list
    created,      \* contexts made by io_create_context
    closed,       \* contexts given to io_close_context ...
    twice,        \* ... and those given to it again, after they were freed
    contested,    \* slots two workers found empty before either had stored
    \* workers, in start_task and handle_context
    pc, conn, op, i, ctx

clientVars == <<client, id, closes>>
poolVars == <<server, listening, jobs>>
toldVars == <<told, given>>
ctxVars == <<slots, created, closed, twice, contested>>
workerVars == <<pc, conn, op, i, ctx>>
vars == <<clientVars, inbox, toldVars, poolVars, ctxVars, workerVars>>

TypeOK ==
    /\ client \in [Clients -> {"new", "connected", "waiting", "open", "failed", "gone"}]
    /\ id \in [Clients -> Words]
    /\ closes \in [Clients -> 0 .. MaxCloses]
    /\ inbox \in [Clients -> Seq(Words)]
    /\ told \in [Clients -> Seq(0 .. ScanLimit - 1)]
    /\ given \in [Clients -> Seq(Nat \ {NoContext})]
    /\ server \in {"up", "stopping", "down"}
    /\ listening \in Seq(Clients) /\ jobs \in Seq(Clients)
    /\ slots \in [Slots -> Nat]
    /\ created \in Nat /\ closed \subseteq 1 .. created /\ twice \subseteq closed
    /\ contested \subseteq 0 .. ScanLimit - 1
    /\ pc \in [Workers -> {"idle", "peek", "handle", "send", "store", "recv"}]
    /\ conn \in [Workers -> Clients]
    /\ op \in [Workers -> Words]
    /\ i \in [Workers -> 0 .. ScanLimit]
    /\ ctx \in [Workers -> Nat]

\* The contexts, the workers and the connections of a process that serves no one.
NoSlots == [s \in Slots |-> NoContext]
NoWork == [pc |-> [w \in Workers |-> "idle"],
           conn |-> [w \in Workers |-> CHOOSE c \in Clients : TRUE],
           op |-> [w \in Workers |-> Hs],
           i |-> [w \in Workers |-> 0],
           ctx |-> [w \in Workers |-> NoContext]]
Empty == [c \in Clients |-> <<>>]

Init ==
    /\ client = [c \in Clients |-> "new"]
    /\ id = [c \in Clients |-> Hs]
    /\ closes = [c \in Clients |-> 0]
    /\ told = Empty /\ server = "up"
    /\ listening = <<>> /\ jobs = <<>> /\ inbox = Empty /\ given = Empty
    /\ slots = NoSlots /\ created = 0 /\ closed = {} /\ twice = {} /\ contested = {}
    /\ pc = NoWork.pc /\ conn = NoWork.conn /\ op = NoWork.op /\ i = NoWork.i
    /\ ctx = NoWork.ctx
-----------------------------------------------------------------------------
(***************************************************************************)
(* A client: io_create_net_context, step by step.                          *)
(***************************************************************************)
Connect(c) ==
    /\ client[c] = "new" /\ server = "up"
    /\ client' = [client EXCEPT ![c] = "connected"]
    /\ listening' = Append(listening, c)
    /\ UNCHANGED <<id, closes, inbox, toldVars, server, jobs, ctxVars, workerVars>>

\* The connection has lost its server: the process is gone, or it closed the
\* listening socket before it accepted the connection.
ServerLost(c) ==
    \/ server = "down"
    \/ server = "stopping" /\ \E n \in 1 .. Len(listening) : listening[n] = c

\* send and recv return -1 and io_create_net_context returns NULL.
Fails(c) ==
    /\ ServerLost(c)
    /\ client' = [client EXCEPT ![c] = "failed"]

SendOpen(c) ==
    /\ client[c] = "connected"
    /\ \/ /\ client' = [client EXCEPT ![c] = "waiting"]
          /\ inbox' = [inbox EXCEPT ![c] = @ \o <<Hs, Open>>]
       \/ Fails(c) /\ UNCHANGED inbox
    /\ UNCHANGED <<id, closes, toldVars, poolVars, ctxVars, workerVars>>

\* The reply, an error, or the end of the stream: only a negative result of recv
\* is an error, so at the end of the stream the id is an uninitialised word.
RecvReply(c) ==
    /\ client[c] = "waiting"
    /\ \/ /\ told[c] # <<>>
          /\ client' = [client EXCEPT ![c] = "open"]
          /\ id' = [id EXCEPT ![c] = told[c][1]]
       \/ /\ told[c] = <<>> /\ ServerLost(c)
          /\ client' = [client EXCEPT ![c] = "open"]
          /\ \E x \in Words : id' = [id EXCEPT ![c] = x]
       \/ Fails(c) /\ UNCHANGED id
    /\ UNCHANGED <<closes, inbox, toldVars, poolVars, ctxVars, workerVars>>

\* A close frame for the client's context, as bbio_backend_net.h lays it out; one
\* that no server can read any more is left out.
SendClose(c) ==
    /\ client[c] = "open" /\ closes[c] < MaxCloses /\ ~ServerLost(c)
    /\ closes' = [closes EXCEPT ![c] = @ + 1]
    /\ inbox' = [inbox EXCEPT ![c] = @ \o <<Hs, Clos, id[c]>>]
    /\ UNCHANGED <<client, id, toldVars, poolVars, ctxVars, workerVars>>

Disconnect(c) ==
    /\ "disconnect" \in Faults /\ client[c] \in {"connected", "waiting", "open"}
    /\ server # "down"
    /\ client' = [client EXCEPT ![c] = "gone"]
    /\ UNCHANGED <<id, closes, inbox, toldVars, poolVars, ctxVars, workerVars>>
-----------------------------------------------------------------------------
(***************************************************************************)
(* server_main.                                                            *)
(***************************************************************************)

\* accept and thpool_add_work.
AcceptOne ==
    /\ listening # <<>>
    /\ listening' = Tail(listening)
    /\ jobs' = Append(jobs, Head(listening))

Accept ==
    /\ server = "up" /\ AcceptOne
    /\ UNCHANGED <<clientVars, inbox, toldVars, server, ctxVars, workerVars>>

\* The process is gone; what it sent can still be read.
Exit ==
    /\ server' = "down"
    /\ listening' = <<>> /\ jobs' = <<>> /\ inbox' = Empty /\ given' = Empty
    /\ slots' = NoSlots /\ created' = 0 /\ closed' = {} /\ twice' = {} /\ contested' = {}
    /\ pc' = NoWork.pc /\ conn' = NoWork.conn /\ op' = NoWork.op /\ i' = NoWork.i
    /\ ctx' = NoWork.ctx
    /\ UNCHANGED <<clientVars, told>>

\* SIGINT sets stop and closes the listening socket.  In accept or on its way
\* there, accept fails and error() exits; if a connection has just been accepted,
\* it becomes a job and the loop ends at its test.
Sigint ==
    /\ "sigint" \in Faults /\ server = "up"
    /\ \/ Exit
       \/ /\ server' = "stopping" /\ AcceptOne
          /\ UNCHANGED <<clientVars, inbox, toldVars, ctxVars, workerVars>>

\* thpool_wait waits for the queue and the workers; nothing tells a worker of stop.
PoolIdle == jobs = <<>> /\ \A w \in Workers : pc[w] = "idle"

\* thpool_wait and thpool_destroy return, and so does main.
ServerReturns ==
    /\ server = "stopping" /\ PoolIdle
    /\ Exit

\* When the workers run: until the process exits.
RunsUntilStop == server = "up"
Runs == server # "down"

\* The pool hands a worker the oldest job.
Take(w) ==
    /\ Runs /\ pc[w] = "idle" /\ jobs # <<>>
    /\ jobs' = Tail(jobs)
    /\ conn' = [conn EXCEPT ![w] = Head(jobs)]
    /\ pc' = [pc EXCEPT ![w] = "peek"]
    /\ UNCHANGED <<clientVars, inbox, toldVars, server, listening, ctxVars, op, i, ctx>>
-----------------------------------------------------------------------------
(***************************************************************************)
(* start_task.                                                             *)
(***************************************************************************)
Gone(w) == client[conn[w]] = "gone"
Arrived(w) == inbox[conn[w]]

\* A blocking recv has something to return: words or the end of the stream.
Readable(w) == Arrived(w) # <<>> \/ Gone(w)

\* recv fails on the socket of a client that went away.
RecvError(w) == Gone(w) /\ "senderror" \in Faults

\* What the k-th word of the buffer may hold after recv.
Received(w, k) == IF Len(Arrived(w)) >= k THEN {Arrived(w)[k]} ELSE Words

\* The words recv leaves after it took up to n of them.
Rest(w, n) == SubSeq(Arrived(w), n + 1, Len(Arrived(w)))

\* Where the worker is when start_task returns: its socket stays open.
Return(w) == pc' = [pc EXCEPT ![w] = "idle"]

Handle(w, o) ==
    /\ op' = [op EXCEPT ![w] = o]
    /\ i' = [i EXCEPT ![w] = 0]
    /\ pc' = [pc EXCEPT ![w] = "handle"]

\* The first recv leaves the frame in the socket.  Only a negative result ends
\* the task; a frame for something else than a context does nothing.
Peek(w) ==
    /\ Runs /\ pc[w] = "peek"
    /\ \/ RecvError(w) /\ Return(w) /\ UNCHANGED <<op, i>>
       \/ Readable(w) /\ \E o \in Received(w, 2) : Handle(w, o)
    /\ UNCHANGED <<clientVars, inbox, toldVars, poolVars, ctxVars, conn, ctx>>

\* What a worker does when recv reports the end of the stream.
IgnoreEof == "handle"
AfterEof == "idle"

\* recv in the loop: the next frame_top.
Recv(w) ==
    /\ Runs /\ pc[w] = "recv"
    /\ \/ RecvError(w) /\ Return(w) /\ UNCHANGED <<op, i, inbox>>
       \/ /\ Arrived(w) = <<>> /\ Gone(w)
          /\ pc' = [pc EXCEPT ![w] = AfterEof]
          /\ UNCHANGED <<op, i, inbox>>
       \/ /\ Arrived(w) # <<>>
          /\ \E o \in Received(w, 2) : Handle(w, o)
          /\ inbox' = [inbox EXCEPT ![conn[w]] = Rest(w, 2)]
    /\ UNCHANGED <<clientVars, toldVars, poolVars, ctxVars, conn, ctx>>
-----------------------------------------------------------------------------
(***************************************************************************)
(* handle_context.                                                         *)
(***************************************************************************)

\* The bound of the loop over opened_ctx_list.
ScanEnd == ScanLimit

\* The other workers between the test of a slot and its assignment.
Pending(w) == {x \in Workers \ {w} : pc[x] \in {"send", "store"}}

\* FRAME_OP_OPEN: the loop looks at one slot, and makes a context for it if it
\* is empty.
Scan(w) ==
    /\ Runs /\ pc[w] = "handle" /\ op[w] = Open /\ i[w] < ScanEnd
    /\ \/ /\ slots[i[w]] # NoContext
          /\ i' = [i EXCEPT ![w] = @ + 1]
          /\ UNCHANGED <<pc, ctx, created, contested>>
       \/ /\ slots[i[w]] = NoContext
          /\ created' = created + 1
          /\ ctx' = [ctx EXCEPT ![w] = created + 1]
          /\ pc' = [pc EXCEPT ![w] = "send"]
          /\ contested' = contested \cup ({i[w]} \cap {i[x] : x \in Pending(w)})
          /\ UNCHANGED i
    /\ UNCHANGED <<clientVars, inbox, toldVars, poolVars, slots, closed, twice, conn, op>>

\* No slot is empty, or the operation is unknown: handle_context returns -1,
\* and the task ends without an answer.
Refuse(w) ==
    /\ Runs /\ pc[w] = "handle"
    /\ (op[w] = Open => i[w] >= ScanEnd) /\ op[w] # Clos
    /\ Return(w)
    /\ UNCHANGED <<clientVars, inbox, toldVars, poolVars, ctxVars, conn, op, i, ctx>>

\* The answer the client gets.
AnswerNothing(w) == told[conn[w]]
Answer(w) == Append(told[conn[w]], i[w])

\* The answer is sent before the slot is filled; if it cannot be sent, the
\* context is closed and the slot cleared, whoever may have filled it.
Send(w) ==
    /\ Runs /\ pc[w] = "send"
    /\ \/ /\ told' = [told EXCEPT ![conn[w]] = Answer(w)]
          /\ given' = [given EXCEPT ![conn[w]] = Append(@, ctx[w])]
          /\ pc' = [pc EXCEPT ![w] = "store"]
          /\ UNCHANGED <<slots, closed>>
       \/ /\ Gone(w) /\ "senderror" \in Faults
          /\ closed' = closed \cup {ctx[w]}
          /\ slots' = [slots EXCEPT ![i[w]] = NoContext]
          /\ Return(w)
          /\ UNCHANGED toldVars
    /\ UNCHANGED <<clientVars, inbox, poolVars, created, twice, contested, conn, op, i, ctx>>

\* opened_ctx_list after the assignment that ends an open.
StoreNothing(w) == slots
Stored(w) == [slots EXCEPT ![i[w]] = ctx[w]]

Store(w) ==
    /\ Runs /\ pc[w] = "store"
    /\ slots' = Stored(w)
    /\ pc' = [pc EXCEPT ![w] = "recv"]
    /\ UNCHANGED <<clientVars, inbox, toldVars, poolVars, created, closed, twice,
                   contested, conn, op, i, ctx>>

\* The test of a ctx_id a client sent.
InUseOrNull(s) == s \in Slots
InUse(s) == s \in Slots /\ slots[s] # NoContext

\* FRAME_OP_CLOS: a whole frame_ctx_top is read, although its frame_top has
\* been taken from the socket unless it was the first frame; the context is
\* closed and stays in its slot.
CloseContext(w) ==
    /\ Runs /\ pc[w] = "handle" /\ op[w] = Clos
    /\ \/ RecvError(w) /\ Return(w) /\ UNCHANGED <<inbox, closed, twice>>
       \/ /\ Readable(w)
          /\ inbox' = [inbox EXCEPT ![conn[w]] = Rest(w, 3)]
          /\ \E s \in Received(w, 3) :
                \/ /\ InUse(s)
                   /\ closed' = closed \cup {slots[s]}
                   /\ twice' = twice \cup ({slots[s]} \cap closed)
                   /\ pc' = [pc EXCEPT ![w] = "recv"]
                \/ /\ ~InUse(s)
                   /\ Return(w)
                   /\ UNCHANGED <<closed, twice>>
    /\ UNCHANGED <<clientVars, toldVars, poolVars, slots, created, contested, conn, op, i, ctx>>
-----------------------------------------------------------------------------
ClientStep(c) == SendOpen(c) \/ RecvReply(c)

WorkerStep(w) ==
    \/ Take(w) \/ Peek(w) \/ Recv(w)
    \/ Scan(w) \/ Refuse(w) \/ Send(w) \/ Store(w) \/ CloseContext(w)

Next ==
    \/ \E c \in Clients : Connect(c) \/ ClientStep(c) \/ SendClose(c) \/ Disconnect(c)
    \/ Accept \/ Sigint \/ ServerReturns
    \/ \E w \in Workers : WorkerStep(w)

Spec == Init /\ [][Next]_vars

(***************************************************************************)
(* Threads that can run are scheduled, in the server and in a client that  *)
(* has begun io_create_net_context.  Nothing makes a client connect, close *)
(* its context or go away.                                                 *)
(***************************************************************************)
Fairness ==
    /\ WF_vars(Accept) /\ WF_vars(ServerReturns)
    /\ \A c \in Clients : WF_vars(ClientStep(c))
    /\ \A w \in Workers : WF_vars(WorkerStep(w))

FairSpec == Spec /\ Fairness
-----------------------------------------------------------------------------
(***************************************************************************)
(* Properties.                                                             *)
(***************************************************************************)

(***************************************************************************)
(* A client has its own context: each slot it was told of holds the very   *)
(* context made for that answer, or the context has been closed.  The      *)
(* answer goes out before the slot is filled, a failed answer clears a     *)
(* slot, and nothing locks the list; but a context can be overwritten or   *)
(* dropped only in a slot that two workers found empty at the same time.   *)
(***************************************************************************)
OwnContextInSlot ==
    \A w \in Workers : pc[w] \notin {"idle", "store"} =>
        \A k \in 1 .. Len(told[conn[w]]) :
            \/ slots[told[conn[w]][k]] = given[conn[w]][k]
            \/ given[conn[w]][k] \in closed
            \/ told[conn[w]][k] \in contested

(***************************************************************************)
(* A server that saw stop at its loop test exits once its clients have     *)
(* gone, although thpool_wait waits for every worker, no worker looks at   *)
(* stop, and a connection is still added to the queue after the signal.    *)
(***************************************************************************)
StopEnds ==
    server = "stopping" /\ (\A c \in Clients : client[c] \in {"new", "failed", "gone"})
        ~> server = "down"

(***************************************************************************)
(* A client that goes away does not keep a worker: the pool has only a     *)
(* few, and each stays with its connection until the server exits.         *)
(***************************************************************************)
WorkersReturn ==
    \A c \in Clients : \A w \in Workers :
        conn[w] = c /\ pc[w] # "idle" /\ client[c] = "gone"
            ~> pc[w] = "idle" \/ conn[w] # c \/ server = "down"

(***************************************************************************)
(* io_create_net_context returns unless its client goes away, for as many  *)
(* clients as there are workers and as the slots suffice for: each open    *)
(* takes two, and the last client needs one to be answered.                *)
(***************************************************************************)
ClientsAnswered ==
    \A c \in Clients : client[c] = "connected" ~> client[c] \in {"open", "failed", "gone"}

(***************************************************************************)
(* The socket identifies the context, as server_main's comment has it: no  *)
(* two clients are told the same id.                                       *)
(***************************************************************************)
ContextIdentifiesClient ==
    \A c, d \in Clients : c # d =>
        \A k \in 1 .. Len(told[c]), m \in 1 .. Len(told[d]) : told[c][k] # told[d][m]
=============================================================================
