----------------------------- MODULE NetDevice -----------------------------
(***************************************************************************)
(* One device opened over the network: the library's calls on the client   *)
(* (lib/bbio/src/bbio_backend_net.c), the handler that serves the          *)
(* connection on the board (client_mapped_channel and client_stream_channel*)
(* of userspace/io_backend/src/io_backend.c with io_backend_call.c) and    *)
(* the registers or the stream device behind it.  The handlers run as the  *)
(* dispatcher they were written for runs them, in a process per connection *)
(* that exits when they return; server_main has it in a comment.           *)
(*                                                                         *)
(* A socket carries units: a command byte, a 32-bit word, or one sample.   *)
(* A command or word arrives whole; samples arrive in pieces of any size.  *)
(* Whoever closes a socket with unread bytes resets the connection, and    *)
(* what it had not yet sent is dropped.                                    *)
(***************************************************************************)
EXTENDS Integers, Sequences, FiniteSets, SequencesExt

CONSTANTS
    Kinds,        \* the devices clients open, a subset of AllKinds
    FrameSize,    \* samples in a frame the client writes or the server sends
    BufferSize,   \* samples in a buffer of the transmit device, stream_size
    RingSize,     \* buffers of the receive device
    PacketSize,   \* samples the receive device puts into a buffer
    SizeModulus,  \* recv_size is counted modulo this, 2^32
    RegCount,     \* registers of the mapped device, 512 in io_add_mapped_device
    Values,       \* what the client writes to registers
    MaxCalls,     \* bound: calls on a mapped device
    MaxFrames,    \* bound: calls on a stream device
    Window,       \* units a direction of the connection holds before send blocks
    Faults        \* what may happen, a subset of NetFaultKinds

AllKinds == {"mapped", "tx", "rx"}

(***************************************************************************)
(* kill        the client ends in the middle of a call                     *)
(* openfails   the server cannot open the device                           *)
(* timeout     the stream device yields no buffer within its time          *)
(* sigint      the server is interrupted from its terminal                 *)
(***************************************************************************)
NetFaultKinds == {"kill", "openfails", "timeout", "sigint"}

ASSUME KindsAssumption == Kinds \subseteq AllKinds
ASSUME SizesAssumption ==
    /\ FrameSize \in Nat \ {0} /\ BufferSize \in Nat \ {0}
    /\ RingSize \in Nat \ {0} /\ RegCount \in Nat \ {0}
    /\ PacketSize \in Nat /\ Values \subseteq Nat
\* A frame is far from the largest size.
ASSUME ModulusAssumption == SizeModulus \in Nat /\ SizeModulus > FrameSize + 1
\* The client's frames fill a buffer of the server exactly.
ASSUME FrameAssumption == BufferSize % FrameSize = 0
ASSUME NetFaultsAssumption == Faults \subseteq NetFaultKinds
ASSUME NetBoundsAssumption == MaxCalls \in Nat /\ MaxFrames \in Nat /\ Window \in Nat

Addresses == 0 .. RegCount + 1
AllOnes == -1                \* what io_read_local returns for a bad address
Junk == 0                    \* what memory held; samples count from 1

\* Units: what it is, and a value where it has one.
Tags == {"handshake", "ack", "path", "fd", "write", "read", "tx", "rx", "frame",
         "word", "sample"}
Units == Tags \X Int
Cmd(c) == <<c, 0>>
Word(n) == <<"word", n>>
Sample(n) == <<"sample", n>>
Samples(s) == [n \in DOMAIN s |-> Sample(s[n])]

VARIABLES
    kind,         \* the device the client opens
    \* client
    cpc,          \* where it is
    calls,        \* calls it has begun
    handshaked,   \* state->handshaked
    call,         \* address and value of a register call
    shadow,       \* the registers as the client's writes leave them
    last,         \* a register read that just returned: address, result, answered
    wrote,        \* samples given to io_write_stream_net
    got,          \* samples io_read_stream_net_basic stored
    remain,       \* its remain_size
    \* connection
    up, down,     \* units under way to the server, to the client
    line,         \* the server's end: "up", "fin", "rst", "dead", or "closed" by it
    \* server
    spc,          \* where it is
    start,        \* start_cmd, the last command of a transmit stream
    size,         \* recv_size
    addr,         \* the address of a register call
    buf,          \* samples in the buffer being filled: buffer_ptr is its length
    noBuffer,     \* io_stream_get_buffer returned NULL
    \* devices
    regs, stream, ring, cur, packets

clientVars == <<cpc, calls, handshaked, call, shadow, last, wrote, got, remain>>
serverVars == <<start, size, addr, buf, noBuffer>>
deviceVars == <<regs, stream, ring, cur, packets>>
vars == <<kind, clientVars, up, down, line, spc, serverVars, deviceVars>>

NoCall == <<0, 0>>
NoRead == <<>>

\* How many calls the client makes on its device.
Limit == IF kind = "mapped" THEN MaxCalls ELSE MaxFrames

ClientType ==
    /\ cpc \in {"new", "ack", "path", "fd", "ready", "waddr", "wvalue", "raddr",
                "value", "write", "head", "size", "data", "spin", "gone"}
    /\ calls \in 0 .. Limit /\ handshaked \in BOOLEAN
    /\ call \in Addresses \X Int
    /\ last \in (Addresses \X Int \X BOOLEAN) \cup {NoRead}
    /\ shadow \in [0 .. RegCount -> Int]
    /\ wrote \in Seq(Nat) /\ got \in Seq(Nat) /\ remain \in 0 .. FrameSize

LinkType ==
    /\ up \in Seq(Units) /\ down \in Seq(Units)
    /\ Len(up) <= Window /\ Len(down) <= Window
    /\ line \in {"up", "fin", "rst", "dead", "closed"}

ServerType ==
    /\ spc \in {"hs", "option", "add", "cmd", "waddr", "wvalue", "raddr", "reply",
                "whead", "wsize", "wdata", "wack", "rsend", "rread",
                "close", "done", "killed"}
    /\ start \in {"write", "other"} /\ size \in 0 .. SizeModulus - 1
    /\ addr \in Addresses
    /\ buf \in Seq(Nat) /\ Len(buf) < BufferSize /\ noBuffer \in BOOLEAN

DeviceType ==
    /\ regs \in [0 .. RegCount -> Int] /\ stream \in Seq(Nat)
    /\ ring \in [0 .. RingSize - 1 -> Nat] /\ cur \in 0 .. RingSize - 1
    /\ packets \in Nat

TypeOK == kind \in Kinds /\ ClientType /\ LinkType /\ ServerType /\ DeviceType

Init ==
    /\ kind \in Kinds
    /\ cpc = "new" /\ calls = 0 /\ handshaked = FALSE
    /\ call = NoCall /\ last = NoRead
    /\ regs = [a \in 0 .. RegCount |-> 0] /\ shadow = regs
    /\ wrote = <<>> /\ got = <<>> /\ remain = 0
    /\ up = <<>> /\ down = <<>> /\ line = "up"
    /\ spc = "hs" /\ start = "other" /\ size = 0 /\ addr = 0 /\ buf = <<>>
    /\ noBuffer = FALSE
    /\ stream = <<>>
    /\ ring = [b \in 0 .. RingSize - 1 |-> Junk] /\ cur = 0 /\ packets = 0
-----------------------------------------------------------------------------
(***************************************************************************)
(* The mapped device under the handler: io_write_local and io_read_local.  *)
(* Register RegCount is the word after the last one.                       *)
(***************************************************************************)
InRange(a) == a <= RegCount
WriteLocal(r, a, v) == IF InRange(a) THEN [r EXCEPT ![a] = v] ELSE r
ReadLocal(r, a) == IF InRange(a) THEN r[a] ELSE AllOnes
-----------------------------------------------------------------------------
(***************************************************************************)
(* Sockets.                                                                *)
(***************************************************************************)
Ended == spc \in {"done", "killed"}

\* The client sends s, which blocks while there is no room.
ClientSends(s) ==
    /\ Len(up) + Len(s) <= Window
    /\ up' = up \o s

\* The client receives a unit.
ClientReceives(u) ==
    /\ down # <<>> /\ u = Head(down)
    /\ down' = Tail(down)

\* The client's recv reports the end of the stream, or an error, which no call
\* tells apart from it.
Closed == line = "closed"
ClientEof == down = <<>> /\ (Ended \/ Closed)

\* What recv reports to the server: units, the end of the stream, the error of a
\* reset connection, once, or that of a descriptor it has closed.
Arrived == up # <<>> /\ ~Closed
Eof == up = <<>> /\ line \in {"fin", "dead"}
Error == up = <<>> /\ line = "rst" /\ line' = "dead"
BadDescriptor == Closed /\ UNCHANGED line
NoUnit == UNCHANGED up /\ ((Eof /\ UNCHANGED line) \/ Error \/ BadDescriptor)

\* The server sends s and goes on at ok, or at failed if send reports an error.
\* Once the error has been reported, send raises SIGPIPE.
ServerSends(s, ok, failed) ==
    \/ /\ line \in {"up", "fin"} /\ Len(down) + Len(s) <= Window
       /\ down' = down \o s
       /\ spc' = ok
       /\ UNCHANGED line
    \/ /\ (line = "rst" /\ line' = "dead") \/ BadDescriptor
       /\ spc' = failed
       /\ UNCHANGED down
    \/ /\ line = "dead"
       /\ spc' = "killed"
       /\ UNCHANGED <<down, line>>

\* A segment for a socket that was closed is answered with a reset.
Reset ==
    /\ line = "fin" /\ down # <<>>
    /\ line' = "dead"
    /\ UNCHANGED <<kind, clientVars, up, down, spc, serverVars, deviceVars>>

\* The client's socket is closed: io_close_mapped_net, io_close_stream_net, or
\* the kernel when the client ends.  The acknowledgements of a transmit stream
\* are never read, so closing it is a reset.
Hangup ==
    /\ cpc' = "gone"
    /\ \/ Closed /\ UNCHANGED <<up, line>>
       \/ ~Closed /\ down = <<>> /\ line' = "fin" /\ UNCHANGED up
       \/ /\ ~Closed /\ down # <<>> /\ line' = "rst"
          /\ \E n \in 0 .. Len(up) : up' = SubSeq(up, 1, n)
    /\ UNCHANGED <<kind, calls, handshaked, call, shadow, last, wrote, got, remain,
                   down, spc, serverVars, deviceVars>>

CloseDevice == cpc = "ready" /\ Hangup

Kill == "kill" \in Faults /\ cpc \notin {"new", "ready", "gone"} /\ Hangup

\* A send to a server that ended or closed its socket raises SIGPIPE in the client.
Sigpipe ==
    /\ Ended \/ Closed
    /\ cpc \in {"path", "waddr", "wvalue", "raddr", "write"}
    /\ Hangup
-----------------------------------------------------------------------------
(***************************************************************************)
(* The client opens the device: io_open_mapped_net, io_open_stream_net.    *)
(***************************************************************************)
Handshake ==
    /\ cpc = "new"
    /\ ClientSends(<<Cmd("handshake")>>)
    /\ cpc' = "ack"
    /\ UNCHANGED <<kind, calls, handshaked, call, shadow, last, wrote, got, remain,
                   down, line, spc, serverVars, deviceVars>>

HandshakeAck ==
    /\ cpc = "ack"
    /\ ClientReceives(Cmd("ack"))
    /\ cpc' = "path"
    /\ UNCHANGED <<kind, calls, handshaked, call, shadow, last, wrote, got, remain,
                   up, line, spc, serverVars, deviceVars>>

\* io_open_remote_device: path and size.
OpenRemoteDevice ==
    /\ cpc = "path"
    /\ ClientSends(<<Cmd("path")>>)
    /\ cpc' = "fd"
    /\ UNCHANGED <<kind, calls, handshaked, call, shadow, last, wrote, got, remain,
                   down, line, spc, serverVars, deviceVars>>

DeviceOpened ==
    /\ cpc = "fd"
    /\ ClientReceives(Cmd("fd"))
    /\ cpc' = "ready"
    /\ UNCHANGED <<kind, calls, handshaked, call, shadow, last, wrote, got, remain,
                   up, line, spc, serverVars, deviceVars>>

\* No answer: open_mapped and open_stream return NULL, which their callers write
\* through, so the client ends.
OpenFailed == cpc \in {"ack", "fd"} /\ ClientEof /\ Hangup
-----------------------------------------------------------------------------
(***************************************************************************)
(* Register calls: io_write_net has no answer, io_read_net waits for one.  *)
(***************************************************************************)
BeginCall == cpc = "ready" /\ calls < Limit /\ calls' = calls + 1

WriteNet(a, v) ==
    /\ kind = "mapped" /\ BeginCall
    /\ ClientSends(<<Cmd("write")>>)
    /\ call' = <<a, v>>
    /\ last' = NoRead
    /\ cpc' = "waddr"
    /\ UNCHANGED <<kind, handshaked, shadow, wrote, got, remain,
                   down, line, spc, serverVars, deviceVars>>

ReadNet(a) ==
    /\ kind = "mapped" /\ BeginCall
    /\ ClientSends(<<Cmd("read")>>)
    /\ call' = <<a, 0>>
    /\ last' = NoRead
    /\ cpc' = "raddr"
    /\ UNCHANGED <<kind, handshaked, shadow, wrote, got, remain,
                   down, line, spc, serverVars, deviceVars>>

CallAddr ==
    /\ cpc \in {"waddr", "raddr"}
    /\ ClientSends(<<Word(call[1])>>)
    /\ cpc' = IF cpc = "waddr" THEN "wvalue" ELSE "value"
    /\ UNCHANGED <<kind, calls, handshaked, call, shadow, last, wrote, got, remain,
                   down, line, spc, serverVars, deviceVars>>

CallValue ==
    /\ cpc = "wvalue"
    /\ ClientSends(<<Word(call[2])>>)
    /\ shadow' = WriteLocal(shadow, call[1], call[2])
    /\ cpc' = "ready"
    /\ UNCHANGED <<kind, calls, handshaked, call, last, wrote, got, remain,
                   down, line, spc, serverVars, deviceVars>>

CallReturn ==
    /\ cpc = "value" /\ down # <<>>
    /\ ClientReceives(Head(down))
    /\ last' = <<call[1], Head(down)[2], TRUE>>
    /\ cpc' = "ready"
    /\ UNCHANGED <<kind, calls, handshaked, call, shadow, wrote, got, remain,
                   up, line, spc, serverVars, deviceVars>>

\* recv reports no answer, which io_read_net does not look at: it returns the
\* uninitialised value.
CallUnanswered ==
    /\ cpc = "value" /\ ClientEof
    /\ \E v \in Values : last' = <<call[1], v, FALSE>>
    /\ cpc' = "ready"
    /\ UNCHANGED <<kind, calls, handshaked, call, shadow, wrote, got, remain,
                   up, down, line, spc, serverVars, deviceVars>>
-----------------------------------------------------------------------------
(***************************************************************************)
(* Stream calls: io_write_stream_net and io_read_stream_net_basic.  The    *)
(* first call on a device announces the direction.                         *)
(***************************************************************************)
StartStream ==
    /\ kind # "mapped" /\ BeginCall
    /\ \/ ~handshaked /\ ClientSends(<<Cmd(kind)>>)
       \/ handshaked /\ UNCHANGED up
    /\ handshaked' = TRUE
    /\ cpc' = IF kind = "tx" THEN "write" ELSE "head"
    /\ UNCHANGED <<kind, call, shadow, last, wrote, got, remain,
                   down, line, spc, serverVars, deviceVars>>

\* The samples of the n-th frame.
Frame(n) == [k \in 1 .. FrameSize |-> (n - 1) * FrameSize + k]

\* writev of command, size and samples.
WriteStreamNet ==
    /\ cpc = "write"
    /\ ClientSends(<<Cmd("tx"), Word(FrameSize)>> \o Samples(Frame(calls)))
    /\ wrote' = wrote \o Frame(calls)
    /\ cpc' = "ready"
    /\ UNCHANGED <<kind, calls, handshaked, call, shadow, last, got, remain,
                   down, line, spc, serverVars, deviceVars>>

\* The header of a frame, or nothing: then the call returns 0.
ReadHead ==
    /\ cpc = "head"
    /\ \/ ClientReceives(Cmd("frame")) /\ cpc' = "size"
       \/ ClientEof /\ cpc' = "ready" /\ UNCHANGED down
    /\ UNCHANGED <<kind, calls, handshaked, call, shadow, last, wrote, got, remain,
                   up, line, spc, serverVars, deviceVars>>

ReadSize ==
    /\ cpc = "size"
    /\ \/ ClientReceives(Word(FrameSize)) /\ remain' = FrameSize /\ cpc' = "data"
       \/ ClientEof /\ cpc' = "ready" /\ UNCHANGED <<down, remain>>
    /\ UNCHANGED <<kind, calls, handshaked, call, shadow, last, wrote, got,
                   up, line, spc, serverVars, deviceVars>>

\* How much recv may return.
Pieces(s, n) == {k \in 1 .. n : k <= Len(s)}
Contents(s, n) == [k \in 1 .. n |-> s[k][2]]

\* One recv of the loop.
RemainWhole(k) == 0
RemainAfter(k) == remain - k

ReadData ==
    /\ cpc = "data"
    /\ \E k \in Pieces(down, remain) :
          /\ got' = got \o Contents(down, k)
          /\ down' = SubSeq(down, k + 1, Len(down))
          /\ remain' = RemainAfter(k)
          /\ cpc' = IF remain' = 0 THEN "ready" ELSE "data"
    /\ UNCHANGED <<kind, calls, handshaked, call, shadow, last, wrote,
                   up, line, spc, serverVars, deviceVars>>

\* The stream ends in a frame: recv returns 0 from now on, after an error -1 once,
\* and neither makes remain_size 0.
ReadForever ==
    /\ cpc = "data" /\ ClientEof
    /\ cpc' = "spin"
    /\ UNCHANGED <<kind, calls, handshaked, call, shadow, last, wrote, got, remain,
                   up, down, line, spc, serverVars, deviceVars>>
-----------------------------------------------------------------------------
(***************************************************************************)
(* The server opens the device: client_finish_handshake,                   *)
(* client_deivce_option, io_add_mapped_device or io_add_stream_device.     *)
(***************************************************************************)

\* The handshake has been read; its acknowledgement is not checked for errors.
FinishHandshake ==
    /\ spc = "hs"
    /\ \/ Arrived /\ up' = Tail(up) /\ ServerSends(<<Cmd("ack")>>, "option", "option")
       \/ NoUnit /\ spc' = "done" /\ UNCHANGED down
    /\ UNCHANGED <<kind, clientVars, serverVars, deviceVars>>

\* Without the path the open of an arbitrary one fails, which ends the process.
DeviceOption ==
    /\ spc = "option"
    /\ \/ /\ Arrived /\ up' = Tail(up) /\ UNCHANGED line
          /\ \/ spc' = "add"
             \/ "openfails" \in Faults /\ spc' = "killed"
       \/ NoUnit /\ spc' = "killed"
    /\ UNCHANGED <<kind, clientVars, down, serverVars, deviceVars>>

AddDevice ==
    /\ spc = "add"
    /\ ServerSends(<<Cmd("fd")>>, "cmd", "cmd")
    /\ UNCHANGED <<kind, clientVars, up, serverVars, deviceVars>>

\* io_sync_stream_device, io_close_context, and the exit of the process.
CloseChannel ==
    /\ spc = "close"
    /\ spc' = "done"
    /\ UNCHANGED <<kind, clientVars, up, down, line, serverVars, deviceVars>>
-----------------------------------------------------------------------------
(***************************************************************************)
(* client_mapped_cmd_handle, client_cmd_write and client_cmd_read.  Only   *)
(* the end of the stream at a command, or stop, ends the loop.  A          *)
(* parameter that did not arrive is uninitialised.                         *)
(***************************************************************************)

\* Where the handler is after the end of the stream or the interrupt, which sets
\* stop.
IgnoreEof == "cmd"
AfterEof == "close"

MappedCmd ==
    /\ kind = "mapped" /\ spc = "cmd"
    /\ \/ /\ Arrived /\ up' = Tail(up) /\ UNCHANGED line
          /\ spc' = IF Head(up) = Cmd("write") THEN "waddr" ELSE "raddr"
       \/ (Eof \/ Closed) /\ spc' = AfterEof /\ UNCHANGED <<up, line>>
       \/ Error /\ UNCHANGED <<up, spc>>
    /\ UNCHANGED <<kind, clientVars, down, serverVars, deviceVars>>

ParamAddr ==
    /\ spc \in {"waddr", "raddr"}
    /\ \/ Arrived /\ addr' = Head(up)[2] /\ up' = Tail(up) /\ UNCHANGED line
       \/ NoUnit /\ addr' \in Addresses
    /\ spc' = IF spc = "waddr" THEN "wvalue" ELSE "reply"
    /\ UNCHANGED <<kind, clientVars, down, start, size, buf, noBuffer, deviceVars>>

\* The register file after client_cmd_write got v.
WriteSwapped(v) == WriteLocal(regs, v, addr)
Written(v) == WriteLocal(regs, addr, v)

CmdWrite ==
    /\ spc = "wvalue"
    /\ \/ /\ Arrived /\ up' = Tail(up) /\ UNCHANGED line
          /\ regs' = Written(Head(up)[2])
       \/ NoUnit /\ \E v \in Values : regs' = Written(v)
    /\ spc' = "cmd"
    /\ UNCHANGED <<kind, clientVars, down, serverVars, stream, ring, cur, packets>>

CmdRead ==
    /\ spc = "reply"
    /\ ServerSends(<<Word(ReadLocal(regs, addr))>>, "cmd", "cmd")
    /\ UNCHANGED <<kind, clientVars, up, serverVars, deviceVars>>
-----------------------------------------------------------------------------
(***************************************************************************)
(* client_stream_cmd_handle: one command, then the channel is closed.      *)
(***************************************************************************)

\* io_stream_get_buffer, which may time out.
GetBuffer == noBuffer' \in {FALSE} \cup (IF "timeout" \in Faults THEN {TRUE} ELSE {})

StreamCmd ==
    /\ kind # "mapped" /\ spc = "cmd"
    /\ \/ /\ Arrived /\ up' = Tail(up) /\ UNCHANGED line
          /\ spc' = IF Head(up) = Cmd("tx") THEN "whead" ELSE "rsend"
          /\ start' \in {"write", "other"}
          /\ GetBuffer
       \/ NoUnit /\ spc' = "close" /\ UNCHANGED <<start, noBuffer>>
    /\ UNCHANGED <<kind, clientVars, down, size, addr, buf, deviceVars>>
-----------------------------------------------------------------------------
(***************************************************************************)
(* client_cmd_write_stream_inf.  The results of the first two recv are not *)
(* looked at: without a unit the command and the size stay as they were.   *)
(***************************************************************************)
WriteHead ==
    /\ spc = "whead"
    /\ \/ /\ Arrived /\ up' = Tail(up) /\ UNCHANGED line
          /\ start' = IF Head(up) = Cmd("tx") THEN "write" ELSE "other"
       \/ NoUnit /\ UNCHANGED start
    /\ spc' = IF start' = "write" THEN "wsize" ELSE "wack"
    /\ UNCHANGED <<kind, clientVars, down, size, addr, buf, noBuffer, deviceVars>>

WriteSize ==
    /\ spc = "wsize"
    /\ \/ Arrived /\ size' = Head(up)[2] /\ up' = Tail(up) /\ UNCHANGED line
       \/ NoUnit /\ UNCHANGED size
    /\ spc' = "wdata"
    /\ UNCHANGED <<kind, clientVars, down, start, addr, buf, noBuffer, deviceVars>>

\* The device gets the first BufferSize samples of a full buffer, and the next
\* buffer is filled from its start.
SubmitTwice(b) ==
    \/ /\ Len(b) >= BufferSize
       /\ stream' = stream \o b \o b
       /\ buf' = <<>>
       /\ GetBuffer
    \/ /\ Len(b) < BufferSize
       /\ buf' = b
       /\ UNCHANGED <<stream, noBuffer>>

SubmitLate(b) ==
    \/ Len(b) > BufferSize /\ stream' = stream \o b /\ buf' = <<>> /\ GetBuffer
    \/ Len(b) <= BufferSize /\ buf' = b /\ UNCHANGED <<stream, noBuffer>>

SubmitFull(b) ==
    \/ /\ Len(b) >= BufferSize
       /\ stream' = stream \o SubSeq(b, 1, BufferSize)
       /\ buf' = <<>>
       /\ GetBuffer
    \/ /\ Len(b) < BufferSize
       /\ buf' = b
       /\ UNCHANGED <<stream, noBuffer>>

\* One recv of samples, for a frame that is not complete.
ReceivePiece ==
    /\ ~Closed
    /\ \E k \in Pieces(up, size) :
          /\ up' = SubSeq(up, k + 1, Len(up))
          /\ size' = size - k
          /\ SubmitFull(buf \o Contents(up, k))
    /\ UNCHANGED <<line, spc>>

\* The result of recv is unsigned, so an error counts as -1 samples: the size
\* grows by one and the position goes back by one, which from 0 wraps round and
\* submits a buffer nobody filled.  On a closed descriptor this goes on until the
\* size wraps round.
ReceiveError ==
    /\ Error \/ BadDescriptor
    /\ size' = (size + 1) % SizeModulus
    /\ \/ buf # <<>> /\ buf' = Front(buf) /\ UNCHANGED <<stream, noBuffer>>
       \/ /\ buf = <<>> /\ stream' = stream \o [k \in 1 .. BufferSize |-> Junk]
          /\ GetBuffer /\ UNCHANGED buf
    /\ UNCHANGED <<up, spc>>

\* Without a buffer recv fails, and the NULL that is then submitted kills the
\* process; at the end of the stream recv does not touch the buffer.
WriteData ==
    /\ spc = "wdata"
    /\ \/ /\ size = 0 \/ Eof
          /\ spc' = "wack"
          /\ UNCHANGED <<up, line, size, buf, noBuffer, stream>>
       \/ size > 0 /\ ~noBuffer /\ (ReceivePiece \/ ReceiveError)
       \/ /\ size > 0 /\ noBuffer /\ (Arrived \/ line \in {"rst", "closed"})
          /\ spc' = "killed"
          /\ UNCHANGED <<up, line, size, buf, noBuffer, stream>>
    /\ UNCHANGED <<kind, clientVars, down, start, addr, regs, ring, cur, packets>>

\* The acknowledgement, which is how the server notices that the client stopped.
WriteAck ==
    /\ spc = "wack"
    /\ ServerSends(<<Cmd("ack")>>, "whead", "close")
    /\ UNCHANGED <<kind, clientVars, up, serverVars, deviceVars>>
-----------------------------------------------------------------------------
(***************************************************************************)
(* client_cmd_read_stream_inf: the first FrameSize samples of a buffer are *)
(* sent, whatever the device put there; then it is cleared and given to    *)
(* the device, and io_sync_stream_device lets the device fill it before    *)
(* the next one is sent.  A new ring holds nothing that was received.      *)
(***************************************************************************)

\* The k-th sample of a buffer that holds packet p, or none, p = 0.
InPacket(p, k) == IF p = 0 \/ k > PacketSize THEN Junk ELSE (p - 1) * PacketSize + k
FrameSent ==
    <<Cmd("frame"), Word(FrameSize)>>
        \o Samples([k \in 1 .. FrameSize |-> InPacket(ring[cur], k)])

ReadSend ==
    /\ spc = "rsend"
    /\ \/ /\ ~noBuffer
          /\ ServerSends(FrameSent, "rread", "close")
       \/ /\ noBuffer                     \* writev refuses the address
          /\ spc' = "close" /\ UNCHANGED <<down, line>>
    /\ UNCHANGED <<kind, clientVars, up, serverVars, deviceVars>>

RefillNothing == ring
Refilled == [ring EXCEPT ![cur] = packets + 1]

ReadStart ==
    /\ spc = "rread"
    /\ ring' = Refilled
    /\ packets' = packets + 1
    /\ cur' = (cur + 1) % RingSize
    /\ GetBuffer
    /\ spc' = "rsend"
    /\ UNCHANGED <<kind, clientVars, up, down, line, start, size, addr, buf,
                   regs, stream>>
-----------------------------------------------------------------------------
(***************************************************************************)
(* The handler of SIGINT sets stop and closes the connection under the     *)
(* handlers, which go on.  A writev it interrupts half done counts as done.*)
(***************************************************************************)
Sigint ==
    /\ "sigint" \in Faults /\ ~Closed /\ ~Ended
    /\ line' = "closed"
    /\ \/ \E n \in 0 .. Len(down) :
             /\ up = <<>> => n = Len(down)
             /\ down' = SubSeq(down, 1, n)
             /\ UNCHANGED spc
       \/ /\ spc = "rsend" /\ ~noBuffer
          /\ \E n \in 1 .. FrameSize + 1 :
                /\ Len(down) + n <= Window
                /\ down' = down \o SubSeq(FrameSent, 1, n)
          /\ spc' = "rread"
    /\ UNCHANGED <<kind, clientVars, up, serverVars, deviceVars>>
-----------------------------------------------------------------------------
ClientStep ==
    \/ Handshake \/ HandshakeAck \/ OpenRemoteDevice \/ DeviceOpened \/ OpenFailed
    \/ CallAddr \/ CallValue \/ CallReturn \/ CallUnanswered
    \/ WriteStreamNet \/ ReadHead \/ ReadSize \/ ReadData \/ ReadForever

ClientCall ==
    \/ \E a \in Addresses : ReadNet(a) \/ \E v \in Values : WriteNet(a, v)
    \/ StartStream \/ CloseDevice

ServerStep ==
    \/ FinishHandshake \/ DeviceOption \/ AddDevice \/ CloseChannel
    \/ MappedCmd \/ ParamAddr \/ CmdWrite \/ CmdRead
    \/ StreamCmd \/ WriteHead \/ WriteSize \/ WriteData \/ WriteAck
    \/ ReadSend \/ ReadStart

Next == ClientStep \/ ClientCall \/ Kill \/ Sigpipe \/ ServerStep \/ Reset \/ Sigint

Spec == Init /\ [][Next]_vars

(***************************************************************************)
(* Both processes are scheduled, and TCP answers; nothing makes the client *)
(* call or go away.                                                        *)
(***************************************************************************)
Fairness ==
    /\ WF_vars(ClientStep)
    /\ WF_vars(ServerStep)
    /\ WF_vars(Reset)
    /\ WF_vars(Sigpipe)

FairSpec == Spec /\ Fairness
-----------------------------------------------------------------------------
(***************************************************************************)
(* Properties.                                                             *)
(***************************************************************************)
SamplesIn(s) == {i \in DOMAIN s : s[i][1] = "sample"}

(***************************************************************************)
(* A register read over the network returns what the client wrote there    *)
(* last, although io_write_net does not wait: the read overtakes no write. *)
(* It returns an arbitrary value only after the server ended or was        *)
(* interrupted: io_read_net has no way to say so.                          *)
(***************************************************************************)
ReadsSeeWrites ==
    last # NoRead => IF last[3] THEN last[2] = ReadLocal(shadow, last[1])
                     ELSE Ended \/ Closed

\* In order, none lost and none twice, however recv cuts the frames: what has
\* arrived begins what was written, and what is under way is the rest of it.
TxNothingLost ==
    LET arrived == Len(stream) + Len(buf)
        upTo(i) == arrived + Cardinality({j \in SamplesIn(up) : j <= i})
    IN  /\ upTo(Len(up)) = Len(wrote)
        /\ stream \o buf = SubSeq(wrote, 1, arrived)
        /\ \A i \in SamplesIn(up) : up[i][2] = wrote[upTo(i)]

\* From the first on in order, and then only what memory held: one buffer at most,
\* unless the handler lost its descriptor.
TxOnlyWritten ==
    \E n \in 0 .. Len(wrote) :
        /\ n <= Len(stream)
        /\ \A i \in 1 .. n : stream[i] = wrote[i]
        /\ \A i \in n + 1 .. Len(stream) : stream[i] = Junk
        /\ Len(stream) \in {n, n + BufferSize} \/ Closed

(***************************************************************************)
(* As long as the connection is not reset, every sample the client wrote   *)
(* is with the device, in the buffer being filled or under way.  Whatever  *)
(* happens to it, the device transmits the client's samples in order and   *)
(* nothing between them.  A recv that fails at the start of a buffer       *)
(* submits it unfilled, once; only an interrupt of the server, after which *)
(* every recv fails, can make it submit more.                              *)
(***************************************************************************)
TxFaithful ==
    /\ kind = "tx" /\ line \in {"up", "fin"} => TxNothingLost
    /\ TxOnlyWritten

(***************************************************************************)
(* The k-th frame the client reads is the beginning of the packet received *)
(* RingSize frames earlier: after one round of the ring no packet is       *)
(* skipped, repeated or mixed with another, however recv cuts the frames.  *)
(* The samples of a packet beyond a frame are lost, and a packet that is   *)
(* shorter than a frame is followed by what memory held.                   *)
(***************************************************************************)
RxInOrder ==
    \A k \in 1 .. Len(got) :
        LET frame == (k - 1) \div FrameSize + 1
            place == ((k - 1) % FrameSize) + 1
        IN  got[k] = IF frame <= RingSize \/ place > PacketSize THEN Junk
                     ELSE (frame - RingSize - 1) * PacketSize + place

(***************************************************************************)
(* The process that serves a client ends after the client went away or the *)
(* server was interrupted: no loop of the handlers goes on for ever on a   *)
(* dead connection.                                                        *)
(***************************************************************************)
TaskEnds == (cpc = "gone" \/ Closed) ~> Ended

\* Both ends wait for the other to read: the client never reads the
\* acknowledgements of a transmit stream.
BothSending ==
    /\ cpc = "write" /\ Len(up) + FrameSize + 2 > Window
    /\ spc = "wack" /\ Len(down) = Window

(***************************************************************************)
(* A call of the client returns or the client ends, but for two cases: a   *)
(* frame that the server was interrupted in, and a transmit stream both of *)
(* whose directions are full.                                              *)
(***************************************************************************)
NetCallsReturn ==
    cpc \notin {"ready", "spin", "gone"} ~>
        cpc \in {"ready", "gone"} \/ (cpc = "spin" /\ Closed) \/ BothSending
=============================================================================
