---------------------------- MODULE FrameStream ----------------------------
(***************************************************************************)
(* What a stream channel promises its user: frames leave at one end in the *)
(* order and with the contents in which they entered at the other, none is *)
(* lost, repeated or replaced, and no more than Capacity of them are       *)
(* between the two ends.  For a transmit channel the user is the source    *)
(* and the AXI stream the sink, for a receive channel the reverse.         *)
(***************************************************************************)
EXTENDS Naturals, Sequences

CONSTANT Capacity           \* frames that may be between source and sink

VARIABLES source,           \* frames that entered since the last restart
          sink              \* frames that left since the last restart

Init == source = <<>> /\ sink = <<>>

\* The k-th frame of a session is identified by its position, k.
Offer ==
    /\ Len(source) - Len(sink) < Capacity
    /\ source' = Append(source, Len(source) + 1)
    /\ UNCHANGED sink

Deliver ==
    /\ Len(sink) < Len(source)
    /\ sink' = Append(sink, source[Len(sink) + 1])
    /\ UNCHANGED source

\* A new session abandons whatever was on its way.
Restart == source' = <<>> /\ sink' = <<>>

Next == Offer \/ Deliver \/ Restart

Spec == Init /\ [][Next]_<<source, sink>>
=============================================================================
